--------------------------- MODULE OverlayProofs ---------------------------
(***************************************************************************)
(* Overlay for every set of frame sizes and every number of boxes: no byte *)
(* outside the frame is written, every person is framed and named, and     *)
(* nothing else is drawn.                                                  *)
(***************************************************************************)
EXTENDS Overlay, TLAPS

Colours == {"camera", "bright", "dark"}

\* The greater and the smaller of two numbers.
LEMMA MaxOfTwo ==
    ASSUME NEW a \in Int, NEW b \in Int
    PROVE  Max({a, b}) = IF a >= b THEN a ELSE b
<1> DEFINE m == IF a >= b THEN a ELSE b
<1>1. m \in {a, b} /\ \A y \in {a, b} : m >= y
  OBVIOUS
<1>2. \A x \in {a, b} : (\A y \in {a, b} : x >= y) => x = m
  OBVIOUS
<1>3. QED
  BY <1>1, <1>2 DEF Max

\* The smaller one.
LEMMA MinOfTwo ==
    ASSUME NEW a \in Int, NEW b \in Int
    PROVE  Min({a, b}) = IF a <= b THEN a ELSE b
<1> DEFINE m == IF a <= b THEN a ELSE b
<1>1. m \in {a, b} /\ \A y \in {a, b} : m <= y
  OBVIOUS
<1>2. \A x \in {a, b} : (\A y \in {a, b} : x <= y) => x = m
  OBVIOUS
<1>3. QED
  BY <1>1, <1>2 DEF Min

\* Rows of a width, one after the other: a place in one has a number of its
\* own, and a smaller one than all that comes after.
LEMMA PlaceInRows ==
    ASSUME NEW w \in Nat \ {0}, NEW h \in Nat \ {0},
           NEW x \in 0..(w - 1), NEW y \in 0..(h - 1)
    PROVE  /\ y * w + x \in 0..(h * w - 1)
           /\ \A u \in 0..(w - 1), v \in 0..(h - 1) :
                v * w + u = y * w + x => u = x /\ v = y
<1>1. ASSUME NEW p \in Nat, NEW q \in Nat, p < q
      PROVE  p * w + w <= q * w
  <2>1. PICK d \in Nat : q = p + 1 + d
    <3>1. q - p - 1 \in Nat /\ q = p + 1 + (q - p - 1)
      BY <1>1
    <3>2. QED
      BY <3>1
  <2>2. q * w = p * w + w + d * w /\ d * w \in Nat /\ p * w \in Nat
    BY <2>1
  <2>3. QED
    BY <2>2
<1>2. y * w \in Nat /\ y * w + w <= h * w /\ h * w \in Nat
  BY <1>1
<1>3. ASSUME NEW u \in 0..(w - 1), NEW v \in 0..(h - 1),
             v * w + u = y * w + x
      PROVE  u = x /\ v = y
  <2>1. v * w \in Nat
    OBVIOUS
  <2>2. ~(v < y)
    BY <1>1, <1>2, <1>3, <2>1
  <2>3. ~(y < v)
    BY <1>1, <1>2, <1>3, <2>1
  <2>4. v = y
    BY <2>2, <2>3
  <2>5. QED
    BY <1>2, <1>3, <2>4
<1>4. QED
  BY <1>2, <1>3

\* Each pixel of the picture has a byte of its own, in the frame.
LEMMA LumaInFrame ==
    ASSUME size \in Sizes, NEW p \in Pixels(size)
    PROVE  /\ Luma(p, size) \in Bytes(size)
           /\ \A q \in Pixels(size) : Luma(q, size) = Luma(p, size) => q = p
<1>1. /\ size[1] \in Nat \ {0} /\ size[2] \in Nat \ {0}
  BY SizesAssumption
<1>2. /\ p[1] \in 0..(size[1] - 1) /\ p[2] \in 0..(size[2] - 1)
      /\ p = <<p[1], p[2]>>
  BY DEF Pixels
<1> DEFINE place(q) == q[2] * size[1] + q[1]
<1>3. place(p) \in 0..(size[2] * size[1] - 1)
  BY <1>1, <1>2, PlaceInRows
<1>4. size[2] * size[1] = size[1] * size[2] /\ size[1] * size[2] \in Nat
      /\ 2 * size[1] * size[2] = 2 * (size[1] * size[2])
  BY <1>1
<1>5. Luma(p, size) \in Bytes(size)
  BY <1>3, <1>4 DEF Luma, Bytes
<1>6. ASSUME NEW q \in Pixels(size), Luma(q, size) = Luma(p, size) PROVE q = p
  <2>1. /\ q[1] \in 0..(size[1] - 1) /\ q[2] \in 0..(size[2] - 1)
        /\ q = <<q[1], q[2]>>
    BY DEF Pixels
  <2>2. place(q) \in Int
    BY <1>1, <2>1, PlaceInRows
  <2>3. place(q) = place(p)
    BY <1>3, <1>6, <2>2 DEF Luma
  <2>4. q[1] = p[1] /\ q[2] = p[2]
    BY <1>1, <1>2, <2>1, <2>3, PlaceInRows
  <2>5. QED
    BY <1>2, <2>1, <2>4
<1>7. QED
  BY <1>5, <1>6

\* Marks are pairs of coordinates.
Marks(m) == \A q \in m : q = <<q[1], q[2]>>

\* What r has of bytes, and what of marks set to a value.
Written(bytes, marks, value, r) ==
    /\ r \in [Bytes(size) -> Colours]
    /\ \A p \in Pixels(size) \cap marks : r[Luma(p, size)] = value
    /\ \A p \in Pixels(size) \ marks : r[Luma(p, size)] = bytes[Luma(p, size)]
    /\ \A i \in Bytes(size) :
         r[i] # bytes[i] => \E p \in Pixels(size) \cap marks : i = Luma(p, size)

\* set_pixel writes the pixels it is asked to, and no others.
LEMMA SetPixelsWrites ==
    ASSUME size \in Sizes, NEW bytes \in [Bytes(size) -> Colours],
           NEW marks, Marks(marks), NEW value \in Colours
    PROVE  Written(bytes, marks, value, SetPixels(bytes, marks, value))
<1> DEFINE r       == SetPixels(bytes, marks, value)
           seen    == {q \in marks : Visible(q[1], q[2])}
           written == {Index(p[1], p[2]) : p \in seen}
<1>1. seen = Pixels(size) \cap marks
  BY DEF Visible, Marks
<1>2. \A p \in Pixels(size) : Index(p[1], p[2]) = Luma(p, size)
  <2> TAKE p \in Pixels(size)
  <2>1. /\ size[1] \in Nat \ {0} /\ size[2] \in Nat \ {0}
    BY SizesAssumption
  <2>2. p[1] \in Int /\ p[2] \in Int
    BY DEF Pixels
  <2>3. QED
    BY <2>1, <2>2 DEF Index, Luma
<1>3. written = {Luma(p, size) : p \in Pixels(size) \cap marks}
  BY <1>1, <1>2
<1>4. written \subseteq Bytes(size)
  BY <1>3, LumaInFrame
<1>5. r = [i \in Bytes(size) |-> IF i \in written THEN value ELSE bytes[i]]
  <2>1. r = [i \in DOMAIN bytes \cup written |->
               IF i \in written THEN value ELSE bytes[i]]
    BY DEF SetPixels
  <2>2. DOMAIN bytes \cup written = Bytes(size)
    BY <1>4
  <2>3. QED
    BY <2>1, <2>2
<1> HIDE DEF written, r
<1>6. \A p \in Pixels(size) \ marks : Luma(p, size) \notin written
  BY <1>3, LumaInFrame
<1>7. r \in [Bytes(size) -> Colours]
  BY <1>5
<1>8. \A p \in Pixels(size) \cap marks : r[Luma(p, size)] = value
  BY <1>3, <1>4, <1>5
<1>9. \A p \in Pixels(size) \ marks : r[Luma(p, size)] = bytes[Luma(p, size)]
  BY <1>5, <1>6, LumaInFrame
<1>10. \A i \in Bytes(size) :
         r[i] # bytes[i] => \E p \in Pixels(size) \cap marks : i = Luma(p, size)
  BY <1>3, <1>5
<1>11. QED
  BY <1>7, <1>8, <1>9, <1>10 DEF Written, r

----------------------------------------------------------------------------
(* Boxes and their outlines.                                               *)

\* A box lies right of and below the origin.
Placed(b) ==
    b.x \in Nat /\ b.y \in Nat /\ b.width \in Nat /\ b.height \in Nat

\* A coordinate after clamping.
LEMMA ClampType ==
    ASSUME NEW v \in Int, NEW limit \in Nat \ {0}
    PROVE  Clamp(v, limit) \in Nat
BY MaxOfTwo, MinOfTwo DEF Clamp

\* What detect makes of corners, wherever they are.
LEMMA FoundPlaced ==
    ASSUME NEW b \in Found
    PROVE  Placed(b)
<1>1. PICK p \in Corners \X Corners, q \in Corners \X Corners, s \in Sizes :
        b \in Detected(p, q, s)
  BY DEF Found
<1> DEFINE x1 == Clamp(p[1], s[1])  x2 == Clamp(q[1], s[1])
           y1 == Clamp(p[2], s[2])  y2 == Clamp(q[2], s[2])
<1>2. x1 \in Nat /\ x2 \in Nat /\ y1 \in Nat /\ y2 \in Nat
  BY ClampType, SizesAssumption, BoxesAssumption
<1>3. /\ ~(x2 <= x1 \/ y2 <= y1)
      /\ b = [x |-> x1, y |-> y1, width |-> x2 - x1, height |-> y2 - y1]
  BY <1>1 DEF Detected
<1> HIDE DEF x1, x2, y1, y2
<1>4. QED
  BY <1>2, <1>3 DEF Placed

\* And what is mixed of such boxes.
LEMMA BoxesPlaced ==
    ASSUME NEW b \in Boxes
    PROVE  Placed(b)
BY FoundPlaced DEF Boxes, Placed

\* The pixels that draw_rectangle sets.
Lines(b) == Horizontal(b.x, b.x + b.width - 1, b.y)
              \cup Horizontal(b.x, b.x + b.width - 1, b.y + b.height - 1)
Sides(b) == Vertical(b.x, b.y, b.y + b.height - 1)
              \cup Vertical(b.x + b.width - 1, b.y, b.y + b.height - 1)

\* draw_rectangle in these terms.
LEMMA RectangleIs ==
    ASSUME NEW bytes, NEW b
    PROVE  Rectangle(bytes, b)
             = SetPixels(SetPixels(bytes, Lines(b), "bright"), Sides(b), "dark")
BY DEF Rectangle, Lines, Sides

\* Of a box placed, clamping keeps what lies in the picture.
LEMMA ClampedIs ==
    ASSUME size \in Sizes, NEW b, Placed(b)
    PROVE  LET c == Clamped(b) IN
           /\ c.x = b.x /\ c.y = b.y
           /\ c.width =
                (IF b.x + b.width <= size[1] THEN b.x + b.width ELSE size[1])
                  - b.x
           /\ c.height =
                (IF b.y + b.height <= size[2] THEN b.y + b.height ELSE size[2])
                  - b.y
<1>1. size[1] \in Nat /\ size[2] \in Nat
  BY SizesAssumption
<1>2. Max({0, b.x}) = b.x /\ Max({0, b.y}) = b.y
  BY MaxOfTwo DEF Placed
<1>3. /\ Min({b.x + b.width, size[1]})
           = IF b.x + b.width <= size[1] THEN b.x + b.width ELSE size[1]
      /\ Min({b.y + b.height, size[2]})
           = IF b.y + b.height <= size[2] THEN b.y + b.height ELSE size[2]
  BY <1>1, MinOfTwo DEF Placed
<1>4. QED
  BY <1>2, <1>3 DEF Clamped

\* What is seen of a box is a rectangle, that of the box clamped.
LEMMA SeenIs ==
    ASSUME size \in Sizes, NEW b, Placed(b)
    PROVE  LET c == Clamped(b) IN
           /\ c.x \in Nat /\ c.y \in Nat /\ c.width \in Int /\ c.height \in Int
           /\ c.x + c.width <= size[1] /\ c.y + c.height <= size[2]
           /\ Seen(b, size)
                = (c.x..(c.x + c.width - 1)) \X (c.y..(c.y + c.height - 1))
<1> DEFINE c == Clamped(b)
<1>1. size[1] \in Nat /\ size[2] \in Nat
  BY SizesAssumption
<1>2. /\ c.x = b.x /\ c.y = b.y
      /\ c.width =
           (IF b.x + b.width <= size[1] THEN b.x + b.width ELSE size[1]) - b.x
      /\ c.height =
           (IF b.y + b.height <= size[2] THEN b.y + b.height ELSE size[2]) - b.y
  BY ClampedIs
<1> HIDE DEF c
<1>3. /\ c.x \in Nat /\ c.y \in Nat /\ c.width \in Int /\ c.height \in Int
      /\ c.x + c.width <= size[1] /\ c.y + c.height <= size[2]
  BY <1>1, <1>2 DEF Placed
<1>4. ASSUME NEW u \in Int, NEW v \in Int
      PROVE  <<u, v>> \in Seen(b, size)
               <=> /\ u \in c.x..(c.x + c.width - 1)
                   /\ v \in c.y..(c.y + c.height - 1)
  BY <1>1, <1>2 DEF Seen, Pixels, Placed
<1>5. ASSUME NEW p \in Seen(b, size)
      PROVE  p[1] \in Int /\ p[2] \in Int /\ p = <<p[1], p[2]>>
  BY DEF Seen, Pixels
<1>6. Seen(b, size) = (c.x..(c.x + c.width - 1)) \X (c.y..(c.y + c.height - 1))
  <2>1. ASSUME NEW p \in Seen(b, size)
        PROVE  p \in (c.x..(c.x + c.width - 1)) \X (c.y..(c.y + c.height - 1))
    BY <1>4, <1>5
  <2>2. ASSUME NEW p \in (c.x..(c.x + c.width - 1))
                           \X (c.y..(c.y + c.height - 1))
        PROVE  p \in Seen(b, size)
    <3>1. p[1] \in Int /\ p[2] \in Int /\ p = <<p[1], p[2]>>
      BY <1>3
    <3>2. QED
      BY <1>4, <3>1
  <2>3. QED
    BY <2>1, <2>2
<1>7. QED
  BY <1>3, <1>6 DEF c

\* The outline of a box: what draw_rectangle sets for the box clamped, and
\* nothing if that is empty.
LEMMA OutlineIs ==
    ASSUME size \in Sizes, NEW b, Placed(b)
    PROVE  /\ Empty(Clamped(b)) => Outline(b, size) = {}
           /\ ~Empty(Clamped(b)) =>
                /\ Outline(b, size) = Lines(Clamped(b)) \cup Sides(Clamped(b))
                /\ Outline(b, size) # {} /\ b.x < size[1] /\ b.y < size[2]
           /\ Outline(b, size) \subseteq Pixels(size)
<1> DEFINE c  == Clamped(b)
           x2 == c.x + c.width - 1
           y2 == c.y + c.height - 1
<1>1. /\ c.x \in Nat /\ c.y \in Nat /\ c.width \in Int /\ c.height \in Int
      /\ c.x + c.width <= size[1] /\ c.y + c.height <= size[2]
      /\ Seen(b, size) = (c.x..x2) \X (c.y..y2)
  BY SeenIs
<1>2. c.x = b.x /\ c.y = b.y
  BY ClampedIs
<1> HIDE DEF c
<1>3. /\ Outline(b, size) \subseteq Seen(b, size)
      /\ Seen(b, size) \subseteq Pixels(size)
  BY DEF Outline, Seen
<1>4. CASE Empty(c)
  <2>1. Seen(b, size) = {}
    BY <1>1, <1>4 DEF Empty
  <2>2. QED
    BY <1>3, <1>4, <2>1 DEF c
<1>5. CASE ~Empty(c)
  <2>1. c.width > 0 /\ c.height > 0
    BY <1>1, <1>5 DEF Empty
  <2>2. <<c.x, c.y>> \in Seen(b, size) /\ <<x2, y2>> \in Seen(b, size)
    BY <1>1, <2>1
  <2>3. ASSUME NEW u \in c.x..x2, NEW v \in c.y..y2
        PROVE  <<u, v>> \in Outline(b, size)
                 <=> u = c.x \/ u = x2 \/ v = c.y \/ v = y2
    <3>1. <<u, v>> \in Seen(b, size) /\ u \in Int /\ v \in Int
      BY <1>1
    <3>2. \A q \in Seen(b, size) : q[1] \in c.x..x2 /\ q[2] \in c.y..y2
      BY <1>1
    <3>3. (\A q \in Seen(b, size) : u <= q[1]) <=> u = c.x
      BY <1>1, <2>2, <3>2
    <3>4. (\A q \in Seen(b, size) : u >= q[1]) <=> u = x2
      BY <1>1, <2>2, <3>2
    <3>5. (\A q \in Seen(b, size) : v <= q[2]) <=> v = c.y
      BY <1>1, <2>2, <3>2
    <3>6. (\A q \in Seen(b, size) : v >= q[2]) <=> v = y2
      BY <1>1, <2>2, <3>2
    <3>7. <<u, v>>[1] = u /\ <<u, v>>[2] = v
      OBVIOUS
    <3>8. QED
      BY <3>1, <3>3, <3>4, <3>5, <3>6, <3>7, Zenon DEF Outline
  <2>4. ASSUME NEW p \in Outline(b, size) PROVE p \in Lines(c) \cup Sides(c)
    <3>1. /\ p[1] \in c.x..x2 /\ p[2] \in c.y..y2 /\ p = <<p[1], p[2]>>
      BY <1>1, <1>3
    <3>2. p[1] = c.x \/ p[1] = x2 \/ p[2] = c.y \/ p[2] = y2
      BY <2>3, <3>1
    <3>3. QED
      BY <3>1, <3>2 DEF Lines, Sides, Horizontal, Vertical
  <2>5. ASSUME NEW p \in Lines(c) \cup Sides(c) PROVE p \in Outline(b, size)
    <3>1. /\ p[1] \in c.x..x2 /\ p[2] \in c.y..y2 /\ p = <<p[1], p[2]>>
          /\ p[1] = c.x \/ p[1] = x2 \/ p[2] = c.y \/ p[2] = y2
      BY <1>1, <2>1 DEF Lines, Sides, Horizontal, Vertical
    <3>2. QED
      BY <2>3, <3>1
  <2>6. Outline(b, size) = Lines(c) \cup Sides(c)
    BY <2>4, <2>5
  <2>7. <<c.x, c.y>> \in Outline(b, size)
    BY <1>1, <2>1, <2>3
  <2>8. b.x < size[1] /\ b.y < size[2]
    BY <1>1, <1>2, <2>1, SizesAssumption
  <2>9. QED
    BY <1>3, <1>5, <2>6, <2>7, <2>8 DEF c
<1>6. QED
  BY <1>4, <1>5 DEF c

----------------------------------------------------------------------------
(* The steps.                                                              *)

\* A text is made of pixels.
LEMMA TextMarks ==
    ASSUME NEW x, NEW y, NEW length, NEW scale
    PROVE  Marks(Text(x, y, length, scale))
BY DEF Marks, Text

\* And so are the lines, the sides and the label of a box.
LEMMA BoxMarks ==
    ASSUME NEW b
    PROVE  Marks(Lines(b)) /\ Marks(Sides(b)) /\ Marks(Label(b))
<1>1. Marks(Lines(b)) /\ Marks(Sides(b))
  BY DEF Marks, Lines, Sides, Horizontal, Vertical
<1>2. Marks(Label(b))
  BY TextMarks DEF Marks, Label, Name
<1>3. QED
  BY <1>1, <1>2

\* The label of a box that can be seen is not outside the picture.
LEMMA NameSeen ==
    ASSUME size \in Sizes, NEW b, Placed(b), b.x < size[1], b.y < size[2]
    PROVE  Name(b) \cap Pixels(size) # {}
<1> DEFINE l == LabelLine(b.y)
<1>1. LabelUp + LabelIn <= size[2] /\ size[1] \in Nat /\ size[2] \in Nat
  BY LabelAssumption, SizesAssumption
<1>2. l \in 0..(size[2] - 1)
  BY <1>1, LabelAssumption DEF LabelLine, Placed
<1> HIDE DEF l
<1>3. <<b.x, l>> \in Pixels(size)
  BY <1>1, <1>2 DEF Pixels, Placed
<1>4. <<b.x, l>> \in Text(b.x, l, LabelLength, 2)
  <2> DEFINE g == <<0, 0>>
  <2>1. g \in Glyph /\ 0 \in 0..(LabelLength - 1) /\ 0 \in 0..(2 - 1)
    BY GlyphAssumption, LabelAssumption
  <2>2. \A n \in 0..(LabelLength - 1), h \in Glyph,
           sx \in 0..(2 - 1), sy \in 0..(2 - 1) :
             <<b.x + (n * (Cols + 1) + h[2]) * 2 + sx, l + h[1] * 2 + sy>>
               \in Text(b.x, l, LabelLength, 2)
    BY DEF Text
  <2>5. <<b.x + (0 * (Cols + 1) + g[2]) * 2 + 0, l + g[1] * 2 + 0>>
          \in Text(b.x, l, LabelLength, 2)
    BY <2>1, <2>2, Zenon
  <2>3. /\ b.x + (0 * (Cols + 1) + g[2]) * 2 + 0 = b.x
        /\ l + g[1] * 2 + 0 = l
    BY <1>2, GlyphAssumption DEF Placed
  <2>4. QED
    BY <2>3, <2>5
<1>5. QED
  BY <1>3, <1>4 DEF Name, l

\* What drawing a box does to the picture.
LEMMA BoxDrawn ==
    ASSUME TypeOK, NEW b, Placed(b), ~Empty(Clamped(b))
    PROVE  LET r == SetPixels(Rectangle(picture, Clamped(b)),
                              Label(Clamped(b)), "dark")
           IN  /\ r \in [Bytes(size) -> Colours]
               /\ \A p \in Label(b) \cap Pixels(size) :
                    r[Luma(p, size)] = "dark"
               /\ \A p \in Outline(b, size) : r[Luma(p, size)] # "camera"
               /\ \A i \in Bytes(size) :
                    picture[i] # "camera" => r[i] # "camera"
               /\ \A p \in Pixels(size) \ Outline(b, size) :
                    picture[Luma(p, size)] = "dark" => r[Luma(p, size)] = "dark"
               /\ \A i \in Bytes(size) : r[i] # picture[i] =>
                    \E p \in (Outline(b, size) \cup Label(b))
                              \cap Pixels(size) : i = Luma(p, size)
<1> DEFINE c == Clamped(b)
           f == SetPixels(picture, Lines(c), "bright")
           g == SetPixels(f, Sides(c), "dark")
           r == SetPixels(g, Label(c), "dark")
<1>1. Label(c) = Label(b)
  BY ClampedIs DEF Label, Name, TypeOK
<1>2. Outline(b, size) = Lines(c) \cup Sides(c)
      /\ Outline(b, size) \subseteq Pixels(size)
  BY OutlineIs DEF TypeOK
<1>3. /\ Marks(Lines(c)) /\ Marks(Sides(c)) /\ Marks(Label(c))
      /\ size \in Sizes /\ picture \in [Bytes(size) -> Colours]
      /\ "bright" \in Colours /\ "dark" \in Colours
  BY BoxMarks DEF TypeOK, Colours
<1>13. /\ f = SetPixels(picture, Lines(c), "bright")
       /\ g = SetPixels(f, Sides(c), "dark")
       /\ r = SetPixels(g, Label(c), "dark")
  OBVIOUS
<1> HIDE DEF c, f, g, r
<1>4. Written(picture, Lines(c), "bright", f)
  BY <1>3, <1>13, SetPixelsWrites
<1>5. Written(f, Sides(c), "dark", g)
  <2>1. f \in [Bytes(size) -> Colours]
    BY <1>4 DEF Written
  <2>2. QED
    BY <1>3, <1>13, <2>1, SetPixelsWrites
<1>6. Written(g, Label(c), "dark", r)
  <2>1. g \in [Bytes(size) -> Colours]
    BY <1>5 DEF Written
  <2>2. QED
    BY <1>3, <1>13, <2>1, SetPixelsWrites
<1>7. \A p \in Outline(b, size) : r[Luma(p, size)] # "camera"
  BY <1>2, <1>4, <1>5, <1>6 DEF Written
<1>8. \A p \in Pixels(size) \ Outline(b, size) :
        picture[Luma(p, size)] = "dark" => r[Luma(p, size)] = "dark"
  BY <1>2, <1>4, <1>5, <1>6 DEF Written
<1>9. ASSUME NEW i \in Bytes(size), r[i] # picture[i]
      PROVE  \E p \in (Outline(b, size) \cup Label(b)) \cap Pixels(size) :
               i = Luma(p, size)
  BY <1>1, <1>2, <1>4, <1>5, <1>6, <1>9 DEF Written
<1>10. ASSUME NEW i \in Bytes(size), picture[i] # "camera"
       PROVE  r[i] # "camera"
  <2>1. CASE r[i] = picture[i]
    BY <1>10, <2>1
  <2>2. CASE r[i] # picture[i]
    <3>1. PICK p \in (Outline(b, size) \cup Label(b)) \cap Pixels(size) :
             i = Luma(p, size)
      BY <1>9, <2>2
    <3>2. QED
      BY <1>1, <1>6, <1>7, <3>1 DEF Written
  <2>3. QED
    BY <2>1, <2>2
<1>11. r = SetPixels(Rectangle(picture, c), Label(c), "dark")
  BY RectangleIs DEF r, g, f
<1>12. QED
  BY <1>1, <1>6, <1>7, <1>8, <1>9, <1>10, <1>11 DEF c, Written

----------------------------------------------------------------------------
(* The inductive invariant.                                                *)

\* The status is drawn before any box.
OverlayInv ==
    /\ TypeOK /\ PersonsFramed /\ NothingElseDrawn
    /\ pc = "status" => drawn = 0

\* The boxes of a snapshot are where detect has put them.
LEMMA SnapshotPlaced ==
    ASSUME TypeOK, NEW i \in 1..Len(boxes)
    PROVE  Placed(boxes[i])
BY BoxesPlaced DEF TypeOK

\* A frame of the camera, with nothing drawn yet.
LEMMA CameraClean ==
    ASSUME size \in Sizes, picture = Camera(size), drawn = 0
    PROVE  /\ picture \in [Bytes(size) -> {"camera", "bright", "dark"}]
           /\ PersonsFramed /\ NothingElseDrawn
<1>1. picture \in [Bytes(size) -> {"camera", "bright", "dark"}]
  BY DEF Camera
<1>2. PersonsFramed
  BY DEF PersonsFramed
<1>3. NothingElseDrawn
  BY DEF NothingElseDrawn, Camera
<1>4. QED
  BY <1>1, <1>2, <1>3

\* The first frame is as the camera gave it.
LEMMA OverlayInit == Init => OverlayInv
<1> SUFFICES ASSUME Init PROVE OverlayInv
  OBVIOUS
<1>1. PersonsFramed /\ NothingElseDrawn
      /\ picture \in [Bytes(size) -> {"camera", "bright", "dark"}]
  BY CameraClean DEF Init
<1>2. TypeOK
  BY <1>1 DEF Init, TypeOK
<1>3. QED
  BY <1>1, <1>2 DEF Init, OverlayInv

\* The status texts change brightness where they are, and nowhere else.
LEMMA StatusDrawn ==
    ASSUME OverlayInv, DrawStatus
    PROVE  OverlayInv'
<1> DEFINE marks == UNION {Text(t[1], t[2], t[3], 1) : t \in Status}
<1>1. /\ size \in Sizes /\ picture \in [Bytes(size) -> Colours]
      /\ "dark" \in Colours /\ Marks(marks)
  <2>1. Marks(marks)
    BY TextMarks DEF Marks
  <2>2. QED
    BY <2>1 DEF OverlayInv, TypeOK, Colours
<1>2. picture' = SetPixels(picture, marks, "dark")
  BY DEF DrawStatus
<1> HIDE DEF marks
<1>3. Written(picture, marks, "dark", picture')
  BY <1>1, <1>2, SetPixelsWrites
<1>4. TypeOK'
  BY <1>3 DEF DrawStatus, OverlayInv, TypeOK, Written, Colours
<1>5. PersonsFramed'
  BY DEF DrawStatus, PersonsFramed
<1>6. marks \subseteq Lettered /\ Lettered' = Lettered /\ Outlined' = Outlined
  BY DEF marks, Lettered, Outlined, DrawStatus, OverlayInv
<1>7. NothingElseDrawn'
  <2> SUFFICES ASSUME NEW i \in Bytes(size), picture'[i] # "camera"
               PROVE  \E p \in (Lettered \cup Outlined) \cap Pixels(size) :
                        i = Luma(p, size)
    BY <1>6 DEF NothingElseDrawn, DrawStatus
  <2>1. CASE picture'[i] = picture[i]
    BY <2>1 DEF OverlayInv, NothingElseDrawn
  <2>2. CASE picture'[i] # picture[i]
    BY <1>3, <1>6, <2>2 DEF Written
  <2>3. QED
    BY <2>1, <2>2
<1>8. QED
  BY <1>4, <1>5, <1>7 DEF OverlayInv, DrawStatus

\* The next box joins those done.
LEMMA OneMore ==
    ASSUME TypeOK, drawn < Len(boxes), UNCHANGED <<size, boxes>>,
           drawn' = drawn + 1
    PROVE  /\ drawn + 1 \in 1..Len(boxes) /\ drawn' \in 0..Len(boxes')
           /\ 1..drawn' = 1..drawn \cup {drawn + 1}
           /\ Lettered' = Lettered \cup Label(boxes[drawn + 1])
           /\ Outlined' = Outlined \cup Outline(boxes[drawn + 1], size)
<1>1. drawn \in Nat /\ Len(boxes) \in Nat
  BY DEF TypeOK
<1>2. 1..drawn' = 1..drawn \cup {drawn + 1}
  BY <1>1
<1>3. Lettered' = (UNION {Text(t[1], t[2], t[3], 1) : t \in Status})
                    \cup UNION {Label(boxes[i]) : i \in 1..drawn'}
  BY DEF Lettered
<1>4. Outlined' = UNION {Outline(boxes[i], size) : i \in 1..drawn'}
  BY DEF Outlined
<1>5. Lettered' = Lettered \cup Label(boxes[drawn + 1])
  <2>1. UNION {Label(boxes[i]) : i \in 1..drawn'}
          = (UNION {Label(boxes[i]) : i \in 1..drawn})
              \cup Label(boxes[drawn + 1])
    BY <1>2
  <2>2. QED
    BY <1>3, <2>1, Zenon DEF Lettered
<1>6. Outlined' = Outlined \cup Outline(boxes[drawn + 1], size)
  BY <1>2, <1>4 DEF Outlined
<1>7. QED
  BY <1>1, <1>2, <1>5, <1>6

\* A box is drawn over those before it.
LEMMA BoxesDrawn ==
    ASSUME OverlayInv, DrawBox
    PROVE  OverlayInv'
<1> DEFINE n == drawn + 1
           b == boxes[n]
<1>1. /\ TypeOK /\ PersonsFramed /\ NothingElseDrawn
      /\ pc = "box" /\ drawn < Len(boxes) /\ ~Empty(Clamped(b))
      /\ picture' = SetPixels(Rectangle(picture, Clamped(b)),
                              Label(Clamped(b)), "dark")
      /\ drawn' = drawn + 1 /\ UNCHANGED <<pc, size, boxes>>
  BY DEF OverlayInv, DrawBox, Current
<1>2. /\ n \in 1..Len(boxes) /\ drawn' \in 0..Len(boxes')
      /\ 1..drawn' = 1..drawn \cup {n}
      /\ Lettered' = Lettered \cup Label(b)
      /\ Outlined' = Outlined \cup Outline(b, size)
  BY <1>1, OneMore
<1>3. Placed(b) /\ size \in Sizes
  BY <1>1, <1>2, SnapshotPlaced DEF TypeOK
<1> HIDE DEF b
<1>4. /\ picture' \in [Bytes(size) -> Colours]
      /\ \A p \in Label(b) \cap Pixels(size) :
           picture'[Luma(p, size)] = "dark"
      /\ \A p \in Outline(b, size) : picture'[Luma(p, size)] # "camera"
      /\ \A i \in Bytes(size) : picture[i] # "camera" => picture'[i] # "camera"
      /\ \A p \in Pixels(size) \ Outline(b, size) :
           picture[Luma(p, size)] = "dark" => picture'[Luma(p, size)] = "dark"
      /\ \A i \in Bytes(size) : picture'[i] # picture[i] =>
           \E p \in (Outline(b, size) \cup Label(b)) \cap Pixels(size) :
             i = Luma(p, size)
  BY <1>1, <1>3, BoxDrawn
<1>5. Name(b) \cap Pixels(size) # {}
  BY <1>1, <1>3, OutlineIs, NameSeen
<1>6. TypeOK'
  BY <1>1, <1>2, <1>4 DEF TypeOK, Colours
<1>7. ASSUME NEW i \in 1..drawn
      PROVE  /\ \A p \in Outline(boxes[i], size) :
                  picture'[Luma(p, size)] # "camera"
             /\ Outline(boxes[i], size) # {} =>
                  /\ Name(boxes[i]) \cap Pixels(size) # {}
                  /\ \A p \in Label(boxes[i]) \cap Pixels(size) :
                       \/ picture'[Luma(p, size)] = "dark"
                       \/ \E j \in (i + 1)..drawn' :
                            p \in Outline(boxes[j], size)
  <2>1. i \in 1..Len(boxes) /\ i \in Int /\ drawn \in Int
    BY <1>1 DEF TypeOK
  <2>2. \A p \in Outline(boxes[i], size) : Luma(p, size) \in Bytes(size)
    BY <1>1, <1>3, <2>1, SnapshotPlaced, OutlineIs, LumaInFrame
  <2>3. \A p \in Outline(boxes[i], size) : picture'[Luma(p, size)] # "camera"
    BY <1>1, <1>4, <2>2 DEF PersonsFramed
  <2>4. ASSUME Outline(boxes[i], size) # {},
               NEW p \in Label(boxes[i]) \cap Pixels(size),
               p \notin Outline(b, size)
        PROVE  \/ picture'[Luma(p, size)] = "dark"
               \/ \E j \in (i + 1)..drawn' : p \in Outline(boxes[j], size)
    <3>1. CASE picture[Luma(p, size)] = "dark"
      BY <1>4, <2>4, <3>1
    <3>2. CASE \E j \in (i + 1)..drawn : p \in Outline(boxes[j], size)
      BY <1>1, <2>1, <3>2
    <3>3. QED
      BY <1>1, <2>4, <3>1, <3>2 DEF PersonsFramed
  <2>5. ASSUME NEW p \in Outline(b, size)
        PROVE  \E j \in (i + 1)..drawn' : p \in Outline(boxes[j], size)
    <3>1. n \in (i + 1)..drawn'
      BY <1>1, <2>1
    <3>2. QED
      BY <3>1 DEF b
  <2>6. QED
    BY <1>1, <2>3, <2>4, <2>5 DEF PersonsFramed
<1>8. PersonsFramed'
  <2> SUFFICES ASSUME NEW i \in 1..drawn'
               PROVE  /\ \A p \in Outline(boxes[i], size) :
                           picture'[Luma(p, size)] # "camera"
                      /\ Outline(boxes[i], size) # {} =>
                           /\ Name(boxes[i]) \cap Pixels(size) # {}
                           /\ \A p \in Label(boxes[i]) \cap Pixels(size) :
                                \/ picture'[Luma(p, size)] = "dark"
                                \/ \E j \in (i + 1)..drawn' :
                                     p \in Outline(boxes[j], size)
    BY <1>1 DEF PersonsFramed
  <2>1. CASE i \in 1..drawn
    BY <1>7, <2>1
  <2>2. CASE i = n
    BY <1>4, <1>5, <2>2 DEF b
  <2>3. QED
    BY <1>2, <2>1, <2>2
<1>9. NothingElseDrawn'
  <2> SUFFICES ASSUME NEW i \in Bytes(size), picture'[i] # "camera"
               PROVE  \E p \in (Lettered' \cup Outlined') \cap Pixels(size) :
                        i = Luma(p, size)
    BY <1>1 DEF NothingElseDrawn
  <2>1. CASE picture'[i] = picture[i]
    BY <1>1, <1>2, <2>1 DEF NothingElseDrawn
  <2>2. CASE picture'[i] # picture[i]
    BY <1>2, <1>4, <2>2
  <2>3. QED
    BY <2>1, <2>2
<1>10. QED
  BY <1>1, <1>6, <1>8, <1>9 DEF OverlayInv

\* A box of which nothing can be seen needs no frame.
LEMMA BoxSkipped ==
    ASSUME OverlayInv, SkipBox
    PROVE  OverlayInv'
<1> DEFINE n == drawn + 1
           b == boxes[n]
<1>1. /\ TypeOK /\ PersonsFramed /\ NothingElseDrawn
      /\ pc = "box" /\ drawn < Len(boxes) /\ Empty(Clamped(b))
      /\ drawn' = drawn + 1 /\ UNCHANGED <<pc, size, boxes, picture>>
  BY DEF OverlayInv, SkipBox, Current
<1>2. /\ n \in 1..Len(boxes) /\ drawn' \in 0..Len(boxes')
      /\ 1..drawn' = 1..drawn \cup {n}
      /\ Lettered' = Lettered \cup Label(b)
      /\ Outlined' = Outlined \cup Outline(b, size)
  BY <1>1, OneMore
<1>3. Outline(b, size) = {}
  BY <1>1, <1>2, SnapshotPlaced, OutlineIs DEF TypeOK
<1>4. TypeOK'
  BY <1>1, <1>2 DEF TypeOK
<1>5. PersonsFramed'
  <2> SUFFICES ASSUME NEW i \in 1..drawn'
               PROVE  /\ \A p \in Outline(boxes[i], size) :
                           picture[Luma(p, size)] # "camera"
                      /\ Outline(boxes[i], size) # {} =>
                           /\ Name(boxes[i]) \cap Pixels(size) # {}
                           /\ \A p \in Label(boxes[i]) \cap Pixels(size) :
                                \/ picture[Luma(p, size)] = "dark"
                                \/ \E j \in (i + 1)..drawn' :
                                     p \in Outline(boxes[j], size)
    BY <1>1 DEF PersonsFramed
  <2>1. CASE i \in 1..drawn
    <3>1. \A j \in (i + 1)..drawn : j \in (i + 1)..drawn'
      BY <1>1 DEF TypeOK
    <3>2. QED
      BY <1>1, <2>1, <3>1 DEF PersonsFramed
  <2>2. CASE i = n
    BY <1>3, <2>2
  <2>3. QED
    BY <1>2, <2>1, <2>2
<1>6. NothingElseDrawn'
  BY <1>1, <1>2 DEF NothingElseDrawn
<1>7. QED
  BY <1>1, <1>4, <1>5, <1>6 DEF OverlayInv

\* The next frame, of the same camera or of another one.
LEMMA NextFrame ==
    ASSUME OverlayInv, Capture \/ Restart
    PROVE  OverlayInv'
<1>1. size' \in Sizes /\ picture' = Camera(size') /\ drawn' = 0
      /\ boxes' \in Seq(Boxes) /\ pc' = "status"
  <2>1. Snapshots \subseteq Seq(Boxes)
    BY BoxesAssumption DEF Snapshots
  <2>2. <<>> \in Seq(Boxes)
    OBVIOUS
  <2>3. QED
    BY <2>1, <2>2 DEF Capture, Restart, OverlayInv, TypeOK
<1>2. /\ picture' \in [Bytes(size') -> {"camera", "bright", "dark"}]
      /\ PersonsFramed' /\ NothingElseDrawn'
  <2>1. (/\ size \in Sizes /\ picture = Camera(size) /\ drawn = 0
         => /\ picture \in [Bytes(size) -> {"camera", "bright", "dark"}]
            /\ PersonsFramed /\ NothingElseDrawn)'
    BY CameraClean, PTL
  <2>2. QED
    BY <1>1, <2>1
<1>3. TypeOK'
  BY <1>1, <1>2 DEF TypeOK
<1>4. QED
  BY <1>1, <1>2, <1>3 DEF OverlayInv

\* Nothing is drawn, and no box is done.
LEMMA PictureKept ==
    ASSUME UNCHANGED <<size, boxes, drawn, picture>>
    PROVE  /\ PersonsFramed => PersonsFramed'
           /\ NothingElseDrawn => NothingElseDrawn'
<1>1. PersonsFramed => PersonsFramed'
  BY DEF PersonsFramed
<1>2. Lettered' = Lettered /\ Outlined' = Outlined
  BY DEF Lettered, Outlined
<1>3. NothingElseDrawn => NothingElseDrawn'
  BY <1>2 DEF NothingElseDrawn
<1>4. QED
  BY <1>1, <1>3

\* What is drawn stays so at every step.
THEOREM OverlayInductive == Spec => []OverlayInv
<1>1. OverlayInv /\ [Next]_vars => OverlayInv'
  <2> SUFFICES ASSUME OverlayInv, [Next]_vars PROVE OverlayInv'
    OBVIOUS
  <2>1. CASE DrawStatus
    BY <2>1, StatusDrawn
  <2>2. CASE DrawBox
    BY <2>2, BoxesDrawn
  <2>3. CASE SkipBox
    BY <2>3, BoxSkipped
  <2>4. CASE AllDrawn
    BY <2>4, PictureKept DEF AllDrawn, OverlayInv, TypeOK
  <2>5. CASE Capture \/ Restart
    BY <2>5, NextFrame
  <2>6. CASE UNCHANGED vars
    BY <2>6, PictureKept DEF vars, OverlayInv, TypeOK
  <2>7. QED
    BY <2>1, <2>2, <2>3, <2>4, <2>5, <2>6 DEF Next
<1>2. QED
  BY OverlayInit, <1>1, PTL DEF Spec

\* set_pixel never writes outside the frame, however the boxes of an old
\* snapshot and the geometry of now differ.
THEOREM OverlayTypesOK == Spec => []TypeOK
<1>1. OverlayInv => TypeOK
  BY DEF OverlayInv
<1>2. QED
  BY OverlayInductive, <1>1, PTL

\* Whatever draw_rectangle and draw_text of later boxes do, every person done
\* keeps a frame, a name, and a label that only frames cross.
THEOREM EveryoneFramed == Spec => []PersonsFramed
<1>1. OverlayInv => PersonsFramed
  BY DEF OverlayInv
<1>2. QED
  BY OverlayInductive, <1>1, PTL

\* overlay_draw_detections leaves every other byte as the camera gave it.
THEOREM RestUntouched == Spec => []NothingElseDrawn
<1>1. OverlayInv => NothingElseDrawn
  BY DEF OverlayInv
<1>2. QED
  BY OverlayInductive, <1>1, PTL
============================================================================
