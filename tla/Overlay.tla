------------------------------ MODULE Overlay ------------------------------
(***************************************************************************)
(* From the detector's corners to the picture: detect clamps the corners   *)
(* of a person to the frame it looked at, and overlay_draw_detections      *)
(* draws each box, with two lines of text, into the YUYV bytes of the      *)
(* frame that is streamed.  After a restart of the core the two frames     *)
(* need not have the same size.                                            *)
(*                                                                         *)
(* Bytes are told apart only by who wrote them.  One pattern stands for    *)
(* all characters.                                                         *)
(***************************************************************************)
EXTENDS Integers, Sequences, FiniteSetsExt

CONSTANTS
    Sizes,        \* widths and heights, as <<width, height>>
    Corners,      \* coordinates the network gives, outside the frame too
    MaxBoxes,     \* MAX_DETECTIONS
    Rows, Cols,   \* of a character: 7 and 5
    Glyph,        \* the <<row, column>> it sets
    Status,       \* the texts of every frame, as <<x, y, length>>
    LabelLength, ConfidenceLength,  \* of its two texts, in characters
    LabelUp, LabelIn, LabelStep  \* 18, 2 and 16 lines

ASSUME SizesAssumption == Sizes \subseteq (Nat \ {0}) \X (Nat \ {0})
ASSUME BoxesAssumption == MaxBoxes \in Nat /\ Corners \subseteq Int
\* The pattern of P, with which a label begins, sets its first dot.
ASSUME GlyphAssumption ==
    /\ Rows \in Nat /\ Cols \in Nat
    /\ Glyph \subseteq (0..(Rows - 1)) \X (0..(Cols - 1)) /\ <<0, 0>> \in Glyph
\* There is room for the first dot of a label above or in the picture.
ASSUME LabelAssumption ==
    /\ LabelLength \in Nat \ {0} /\ LabelUp \in Nat /\ LabelIn \in Nat
    /\ \A s \in Sizes : LabelUp + LabelIn <= s[2]

VARIABLES
    pc,       \* "status", "box" or "encode"
    size,     \* width and height of the camera
    boxes,    \* the snapshot of this frame
    drawn,    \* how many of them are done
    picture   \* the frame's bytes: "camera", "bright" or "dark"

vars == <<pc, size, boxes, drawn, picture>>

Bytes(s) == 0..(2 * s[1] * s[2] - 1)
Pixels(s) == (0..(s[1] - 1)) \X (0..(s[2] - 1))

----------------------------------------------------------------------------
(* The detector.                                                           *)

Clamp(v, limit) == Max({0, Min({v, limit - 1})})

\* A person between two corners of a frame of size s; the set is empty if
\* nothing is left of it.
Detected(a, b, s) ==
    LET x1 == Clamp(a[1], s[1])  x2 == Clamp(b[1], s[1])
        y1 == Clamp(a[2], s[2])  y2 == Clamp(b[2], s[2])
    IN  IF x2 <= x1 \/ y2 <= y1 THEN {}
        ELSE {[x |-> x1, y |-> y1, width |-> x2 - x1, height |-> y2 - y1]}

\* Whatever frame vision looked at.
Found == UNION {Detected(a, b, s) : a \in Corners \X Corners,
                                    b \in Corners \X Corners, s \in Sizes}

\* Every box that a snapshot may have: one that a memset or a store has met
\* has each of its numbers from another result, or 0.
Boxes == [x      : {0} \cup {b.x : b \in Found},
          y      : {0} \cup {b.y : b \in Found},
          width  : {0} \cup {b.width : b \in Found},
          height : {0} \cup {b.height : b \in Found}]

Snapshots == UNION {[1..n -> Boxes] : n \in 0..MaxBoxes}

----------------------------------------------------------------------------
(* Drawing: sets of marks, each a pixel and what it becomes.               *)

\* Defect: one byte per pixel.
Packed(x, y) == y * size[1] + x

\* The luma byte of a pixel.
Index(x, y) == (y * size[1] + x) * 2

\* Defect: only the lines are cut.
OnLine(x, y) == y \in 0..(size[2] - 1)

Visible(x, y) == <<x, y>> \in Pixels(size)

\* set_pixel for each of the marks.
SetPixels(bytes, marks, value) ==
    LET written == {Index(p[1], p[2]) :
                      p \in {q \in marks : Visible(q[1], q[2])}}
    IN  [i \in DOMAIN bytes \cup written |->
           IF i \in written THEN value ELSE bytes[i]]

Horizontal(x1, x2, y) == (x1..x2) \X {y}
Vertical(x, y1, y2) == {x} \X (y1..y2)

\* draw_rectangle: the horizontal lines first.
Rectangle(bytes, b) ==
    LET x2 == b.x + b.width - 1
        y2 == b.y + b.height - 1
        lines == Horizontal(b.x, x2, b.y) \cup Horizontal(b.x, x2, y2)
        sides == Vertical(b.x, b.y, y2) \cup Vertical(x2, b.y, y2)
    IN  SetPixels(SetPixels(bytes, lines, "bright"), sides, "dark")

\* The pixels of a text of a number of characters.
Text(x, y, length, scale) ==
    {<<x + (n * (Cols + 1) + g[2]) * scale + sx, y + g[1] * scale + sy>> :
       n \in 0..(length - 1), g \in Glyph,
       sx \in 0..(scale - 1), sy \in 0..(scale - 1)}

\* Defect: always above the box.
Above(y) == y - LabelUp

LabelLine(y) == IF y < LabelUp THEN y + LabelIn ELSE y - LabelUp

\* "PERSON#1".
Name(b) == Text(b.x, LabelLine(b.y), LabelLength, 2)

\* And below it the confidence.
Label(b) ==
    Name(b) \cup Text(b.x, LabelLine(b.y) + LabelStep, ConfidenceLength, 2)

\* Defect: a box is taken as it comes.
Unclamped(b) == b

\* The clamping of overlay_draw_detections to the size of now.
Clamped(b) ==
    LET x == Max({0, b.x})  y == Max({0, b.y})
    IN  [x |-> x, y |-> y, width  |-> Min({b.x + b.width, size[1]}) - x,
                           height |-> Min({b.y + b.height, size[2]}) - y]

----------------------------------------------------------------------------

Camera(s) == [i \in Bytes(s) |-> "camera"]

Init ==
    /\ pc = "status" /\ size \in Sizes /\ boxes = <<>> /\ drawn = 0
    /\ picture = Camera(size)

\* overlay_draw_detections up to its loop.
DrawStatus ==
    /\ pc = "status"
    /\ picture' = SetPixels(picture,
                            UNION {Text(t[1], t[2], t[3], 1) : t \in Status},
                            "dark")
    /\ pc' = "box" /\ drawn' = 0
    /\ UNCHANGED <<size, boxes>>

Current == Clamped(boxes[drawn + 1])
Empty(b) == b.width <= 0 \/ b.height <= 0

DrawBox ==
    /\ pc = "box" /\ drawn < Len(boxes) /\ ~Empty(Current)
    /\ picture' = SetPixels(Rectangle(picture, Current), Label(Current), "dark")
    /\ drawn' = drawn + 1
    /\ UNCHANGED <<pc, size, boxes>>

\* Nothing of it is in this frame.
SkipBox ==
    /\ pc = "box" /\ drawn < Len(boxes) /\ Empty(Current)
    /\ drawn' = drawn + 1
    /\ UNCHANGED <<pc, size, boxes, picture>>

AllDrawn ==
    /\ pc = "box" /\ drawn = Len(boxes)
    /\ pc' = "encode"
    /\ UNCHANGED <<size, boxes, drawn, picture>>

\* The next frame, with a snapshot of its own.
Capture ==
    /\ pc = "encode"
    /\ pc' = "status" /\ boxes' \in Snapshots /\ drawn' = 0
    /\ picture' = Camera(size)
    /\ UNCHANGED size

\* The core starts again, with another geometry.
Restart ==
    /\ size' \in Sizes
    /\ pc' = "status" /\ boxes' = <<>> /\ drawn' = 0
    /\ picture' = Camera(size')

Next == DrawStatus \/ DrawBox \/ SkipBox \/ AllDrawn \/ Capture \/ Restart

Spec == Init /\ [][Next]_vars

----------------------------------------------------------------------------
(* Properties.                                                             *)

\* No byte outside the frame is ever written.
TypeOK ==
    /\ pc \in {"status", "box", "encode"} /\ size \in Sizes
    /\ boxes \in Seq(Boxes) /\ drawn \in 0..Len(boxes)
    /\ picture \in [Bytes(size) -> {"camera", "bright", "dark"}]

\* What of a box can be seen in a frame of size s, and the outline of that.
Seen(b, s) ==
    {p \in Pixels(s) : /\ b.x <= p[1] /\ p[1] < b.x + b.width
                       /\ b.y <= p[2] /\ p[2] < b.y + b.height}

Outline(b, s) ==
    {p \in Seen(b, s) : \/ \A q \in Seen(b, s) : p[1] <= q[1]
                        \/ \A q \in Seen(b, s) : p[1] >= q[1]
                        \/ \A q \in Seen(b, s) : p[2] <= q[2]
                        \/ \A q \in Seen(b, s) : p[2] >= q[2]}

\* The byte with the brightness of a pixel.
Luma(p, s) == 2 * (p[2] * s[1] + p[1])

\* Each person is framed and named, in a frame of another size too: the
\* outline of what can be seen of each box done is complete under all that is
\* drawn later, its name is not outside the picture, and of its label nothing
\* is lost but under the outlines of later boxes.
PersonsFramed ==
    \A i \in 1..drawn :
        /\ \A p \in Outline(boxes[i], size) : picture[Luma(p, size)] # "camera"
        /\ Outline(boxes[i], size) # {} =>
             /\ Name(boxes[i]) \cap Pixels(size) # {}
             /\ \A p \in Label(boxes[i]) \cap Pixels(size) :
                  \/ picture[Luma(p, size)] = "dark"
                  \/ \E j \in (i + 1)..drawn : p \in Outline(boxes[j], size)

Lettered ==
    (UNION {Text(t[1], t[2], t[3], 1) : t \in Status})
      \cup UNION {Label(boxes[i]) : i \in 1..drawn}
Outlined == UNION {Outline(boxes[i], size) : i \in 1..drawn}

\* The overlay changes brightness only, and only on outlines and texts.
NothingElseDrawn ==
    \A i \in Bytes(size) :
        picture[i] # "camera"
          => \E p \in (Lettered \cup Outlined) \cap Pixels(size) :
                i = Luma(p, size)
=============================================================================
