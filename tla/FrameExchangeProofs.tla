------------------------ MODULE FrameExchangeProofs ------------------------
(* FrameExchange for every buffer size, number of frames and number of core *)
(* starts, and for every order in which the core's stores become visible.   *)
EXTENDS FrameExchange, TLAPS

\* The whole buffer shows one frame.
Shows(f, n) == \A i \in 1..n : data[i] = f

\* camera_init: the header is stored over a blank segment.
CameraPhase ==
    /\ todo \subseteq {"geom", "size", "reset"} /\ cells = {}
    /\ seq = 0 /\ latest = Blank /\ Shows(Blank, Chunks)
    /\ cgeom > 0
    /\ geom = IF "geom" \in todo THEN 0 ELSE cgeom
    /\ size = IF "size" \in todo THEN 0 ELSE cgeom

\* camera_capture: the sequence is odd exactly between its two stores, the
\* pixels stored so far are the new frame's, the others the one's before.
CapturePhase ==
    /\ todo \subseteq {"odd", "size", "even"} /\ cells \subseteq 1..cgeom
    /\ cgeom > 0 /\ geom = cgeom /\ size = cgeom
    /\ Even(seq) <=> ("odd" \in todo \/ "even" \notin todo)
    /\ "odd" \in todo => "even" \in todo
    /\ IF "even" \in todo THEN latest < captured ELSE latest = captured
    /\ \A i \in (1..cgeom) \ cells : data[i] = captured
    /\ cells = 1..cgeom /\ "even" \in todo => Shows(latest, cgeom)

\* memset: what the stores already performed leave behind.
MemsetPhase ==
    /\ todo \subseteq {"geom", "size", "reset"}
    /\ latest = Blank
    /\ "geom" \notin todo => geom = 0
    /\ "size" \notin todo => size = 0
    /\ "reset" \notin todo => seq = 0
    /\ \A i \in Piece \ cells : data[i] = Blank
    /\ mixed <=> ~Idle

\* No store is missing that one already visible relies on.
Settled == ~mixed /\ ~Ahead

\* An even sequence over a frame: the whole of it is the last one published.
StableFrame ==
    Settled /\ Even(seq) /\ size > 0 => geom = size /\ Shows(latest, size)

\* After a crash, and before the first start, no store is pending.
DownPhase ==
    /\ todo = {} /\ cells = {}
    /\ Settled /\ size > 0 => geom = size
    /\ StableFrame

CoreInv ==
    /\ phase = "absent" => mixed
    /\ phase \in {"absent", "down"} => DownPhase
    /\ phase = "memset" => MemsetPhase
    /\ phase = "camera" => CameraPhase /\ ~mixed
    /\ phase = "capture" => CapturePhase /\ ~mixed

\* A clean attempt: what it holds is what the segment holds, as long as the
\* sequence is the one it began with.
ReaderInv ==
    /\ Even(before)
    /\ rpc = "copy" => rgeom > 0 /\ rsize > 0 /\ left \subseteq 1..rsize
    /\ clean /\ rpc \in {"geom", "size", "copy"} => Settled /\ before <= seq
    /\ clean /\ rpc \in {"size", "copy"} /\ rgeom > 0 => rgeom = geom
    /\ clean /\ rpc = "copy" => rgeom = geom /\ rsize = size
    /\ clean /\ rpc = "copy" /\ before = seq =>
         \A i \in (1..rsize) \ left : raw[i] = data[i]

\* The frame taken last is the one the segment holds, until the sequence
\* leaves the value it was read with.
TakenInv ==
    takenClean => /\ ~mixed
                  /\ last # Nothing => /\ last <= seq
                                       /\ last = seq => taken = latest

IInv == /\ TypeOK /\ CoreInv /\ ReaderInv /\ TakenInv
        /\ NoTornFrame /\ IgnoredIsTaken

----------------------------------------------------------------------------
\* The two increments of a publication change the parity each time.
LEMMA EvenStep == \A n \in Nat : Even(n + 1) <=> ~Even(n)
BY DEF Even

\* A frame whose stores are none ahead of another: the pixels and the size
\* are stored between the two stores of the sequence.
LEMMA CaptureOrder ==
    ASSUME phase = "capture", ~Ahead
    PROVE  /\ "odd" \in todo => cells = 1..cgeom
           /\ "even" \notin todo => cells = {}
<1>1. Rank("odd") = 0 /\ Rank("even") = 3 /\ "even" \in Call
  BY DEF Rank, Call
<1>2. "odd" \in todo => cells = 1..cgeom
  BY <1>1 DEF Ahead, FrameSize
<1>3. "even" \notin todo => cells = {}
  BY <1>1 DEF Ahead
<1>4. QED
  BY <1>2, <1>3

\* A header whose stores are none ahead of another: the geometry is there
\* before the size.
LEMMA CameraOrder ==
    ASSUME phase = "camera", ~Ahead
    PROVE  "geom" \in todo => "size" \in todo
<1>1. Rank("geom") = 0 /\ Rank("size") = 2 /\ "size" \in Call
  BY DEF Rank, Call
<1>2. QED
  BY <1>1 DEF Ahead

\* A call that begins, and a core that is down, has no store ahead.
LEMMA CallBegins ==
    CoreCrash \/ CameraCapture \/ (\E g \in Geometries : CameraInit(g))
        => ~Ahead'
<1>1. CASE CoreCrash
  <2>1. phase' = "down" /\ todo' = {} /\ cells' = {}
    BY <1>1 DEF CoreCrash
  <2>2. QED
    BY <2>1 DEF Ahead
<1>2. CASE CameraCapture
  <2>1. /\ phase' = "capture" /\ todo' = Call' /\ cells' = 1..FrameSize'
    BY <1>2 DEF CameraCapture, Call, FrameSize
  <2>2. QED
    BY <2>1 DEF Ahead
<1>3. CASE \E g \in Geometries : CameraInit(g)
  <2>1. phase' = "camera" /\ todo' = Call' /\ cells' = {}
    BY <1>3 DEF CameraInit, Call, Idle
  <2>2. QED
    BY <2>1 DEF Ahead
<1>4. QED
  BY <1>1, <1>2, <1>3

\* Whether a store is ahead depends on the call in progress alone.
LEMMA SameOrder == UNCHANGED <<phase, todo, cells, cgeom>> => (Ahead' <=> Ahead)
BY DEF Ahead, Call, Rank, FrameSize

\* What each store does to the call in progress and to the reader.
LEMMA Performed ==
    ASSUME NEW h, NEW c, Perform(h, c)
    PROVE  /\ todo' = h /\ cells' = c
           /\ mixed' <=> StillMixed(h, c)
           /\ clean' <=> clean /\ ~Ahead'
           /\ UNCHANGED <<phase, cgeom, starts, captured, rpc, before, rgeom,
                          rsize, left, raw, last, seen, taken, seenClean,
                          takenClean>>
BY Zenon DEF Perform, reading, results

\* What the end of an attempt leaves keeps its type.
LEMMA AttemptEnds ==
    ASSUME EndAttempt
    PROVE  /\ (before \in Nat /\ rgeom \in 0..Chunks /\ rsize \in 0..Chunks)'
           /\ (left \subseteq Piece /\ raw \in [Piece -> 0..MaxFrames])'
           /\ ~clean' /\ clean' \in BOOLEAN /\ before' = 0
<1>1. ~clean' /\ clean' \in BOOLEAN
  BY Zenon DEF EndAttempt
<1>2. QED
  BY <1>1, ChunksAssumption, BoundsAssumption DEF EndAttempt, Blank

\* Every variable keeps its type.
LEMMA TypeStep == TypeOK /\ [Next]_vars => TypeOK'
<1> SUFFICES ASSUME TypeOK, [Next]_vars PROVE TypeOK'
  OBVIOUS
<1> USE ChunksAssumption, BoundsAssumption DEF TypeOK, Piece, Stores
<1>1. CASE ShmInit
  <2>1. (mixed \in BOOLEAN /\ clean \in BOOLEAN
         /\ seenClean \in BOOLEAN /\ takenClean \in BOOLEAN)'
    BY <1>1, Zenon DEF ShmInit
  <2>2. (todo \subseteq Stores /\ cells \subseteq Piece)'
    BY <1>1 DEF ShmInit
  <2>3. (phase \in {"absent", "down", "memset", "camera", "capture"}
         /\ starts \in 0..MaxStarts /\ latest \in 0..captured)'
    BY <1>1 DEF ShmInit, Blank
  <2>4. UNCHANGED <<cgeom, captured, segment, rpc, reading,
                    last, seen, taken>>
    BY <1>1 DEF ShmInit
  <2>5. QED
    BY <2>1, <2>2, <2>3, <2>4 DEF segment, reading
<1>2. CASE CoreCrash
  BY <1>2 DEF CoreCrash, core, segment, vision, reading, results
<1>3. CASE CoreStore
  <2> DEFINE Kept ==
        /\ phase \in {"absent", "down", "memset", "camera", "capture"}
        /\ todo \subseteq Stores /\ cells \subseteq Piece
        /\ cgeom \in 0..Chunks /\ starts \in 0..MaxStarts
        /\ captured \in 0..MaxFrames
        /\ mixed \in BOOLEAN /\ clean \in BOOLEAN
        /\ seenClean \in BOOLEAN /\ takenClean \in BOOLEAN
        /\ rpc \in {"off", "loop", "geom", "size", "copy"}
        /\ before \in Nat /\ rgeom \in 0..Chunks /\ rsize \in 0..Chunks
        /\ left \subseteq Piece /\ raw \in [Piece -> 0..MaxFrames]
        /\ last \in Nat \cup {Nothing}
        /\ seen \in 0..MaxFrames \cup {Torn, Nothing}
        /\ taken \in 0..MaxFrames \cup {Torn, Nothing}
  <2>1. ASSUME NEW h \in SUBSET Stores, NEW c \in SUBSET Piece,
               Perform(h, c)
        PROVE  Kept' /\ UNCHANGED captured
    <3>1. (mixed \in BOOLEAN /\ clean \in BOOLEAN)'
      BY <2>1, Zenon DEF Perform, StillMixed
    <3>2. (seenClean \in BOOLEAN /\ takenClean \in BOOLEAN)'
      BY <2>1, Zenon DEF Perform, results
    <3>3. /\ todo' = h /\ cells' = c
          /\ UNCHANGED <<phase, cgeom, starts, captured, rpc, before, rgeom,
                         rsize, left, raw, last, seen, taken>>
      BY <2>1, Performed
    <3>4. QED
      BY <3>1, <3>2, <3>3
  <2>2. CASE StoreGeometry
    <3>1. Perform(todo \ {"geom"}, cells)
      BY <2>2 DEF StoreGeometry, PerformHeader
    <3>2. geom' \in 0..Chunks /\ UNCHANGED <<seq, size, data, latest>>
      BY <2>2 DEF StoreGeometry
    <3>3. Kept' /\ UNCHANGED captured
      BY <2>1, <3>1
    <3>4. QED
      BY <3>2, <3>3
  <2>3. CASE StoreSize
    <3>1. Perform(todo \ {"size"}, cells)
      BY <2>3 DEF StoreSize, PerformHeader
    <3>2. size' \in 0..Chunks /\ UNCHANGED <<seq, geom, data, latest>>
      BY <2>3 DEF StoreSize, FrameSize
    <3>3. Kept' /\ UNCHANGED captured
      BY <2>1, <3>1
    <3>4. QED
      BY <3>2, <3>3
  <2>4. CASE StoreReset
    <3>1. Perform(todo \ {"reset"}, cells)
      BY <2>4 DEF StoreReset, PerformHeader
    <3>2. seq' \in Nat /\ UNCHANGED <<geom, size, data, latest>>
      BY <2>4 DEF StoreReset
    <3>3. Kept' /\ UNCHANGED captured
      BY <2>1, <3>1
    <3>4. QED
      BY <3>2, <3>3
  <2>5. CASE StoreOdd
    <3>1. Perform(todo \ {"odd"}, cells)
      BY <2>5 DEF StoreOdd, PerformHeader
    <3>2. seq' \in Nat /\ UNCHANGED <<geom, size, data, latest>>
      BY <2>5 DEF StoreOdd
    <3>3. Kept' /\ UNCHANGED captured
      BY <2>1, <3>1
    <3>4. QED
      BY <3>2, <3>3
  <2>6. CASE StoreEven
    <3>1. Perform(todo \ {"even"}, cells)
      BY <2>6 DEF StoreEven, PerformHeader
    <3>2. /\ seq' \in Nat /\ latest' \in 0..captured
          /\ UNCHANGED <<geom, size, data>>
      BY <2>6 DEF StoreEven
    <3>3. Kept' /\ UNCHANGED captured
      BY <2>1, <3>1
    <3>4. QED
      BY <3>2, <3>3
  <2>7. CASE \E i \in Piece : StorePixels(i)
    <3>1. PICK i \in Piece : StorePixels(i)
      BY <2>7
    <3>2. /\ Perform(todo, cells \ {i})
          /\ UNCHANGED <<latest, seq, geom, size>>
      BY <3>1 DEF StorePixels
    <3>3. data' \in [Piece -> 0..MaxFrames]
      BY <3>1 DEF StorePixels, Blank
    <3>4. Kept' /\ UNCHANGED captured
      BY <2>1, <3>2
    <3>5. QED
      BY <3>2, <3>3, <3>4
  <2>8. QED
    BY <1>3, <2>2, <2>3, <2>4, <2>5, <2>6, <2>7 DEF CoreStore
<1>4. CASE CameraCapture
  BY <1>4 DEF CameraCapture, FrameSize, segment, vision, reading, results
<1>5. CASE \E g \in Geometries : CameraInit(g)
  BY <1>5, GeometriesAssumption
  DEF CameraInit, segment, vision, reading, results
<1>6. CASE VisionOpen
  BY <1>6 DEF VisionOpen, core, segment, reading, Nothing
<1>7. CASE VisionCrash
  BY <1>7, AttemptEnds DEF VisionCrash, core, segment, results
<1>8. CASE VisionStep
  <2>1. CASE ReadBefore
    <3>1. clean' \in BOOLEAN
      BY <2>1, Zenon DEF ReadBefore
    <3>2. QED
      BY <2>1, <3>1 DEF ReadBefore, core, segment, results
  <2>2. CASE ReadGeometry
    BY <2>2 DEF ReadGeometry, core, segment, results
  <2>3. CASE ReadSize
    BY <2>3 DEF ReadSize, core, segment, results
  <2>4. CASE RefuseSize
    BY <2>4, AttemptEnds DEF RefuseSize, core, segment, results
  <2>5. CASE \E i \in Piece : CopyPixels(i)
    BY <2>5 DEF CopyPixels, core, segment, results
  <2>6. CASE RefuseFrame
    BY <2>6, AttemptEnds DEF RefuseFrame, ReadAfter, core, segment
  <2>7. CASE TakeFrame
    <3>1. (seenClean \in BOOLEAN /\ takenClean \in BOOLEAN)'
      BY <2>7, Zenon DEF TakeFrame
    <3>2. Picture \in 0..MaxFrames \cup {Torn}
      BY DEF Picture
    <3>3. QED
      BY <2>7, <3>1, <3>2, AttemptEnds
      DEF TakeFrame, ReadAfter, core, segment
  <2>8. CASE IgnoreFrame
    <3>1. (seenClean \in BOOLEAN /\ takenClean \in BOOLEAN)'
      BY <2>8, Zenon DEF IgnoreFrame
    <3>2. Picture \in 0..MaxFrames \cup {Torn}
      BY DEF Picture
    <3>3. QED
      BY <2>8, <3>1, <3>2, AttemptEnds
      DEF IgnoreFrame, ReadAfter, core, segment
  <2>9. QED
    BY <1>8, <2>1, <2>2, <2>3, <2>4, <2>5, <2>6, <2>7, <2>8 DEF VisionStep
<1>9. CASE UNCHANGED vars
  BY <1>9 DEF vars, core, segment, vision, reading, results
<1>10. QED
  BY <1>1, <1>2, <1>3, <1>4, <1>5, <1>6, <1>7, <1>8, <1>9 DEF Next

\* So does the first state.
LEMMA InitTypeOK == Init => TypeOK
<1> SUFFICES ASSUME Init PROVE TypeOK
  OBVIOUS
<1>1. /\ mixed \in BOOLEAN /\ clean \in BOOLEAN
      /\ seenClean \in BOOLEAN /\ takenClean \in BOOLEAN
  BY Zenon DEF Init
<1>2. /\ data \in [Piece -> 0..MaxFrames] /\ raw \in [Piece -> 0..MaxFrames]
      /\ todo \subseteq Stores /\ cells \subseteq Piece
      /\ left \subseteq Piece
  BY BoundsAssumption DEF Init, Blank
<1>3. QED
  BY <1>1, <1>2, ChunksAssumption, BoundsAssumption
  DEF Init, TypeOK, Blank, Nothing

\* The type invariant, for every size of the buffer and every bound.
THEOREM TypeCorrect == Spec => []TypeOK
BY InitTypeOK, TypeStep, PTL DEF Spec

----------------------------------------------------------------------------
\* A step that leaves the core and the segment alone keeps CoreInv.
LEMMA CoreUnchanged == CoreInv /\ UNCHANGED <<core, segment>> => CoreInv'
BY DEF core, segment, CoreInv, DownPhase, MemsetPhase, CameraPhase,
       CapturePhase, StableFrame, Settled, Shows, Idle, Even, Ahead, Call,
       Rank, FrameSize

\* Whatever the core is doing, an even sequence over a frame is stable.
LEMMA Stable ==
    ASSUME TypeOK, CoreInv
    PROVE  (Settled /\ size > 0 => geom = size) /\ StableFrame
<1>0. size \in 0..Chunks /\ cgeom \in 0..Chunks
  BY ChunksAssumption DEF TypeOK
<1>1. CASE phase = "memset"
  <2>1. ~mixed => size = 0
    BY <1>1 DEF CoreInv, MemsetPhase, Idle
  <2>2. QED
    BY <2>1 DEF StableFrame, Settled
<1>2. CASE phase = "camera"
  <2>1. CameraPhase
    BY <1>2 DEF CoreInv
  <2>2. ~Ahead /\ size > 0 => geom = size /\ Shows(latest, size)
    BY <1>0, <1>2, <2>1, CameraOrder, ChunksAssumption
    DEF CameraPhase, Shows, Piece
  <2>3. QED
    BY <2>2 DEF StableFrame, Settled
<1>3. CASE phase = "capture"
  <2>1. CapturePhase
    BY <1>3 DEF CoreInv
  <2>2. ~Ahead /\ Even(seq) => Shows(latest, cgeom)
    BY <1>3, <2>1, CaptureOrder DEF CapturePhase, Shows
  <2>3. QED
    BY <2>1, <2>2 DEF CapturePhase, StableFrame, Settled
<1>4. CASE phase \in {"absent", "down"}
  BY <1>4 DEF CoreInv, DownPhase
<1>5. QED
  BY <1>1, <1>2, <1>3, <1>4 DEF TypeOK

\* Each step of the core keeps its part of the invariant.
LEMMA CoreStep ==
    ASSUME TypeOK, TypeOK', CoreInv, [Next]_vars
    PROVE  CoreInv'
<1> USE ChunksAssumption DEF Piece, Blank
<1>0. size \in 0..Chunks /\ cgeom \in 0..Chunks
  BY DEF TypeOK
<1>1. CASE ShmInit
  <2>1. /\ phase' = "memset" /\ todo' = {"geom", "size", "reset"}
        /\ cells' = Piece /\ latest' = 0
    BY <1>1 DEF ShmInit
  <2>2. mixed'
    BY <1>1, Zenon DEF ShmInit
  <2>3. MemsetPhase'
    BY <2>1, <2>2 DEF MemsetPhase, Idle
  <2>4. QED
    BY <2>1, <2>3 DEF CoreInv
<1>2. CASE CoreCrash
  <2>1. /\ phase' = "down" /\ todo' = {} /\ cells' = {}
        /\ UNCHANGED <<latest, mixed, seq, geom, size, data>>
        /\ ~Ahead
    BY <1>2 DEF CoreCrash, segment
  <2>3. DownPhase'
    BY <2>1, Stable DEF DownPhase, StableFrame, Settled, Shows, Even
  <2>4. QED
    BY <2>1, <2>3 DEF CoreInv
<1>3. CASE CameraCapture
  <2>1. /\ phase \in {"camera", "capture"} /\ phase' = "capture" /\ Idle
        /\ todo' = {"odd", "size", "even"} /\ cells' = 1..cgeom
        /\ captured' = captured + 1
        /\ UNCHANGED <<cgeom, latest, mixed, seq, geom, size, data>>
    BY <1>3 DEF CameraCapture, FrameSize, segment
  <2>2. /\ cgeom > 0 /\ geom = cgeom /\ size = cgeom
        /\ Even(seq) /\ Shows(latest, cgeom) /\ ~mixed
    <3>1. CASE phase = "camera"
      <4>1. CameraPhase /\ ~mixed
        BY <3>1 DEF CoreInv
      <4>2. cgeom > 0 /\ geom = cgeom /\ size = cgeom /\ seq = 0
        BY <2>1, <4>1 DEF CameraPhase, Idle
      <4>3. Shows(latest, cgeom)
        BY <1>0, <4>1 DEF CameraPhase, Shows
      <4>4. QED
        BY <4>1, <4>2, <4>3 DEF Even
    <3>2. CASE phase = "capture"
      BY <2>1, <3>2 DEF CoreInv, CapturePhase, Idle, Shows
    <3>3. QED
      BY <2>1, <3>1, <3>2
  <2>3. latest' < captured'
    BY <2>1, BoundsAssumption DEF TypeOK
  <2>4. CapturePhase'
    BY <2>1, <2>2, <2>3 DEF CapturePhase, Shows, Even
  <2>5. QED
    BY <2>1, <2>2, <2>4 DEF CoreInv
<1>4. CASE \E g \in Geometries : CameraInit(g)
  <2>1. PICK g \in Geometries : CameraInit(g)
    BY <1>4
  <2>2. /\ phase = "memset" /\ Idle /\ phase' = "camera" /\ cgeom' = g
        /\ todo' = {"geom", "size", "reset"}
        /\ UNCHANGED <<cells, latest, mixed, seq, geom, size, data>>
    BY <2>1 DEF CameraInit, segment
  <2>3. /\ seq = 0 /\ geom = 0 /\ size = 0 /\ latest = Blank
        /\ Shows(Blank, Chunks) /\ ~mixed /\ cells = {}
    BY <2>2 DEF CoreInv, MemsetPhase, Idle, Shows
  <2>4. CameraPhase'
    BY <2>2, <2>3, GeometriesAssumption DEF CameraPhase, Shows
  <2>5. QED
    BY <2>2, <2>3, <2>4 DEF CoreInv
<1>5. CASE CoreStore
  <2>1. CASE phase = "memset"
    <3>1. ASSUME phase' = "memset", MemsetPhase'
          PROVE  CoreInv'
      BY <3>1 DEF CoreInv
    <3>2. MemsetPhase
      BY <2>1 DEF CoreInv
    <3>3. ASSUME NEW h, NEW c, Perform(h, c)
          PROVE  /\ phase' = "memset" /\ todo' = h /\ cells' = c
                 /\ mixed' <=> mixed /\ ~(h = {} /\ c = {})
      BY <2>1, <3>3, Performed DEF StillMixed
    <3>4. CASE StoreGeometry
      <4>1. /\ phase' = "memset" /\ todo' = todo \ {"geom"} /\ cells' = cells
            /\ mixed' <=> mixed /\ ~Idle'
        BY <3>3, <3>4 DEF StoreGeometry, PerformHeader, Idle
      <4>2. geom' = 0 /\ UNCHANGED <<seq, size, data, latest>>
        BY <2>1, <3>4 DEF StoreGeometry
      <4>3. MemsetPhase'
        BY <3>2, <4>1, <4>2, <3>4 DEF StoreGeometry, MayStore, MemsetPhase, Idle
      <4>4. QED
        BY <3>1, <4>1, <4>3
    <3>5. CASE StoreSize
      <4>1. /\ phase' = "memset" /\ todo' = todo \ {"size"} /\ cells' = cells
            /\ mixed' <=> mixed /\ ~Idle'
        BY <3>3, <3>5 DEF StoreSize, PerformHeader, Idle
      <4>2. size' = 0 /\ UNCHANGED <<seq, geom, data, latest>>
        BY <2>1, <3>5 DEF StoreSize
      <4>3. MemsetPhase'
        BY <3>2, <4>1, <4>2, <3>5 DEF StoreSize, MayStore, MemsetPhase, Idle
      <4>4. QED
        BY <3>1, <4>1, <4>3
    <3>6. CASE StoreReset
      <4>1. /\ phase' = "memset" /\ todo' = todo \ {"reset"} /\ cells' = cells
            /\ mixed' <=> mixed /\ ~Idle'
        BY <3>3, <3>6 DEF StoreReset, PerformHeader, Idle
      <4>2. seq' = 0 /\ UNCHANGED <<geom, size, data, latest>>
        BY <2>1, <3>6 DEF StoreReset
      <4>3. MemsetPhase'
        BY <3>2, <4>1, <4>2, <3>6 DEF StoreReset, MayStore, MemsetPhase, Idle
      <4>4. QED
        BY <3>1, <4>1, <4>3
    <3>7. CASE StoreOdd \/ StoreEven
      BY <3>2, <3>7 DEF StoreOdd, StoreEven, MayStore, MemsetPhase
    <3>8. CASE \E i \in Piece : StorePixels(i)
      <4>1. PICK i \in Piece : StorePixels(i)
        BY <3>8
      <4>2. /\ phase' = "memset" /\ todo' = todo /\ cells' = cells \ {i}
            /\ mixed' <=> mixed /\ ~Idle'
        BY <3>3, <4>1 DEF StorePixels, Idle
      <4>3. /\ i \in cells /\ data' = [data EXCEPT ![i] = Blank]
            /\ UNCHANGED <<latest, seq, geom, size>>
        BY <2>1, <4>1 DEF StorePixels
      <4>4. MemsetPhase'
        BY <3>2, <4>2, <4>3 DEF MemsetPhase, Idle, TypeOK
      <4>5. QED
        BY <3>1, <4>2, <4>4
    <3>9. QED
      BY <1>5, <3>4, <3>5, <3>6, <3>7, <3>8 DEF CoreStore
  <2>2. CASE phase = "camera"
    <3>1. CameraPhase /\ ~mixed
      BY <2>2 DEF CoreInv
    <3>2. ASSUME phase' = "camera", CameraPhase', ~mixed'
          PROVE  CoreInv'
      BY <3>2 DEF CoreInv
    <3>3. ASSUME NEW s, PerformHeader(s)
          PROVE  /\ phase' = "camera" /\ todo' = todo \ {s} /\ cells' = {}
                 /\ ~mixed' /\ UNCHANGED cgeom
      BY <2>2, <3>1, <3>3, Performed DEF PerformHeader, StillMixed, CameraPhase
    <3>4. CASE StoreGeometry
      <4>1. /\ phase' = "camera" /\ todo' = todo \ {"geom"} /\ cells' = {}
            /\ ~mixed' /\ UNCHANGED cgeom
        BY <3>3, <3>4 DEF StoreGeometry
      <4>2. geom' = cgeom /\ UNCHANGED <<seq, size, data, latest>>
        BY <2>2, <3>4 DEF StoreGeometry
      <4>4. CameraPhase'
        BY <3>1, <4>1, <4>2, <3>4
        DEF StoreGeometry, MayStore, CameraPhase, Shows
      <4>5. QED
        BY <3>2, <4>1, <4>4
    <3>5. CASE StoreSize
      <4>1. /\ phase' = "camera" /\ todo' = todo \ {"size"} /\ cells' = {}
            /\ ~mixed' /\ UNCHANGED cgeom
        BY <3>3, <3>5 DEF StoreSize
      <4>2. size' = cgeom /\ UNCHANGED <<seq, geom, data, latest>>
        BY <2>2, <3>5 DEF StoreSize, FrameSize
      <4>4. CameraPhase'
        BY <3>1, <4>1, <4>2, <3>5
        DEF StoreSize, MayStore, CameraPhase, Shows
      <4>5. QED
        BY <3>2, <4>1, <4>4
    <3>6. CASE StoreReset
      <4>1. /\ phase' = "camera" /\ todo' = todo \ {"reset"} /\ cells' = {}
            /\ ~mixed' /\ UNCHANGED cgeom
        BY <3>3, <3>6 DEF StoreReset
      <4>2. seq' = 0 /\ UNCHANGED <<geom, size, data, latest>>
        BY <2>2, <3>6 DEF StoreReset
      <4>4. CameraPhase'
        BY <3>1, <4>1, <4>2, <3>6
        DEF StoreReset, MayStore, CameraPhase, Shows
      <4>5. QED
        BY <3>2, <4>1, <4>4
    <3>7. CASE StoreOdd \/ StoreEven \/ \E i \in Piece : StorePixels(i)
      BY <3>1, <3>7 DEF StoreOdd, StoreEven, StorePixels, MayStore, CameraPhase
    <3>8. QED
      BY <1>5, <3>4, <3>5, <3>6, <3>7 DEF CoreStore
  <2>3. CASE phase = "capture"
    <3>1. CapturePhase /\ ~mixed
      BY <2>3 DEF CoreInv
    <3>2. ASSUME phase' = "capture", CapturePhase', ~mixed'
          PROVE  CoreInv'
      BY <3>2 DEF CoreInv
    <3>3. ASSUME NEW h, NEW c, Perform(h, c)
          PROVE  /\ phase' = "capture" /\ todo' = h /\ cells' = c
                 /\ ~mixed' /\ UNCHANGED <<cgeom, captured>>
      BY <2>3, <3>1, <3>3, Performed DEF StillMixed
    <3>4. CASE StoreGeometry \/ StoreReset
      BY <3>1, <3>4 DEF StoreGeometry, StoreReset, MayStore, CapturePhase
    <3>5. CASE StoreSize
      <4>1. /\ phase' = "capture" /\ todo' = todo \ {"size"} /\ cells' = cells
            /\ ~mixed' /\ UNCHANGED <<cgeom, captured>>
        BY <3>3, <3>5 DEF StoreSize, PerformHeader
      <4>2. size' = cgeom /\ UNCHANGED <<seq, geom, data, latest>>
        BY <2>3, <3>5 DEF StoreSize, FrameSize
      <4>5. CapturePhase'
        BY <3>1, <4>1, <4>2, <3>5
        DEF StoreSize, MayStore, CapturePhase, Shows, Even
      <4>6. QED
        BY <3>2, <4>1, <4>5
    <3>6. CASE StoreOdd
      <4>1. /\ phase' = "capture" /\ todo' = todo \ {"odd"} /\ cells' = cells
            /\ ~mixed' /\ UNCHANGED <<cgeom, captured>>
        BY <3>3, <3>6 DEF StoreOdd, PerformHeader
      <4>2. seq' = seq + 1 /\ UNCHANGED <<geom, size, data, latest>>
        BY <2>3, <3>6 DEF StoreOdd
      <4>4. Even(seq') <=> ~Even(seq)
        BY <4>2, EvenStep DEF TypeOK
      <4>5. CapturePhase'
        BY <3>1, <4>1, <4>2, <4>4, <3>6
        DEF StoreOdd, MayStore, CapturePhase, Shows
      <4>6. QED
        BY <3>2, <4>1, <4>5
    <3>7. CASE StoreEven
      <4>1. /\ phase' = "capture" /\ todo' = todo \ {"even"} /\ cells' = cells
            /\ ~mixed' /\ UNCHANGED <<cgeom, captured>>
        BY <3>3, <3>7 DEF StoreEven, PerformHeader
      <4>2. /\ seq' = seq + 1 /\ latest' = captured
            /\ UNCHANGED <<geom, size, data>>
        BY <2>3, <3>7 DEF StoreEven
      <4>4. Even(seq') <=> ~Even(seq)
        BY <4>2, EvenStep DEF TypeOK
      <4>5. CapturePhase'
        BY <3>1, <4>1, <4>2, <4>4, <3>7
        DEF StoreEven, MayStore, CapturePhase, Shows
      <4>6. QED
        BY <3>2, <4>1, <4>5
    <3>8. CASE \E i \in Piece : StorePixels(i)
      <4>1. PICK i \in Piece : StorePixels(i)
        BY <3>8
      <4>3. /\ i \in cells /\ todo' = todo /\ cells' = cells \ {i}
            /\ data' = [data EXCEPT ![i] = captured]
            /\ UNCHANGED <<latest, seq, geom, size>>
        BY <2>3, <3>3, <4>1 DEF StorePixels
      <4>4. \A j \in (1..cgeom) \ cells' : data'[j] = captured
        BY <1>0, <3>1, <4>3, 1..cgeom \subseteq Piece DEF CapturePhase, TypeOK
      <4>5. cells' # 1..cgeom
        BY <3>1, <4>3 DEF CapturePhase
      <4>6. QED
        BY <3>1, <3>2, <3>3, <4>1, <4>3, <4>4, <4>5
        DEF StorePixels, CapturePhase, Even
    <3>9. QED
      BY <1>5, <3>4, <3>5, <3>6, <3>7, <3>8 DEF CoreStore
  <2>4. CASE phase \in {"absent", "down"}
    BY <1>5, <2>4 DEF CoreInv, DownPhase, CoreStore, StoreGeometry, StoreSize,
       StoreReset, StoreOdd, StoreEven, StorePixels, MayStore
  <2>5. QED
    BY <2>1, <2>2, <2>3, <2>4 DEF TypeOK
<1>6. CASE VisionOpen \/ VisionCrash \/ VisionStep \/ UNCHANGED vars
  BY <1>6, CoreUnchanged
  DEF VisionOpen, VisionCrash, VisionStep, ReadBefore, ReadGeometry, ReadSize,
      RefuseSize, CopyPixels, RefuseFrame, TakeFrame, IgnoreFrame, ReadAfter,
      vars
<1>7. QED
  BY <1>1, <1>2, <1>3, <1>4, <1>5, <1>6 DEF Next

----------------------------------------------------------------------------
\* A store to the pixels that is not ahead of another means that a reader has
\* seen, or will see, the sequence move: it is odd, unless the segment is being
\* zeroed or is filled out of order.
LEMMA PixelStore ==
    ASSUME TypeOK, CoreInv, Settled, NEW i \in Piece, StorePixels(i), ~Ahead'
    PROVE  ~Even(seq)
<1>1. i \in cells
  BY DEF StorePixels
<1>2. phase # "memset"
  BY <1>1 DEF CoreInv, MemsetPhase, Idle, Settled
<1>3. CASE phase = "capture"
  <2>1. CapturePhase
    BY <1>3 DEF CoreInv
  <2>2. /\ phase' = "capture" /\ todo' = todo /\ cells' = cells \ {i}
        /\ cgeom' = cgeom
    BY <1>3, Performed DEF StorePixels
  <2>3. cells' # 1..FrameSize'
    BY <1>1, <2>1, <2>2 DEF CapturePhase, FrameSize
  <2>4. Rank("odd")' < 1
    BY <2>2 DEF Rank
  <2>5. "odd" \notin todo
    BY <2>2, <2>3, <2>4 DEF Ahead
  <2>6. "even" \in todo
    BY <1>1, <1>3, CaptureOrder DEF Settled
  <2>7. QED
    BY <2>1, <2>5, <2>6 DEF CapturePhase
<1>4. CASE phase \in {"absent", "down", "camera"}
  BY <1>1, <1>4 DEF CoreInv, DownPhase, CameraPhase
<1>5. QED
  BY <1>2, <1>3, <1>4 DEF TypeOK

\* A store to the header, outside a memset: the sequence stays or grows, and
\* what a reader that met a frame has read of the rest stays.
LEMMA HeaderStore ==
    ASSUME TypeOK, CoreInv, ~mixed,
           StoreGeometry \/ StoreSize \/ StoreReset \/ StoreOdd \/ StoreEven
    PROVE  /\ ~mixed'
           /\ UNCHANGED data
           /\ geom > 0 => UNCHANGED geom
           /\ size > 0 => UNCHANGED size
           /\ \/ UNCHANGED <<seq, latest>>
              \/ seq' = seq + 1
<1>1. ~mixed'
  BY Zenon DEF StoreGeometry, StoreSize, StoreReset, StoreOdd, StoreEven,
               PerformHeader, Perform, StillMixed
<1>2. UNCHANGED data
  BY DEF StoreGeometry, StoreSize, StoreReset, StoreOdd, StoreEven
<1>3. phase # "memset"
  BY DEF StoreGeometry, StoreSize, StoreReset, StoreOdd, StoreEven, MayStore,
         CoreInv, MemsetPhase, Idle
<1>4. phase \in {"camera", "capture"}
  BY <1>3 DEF StoreGeometry, StoreSize, StoreReset, StoreOdd, StoreEven,
              MayStore, CoreInv, DownPhase, TypeOK
<1>5. CASE StoreGeometry
  BY <1>1, <1>2, <1>4, <1>5
  DEF StoreGeometry, MayStore, CoreInv, CameraPhase, CapturePhase
<1>6. CASE StoreSize
  BY <1>1, <1>2, <1>4, <1>6
  DEF StoreSize, FrameSize, MayStore, CoreInv, CameraPhase, CapturePhase
<1>7. CASE StoreReset
  BY <1>1, <1>2, <1>4, <1>7
  DEF StoreReset, MayStore, CoreInv, CameraPhase, CapturePhase
<1>8. CASE StoreOdd \/ StoreEven
  BY <1>1, <1>2, <1>8 DEF StoreOdd, StoreEven
<1>9. QED
  BY <1>5, <1>6, <1>7, <1>8

\* A store that leaves an attempt clean leaves no store ahead of another.
LEMMA CleanStore ==
    ASSUME NEW h, NEW c, Perform(h, c), Settled, clean'
    PROVE  clean /\ ~Ahead' /\ Settled'
<1>1. clean /\ ~Ahead'
  BY Zenon DEF Perform
<1>2. ~mixed'
  BY Zenon DEF Perform, StillMixed, Settled
<1>3. QED
  BY <1>1, <1>2 DEF Settled

\* What a clean attempt that finds the sequence unchanged has copied is the
\* frame published last.
LEMMA CleanCopy ==
    ASSUME TypeOK, CoreInv, ReaderInv,
           clean, rpc = "copy", left = {}, Unchanged
    PROVE  Picture = latest
<1>1. /\ Settled /\ Even(seq) /\ rsize = size /\ size > 0
      /\ \A i \in 1..rsize : raw[i] = data[i]
  BY DEF ReaderInv, Unchanged
<1>2. Shows(latest, size)
  BY <1>1, Stable DEF StableFrame
<1>3. size \in 1..Chunks
  BY <1>1 DEF TypeOK
<1>4. \A i \in 1..rsize : raw[i] = latest
  BY <1>1, <1>2 DEF Shows
<1>5. 1 \in 1..rsize
  BY <1>1, <1>3, ChunksAssumption
<1>6. QED
  BY <1>4, <1>5 DEF Picture

\* A step that leaves the segment and the reader alone keeps ReaderInv.
LEMMA ReaderUnchanged ==
    ReaderInv /\ UNCHANGED <<mixed, segment, rpc, reading, clean>>
              /\ (Ahead' => Ahead)
        => ReaderInv'
BY DEF segment, reading, ReaderInv, Settled, Even

\* Each step keeps the reader's part of the invariant.
LEMMA ReaderStep ==
    ASSUME TypeOK, TypeOK', CoreInv, ReaderInv, [Next]_vars
    PROVE  ReaderInv'
<1>1. CASE ShmInit
  <2>1. ~clean' /\ UNCHANGED <<rpc, before, rgeom, rsize, left>>
    BY <1>1, Zenon DEF ShmInit, reading
  <2>2. QED
    BY <2>1 DEF ReaderInv, Even
<1>2. CASE CoreCrash \/ CameraCapture \/ \E g \in Geometries : CameraInit(g)
  BY <1>2, CallBegins, ReaderUnchanged
  DEF CoreCrash, CameraCapture, CameraInit, vision
<1>3. CASE StoreGeometry \/ StoreSize \/ StoreReset \/ StoreOdd \/ StoreEven
  <2>1. PICK h, c : Perform(h, c)
    BY <1>3 DEF StoreGeometry, StoreSize, StoreReset, StoreOdd, StoreEven,
                PerformHeader
  <2>2. UNCHANGED <<rpc, before, rgeom, rsize, left, raw>>
    BY <2>1, Performed
  <2>3. CASE clean' /\ rpc \in {"geom", "size", "copy"}
    <3>1. clean
      BY <2>1, <2>3, Zenon DEF Perform
    <3>2. Settled
      BY <2>3, <3>1 DEF ReaderInv
    <3>3. Settled'
      BY <2>1, <2>3, <3>2, CleanStore
    <3>4. /\ UNCHANGED data
          /\ geom > 0 => UNCHANGED geom
          /\ size > 0 => UNCHANGED size
          /\ seq' = seq \/ seq' = seq + 1
      BY <1>3, <3>2, HeaderStore DEF Settled
    <3>5. before <= seq' /\ (before = seq' => before = seq)
      BY <2>3, <3>1, <3>4 DEF ReaderInv, TypeOK
    <3>6. rpc \in {"size", "copy"} /\ rgeom > 0 => rgeom = geom'
      BY <2>3, <3>1, <3>4 DEF ReaderInv
    <3>7. rpc = "copy" => rgeom = geom' /\ rsize = size'
      BY <2>3, <3>1, <3>4, <3>6 DEF ReaderInv
    <3>8. QED
      BY <2>2, <2>3, <3>1, <3>3, <3>4, <3>5, <3>6, <3>7 DEF ReaderInv, Even
  <2>4. CASE ~(clean' /\ rpc \in {"geom", "size", "copy"})
    BY <2>2, <2>4 DEF ReaderInv, Even
  <2>5. QED
    BY <2>3, <2>4
<1>4. CASE \E i \in Piece : StorePixels(i)
  <2>1. PICK i \in Piece : StorePixels(i)
    BY <1>4
  <2>2. Perform(todo, cells \ {i}) /\ UNCHANGED <<seq, geom, size>>
    BY <2>1 DEF StorePixels
  <2>3. UNCHANGED <<rpc, before, rgeom, rsize, left, raw>>
    BY <2>2, Performed
  <2>4. CASE clean' /\ rpc \in {"geom", "size", "copy"}
    <3>1. clean
      BY <2>2, <2>4, Zenon DEF Perform
    <3>2. Settled
      BY <2>4, <3>1 DEF ReaderInv
    <3>3. ~Ahead' /\ Settled'
      BY <2>2, <2>4, <3>2, CleanStore
    <3>4. ~Even(seq)
      BY <2>1, <3>2, <3>3, PixelStore
    <3>5. QED
      BY <2>2, <2>3, <2>4, <3>1, <3>3, <3>4 DEF ReaderInv, Even
  <2>5. CASE ~(clean' /\ rpc \in {"geom", "size", "copy"})
    BY <2>3, <2>5 DEF ReaderInv, Even
  <2>6. QED
    BY <2>4, <2>5
<1>5. CASE VisionOpen
  BY <1>5, SameOrder, ReaderUnchanged
  DEF VisionOpen, core, segment, reading, ReaderInv, Settled, Even
<1>6. CASE VisionCrash \/ RefuseSize \/ RefuseFrame \/ TakeFrame \/ IgnoreFrame
  <2>1. rpc' \in {"off", "loop"} /\ before' = 0
    BY <1>6, AttemptEnds
    DEF VisionCrash, RefuseSize, RefuseFrame, TakeFrame, IgnoreFrame, ReadAfter
  <2>2. QED
    BY <2>1 DEF ReaderInv, Even
<1>7. CASE ReadBefore
  <2>1. /\ rpc' = "geom" /\ before' = seq /\ Even(seq)
        /\ UNCHANGED <<seq, mixed>>
    BY <1>7 DEF ReadBefore, core, segment
  <2>2. clean' <=> Settled
    BY <1>7, Zenon DEF ReadBefore, Settled
  <2>3. Ahead' <=> Ahead
    BY <1>7, SameOrder DEF ReadBefore, core
  <2>4. QED
    BY <2>1, <2>2, <2>3 DEF ReaderInv, TypeOK, Settled, Even
<1>8. CASE ReadGeometry
  BY <1>8, SameOrder
  DEF ReadGeometry, core, segment, results, ReaderInv, Settled, Even
<1>9. CASE ReadSize
  BY <1>9, SameOrder
  DEF ReadSize, Sized, core, segment, ReaderInv, Settled, Even
<1>10. CASE \E i \in Piece : CopyPixels(i)
  <2>1. PICK i \in Piece : CopyPixels(i)
    BY <1>10
  <2>2. /\ rpc = "copy" /\ i \in left /\ left' = left \ {i}
        /\ raw' = [raw EXCEPT ![i] = data[i]]
        /\ UNCHANGED <<rpc, mixed, seq, geom, size, data, before, rgeom,
                       rsize, clean>>
        /\ Ahead' <=> Ahead
    BY <2>1, SameOrder DEF CopyPixels, core, segment
  <2>3. \A j \in 1..rsize : j \notin left' =>
          raw'[j] = IF j = i THEN data[i] ELSE raw[j]
    <3>1. 1..rsize \subseteq Piece
      BY ChunksAssumption DEF TypeOK, Piece
    <3>2. QED
      BY <2>2, <3>1 DEF TypeOK
  <2>4. QED
    BY <2>2, <2>3 DEF ReaderInv, Settled, Even
<1>11. CASE UNCHANGED vars
  BY <1>11, SameOrder, ReaderUnchanged DEF vars, core, vision
<1>12. QED
  BY <1>1, <1>2, <1>3, <1>4, <1>5, <1>6, <1>7, <1>8, <1>9, <1>10, <1>11
  DEF Next, CoreStore, VisionStep

----------------------------------------------------------------------------
\* What main took stays what the segment holds while the sequence does.
LEMMA TakenStep ==
    ASSUME TypeOK, TypeOK', CoreInv, ReaderInv, TakenInv, [Next]_vars
    PROVE  TakenInv'
<1>1. CASE ShmInit
  BY <1>1, Zenon DEF ShmInit, TakenInv
<1>2. CASE \/ CoreCrash \/ CameraCapture
           \/ \E g \in Geometries : CameraInit(g)
           \/ VisionCrash \/ ReadBefore \/ ReadGeometry \/ ReadSize
           \/ RefuseSize
           \/ \E i \in Piece : CopyPixels(i)
           \/ RefuseFrame \/ UNCHANGED vars
  <2>1. UNCHANGED <<mixed, latest, seq, last, taken, takenClean>>
    BY <1>2
    DEF CoreCrash, CameraCapture, CameraInit, VisionCrash, ReadBefore,
        ReadGeometry, ReadSize, RefuseSize, CopyPixels, RefuseFrame,
        ReadAfter, vars,
        core, segment, vision, reading, results
  <2>2. QED
    BY <2>1 DEF TakenInv
<1>3. CASE StoreGeometry \/ StoreSize \/ StoreReset \/ StoreOdd \/ StoreEven
  <2>1. UNCHANGED <<last, taken, takenClean>>
    BY <1>3 DEF StoreGeometry, StoreSize, StoreReset, StoreOdd, StoreEven,
                PerformHeader, Perform, results
  <2>2. CASE takenClean
    <3>1. ~mixed
      BY <2>2 DEF TakenInv
    <3>2. ~mixed' /\ (UNCHANGED <<seq, latest>> \/ seq' = seq + 1)
      BY <1>3, <3>1, HeaderStore
    <3>3. CASE UNCHANGED <<seq, latest>>
      BY <2>1, <3>2, <3>3 DEF TakenInv
    <3>4. CASE seq' = seq + 1
      BY <2>1, <2>2, <3>2, <3>4 DEF TakenInv, TypeOK
    <3>5. QED
      BY <3>2, <3>3, <3>4
  <2>3. CASE ~takenClean
    BY <2>1, <2>3 DEF TakenInv
  <2>4. QED
    BY <2>2, <2>3
<1>4. CASE \E i \in Piece : StorePixels(i)
  <2>1. ~mixed => ~mixed'
    BY <1>4, Zenon DEF StorePixels, Perform, StillMixed
  <2>2. UNCHANGED <<latest, seq, last, taken, takenClean>>
    BY <1>4 DEF StorePixels, Perform, results
  <2>3. QED
    BY <2>1, <2>2 DEF TakenInv
<1>5. CASE VisionOpen
  <2>1. last' = Nothing /\ UNCHANGED <<mixed, takenClean>>
    BY <1>5 DEF VisionOpen, core
  <2>2. QED
    BY <2>1 DEF TakenInv
<1>6. CASE TakeFrame
  <2>1. /\ rpc = "copy" /\ left = {} /\ before = seq
        /\ last' = before /\ taken' = Picture
        /\ UNCHANGED <<mixed, latest, seq>>
    BY <1>6 DEF TakeFrame, ReadAfter, Unchanged, core, segment
  <2>2. takenClean' <=> clean
    BY <1>6, Zenon DEF TakeFrame
  <2>3. clean => ~mixed /\ Picture = latest
    BY <2>1, CleanCopy DEF ReaderInv, Settled, Unchanged
  <2>4. QED
    BY <2>1, <2>2, <2>3 DEF TakenInv, TypeOK
<1>7. CASE IgnoreFrame
  BY <1>7 DEF IgnoreFrame, ReadAfter, core, segment, TakenInv
<1>8. QED
  BY <1>1, <1>2, <1>3, <1>4, <1>5, <1>6, <1>7
  DEF Next, CoreStore, VisionStep

\* Frames are returned whole and ignored only when taken before.
LEMMA ResultStep ==
    ASSUME IInv, [Next]_vars
    PROVE  NoTornFrame' /\ IgnoredIsTaken'
<1>1. CASE ShmInit
  BY <1>1, Zenon DEF ShmInit, NoTornFrame, IgnoredIsTaken
<1>2. CASE TakeFrame
  <2>1. /\ rpc = "copy" /\ left = {} /\ Unchanged
        /\ seen' = Picture /\ taken' = Picture
    BY <1>2 DEF TakeFrame, ReadAfter
  <2>2. seenClean' <=> clean
    BY <1>2, Zenon DEF TakeFrame
  <2>3. clean => Picture = latest /\ latest # Torn
    BY <2>1, CleanCopy DEF IInv, TypeOK, Torn
  <2>4. QED
    BY <2>1, <2>2, <2>3 DEF NoTornFrame, IgnoredIsTaken
<1>3. CASE IgnoreFrame
  <2>1. /\ rpc = "copy" /\ left = {} /\ Unchanged /\ before = last
        /\ seen' = Picture /\ UNCHANGED <<taken, takenClean>>
    BY <1>3 DEF IgnoreFrame, ReadAfter, IsNew
  <2>2. seenClean' <=> clean
    BY <1>3, Zenon DEF IgnoreFrame
  <2>3. clean => Picture = latest /\ latest # Torn
    BY <2>1, CleanCopy DEF IInv, TypeOK, Torn
  <2>4. takenClean => taken = latest
    <3>1. before \in Nat /\ last = seq
      BY <2>1 DEF IInv, TypeOK, Unchanged
    <3>2. last # Nothing
      BY <2>1, <3>1 DEF Nothing
    <3>3. QED
      BY <3>1, <3>2 DEF IInv, TakenInv
  <2>5. QED
    BY <2>1, <2>2, <2>3, <2>4 DEF NoTornFrame, IgnoredIsTaken
<1>4. CASE UNCHANGED <<seen, taken, seenClean, takenClean>>
  BY <1>4 DEF IInv, NoTornFrame, IgnoredIsTaken
<1>5. ShmInit \/ TakeFrame \/ IgnoreFrame
      \/ UNCHANGED <<seen, taken, seenClean, takenClean>>
  BY DEF Next, CoreStore, VisionStep, CoreCrash, CameraCapture, CameraInit,
         StoreGeometry, StoreSize, StoreReset, StoreOdd, StoreEven,
         PerformHeader, Perform, StorePixels, VisionOpen, VisionCrash,
         ReadBefore, ReadGeometry,
         ReadSize, RefuseSize, CopyPixels, RefuseFrame, vars, vision, results
<1>6. QED
  BY <1>1, <1>2, <1>3, <1>4, <1>5

\* The inductive invariant.
THEOREM Inductive == Spec => []IInv
<1>1. Init => IInv
  <2> SUFFICES ASSUME Init PROVE IInv
    OBVIOUS
  <2>1. TypeOK
    BY InitTypeOK
  <2>2. phase = "absent" /\ DownPhase /\ mixed
    BY DEF Init, DownPhase, StableFrame
  <2>3. CoreInv
    BY <2>2 DEF CoreInv
  <2>4. ReaderInv
    BY DEF Init, ReaderInv, Even
  <2>5. ~takenClean /\ ~seenClean
    BY Zenon DEF Init
  <2>6. QED
    BY <2>1, <2>3, <2>4, <2>5
    DEF IInv, TakenInv, NoTornFrame, IgnoredIsTaken
<1>2. IInv /\ [Next]_vars => IInv'
  <2> SUFFICES ASSUME IInv, [Next]_vars PROVE IInv'
    OBVIOUS
  <2>1. TypeOK'
    BY TypeStep DEF IInv
  <2>2. QED
    BY <2>1, CoreStep, ReaderStep, TakenStep, ResultStep DEF IInv
<1>3. QED
  BY <1>1, <1>2, PTL DEF Spec

\* A frame returned by an attempt that met no restart of the core is whole.
THEOREM FramesAreWhole == Spec => []NoTornFrame
<1>1. IInv => NoTornFrame
  BY DEF IInv
<1>2. QED
  BY <1>1, Inductive, PTL

\* A frame ignored as the same one, within a run of the core, is the same.
THEOREM IgnoresTheSame == Spec => []IgnoredIsTaken
<1>1. IInv => IgnoredIsTaken
  BY DEF IInv
<1>2. QED
  BY <1>1, Inductive, PTL

----------------------------------------------------------------------------
\* The exchange implements the register: StoreEven publishes, the last load
\* of an attempt reads, the memset restarts, and every other step stutters.
THEOREM ImplementsTheRegister == Spec => ImplementsRegister
<1>1. Init => Register!Init
  <2>1. Init => ~seenClean
    BY Zenon DEF Init
  <2>2. QED
    BY <2>1 DEF Init, Register!Init, Blank, Register!Blank, Nothing,
                Register!Nothing
<1>2. IInv /\ [Next]_vars => [Register!Next]_Register!vars
  <2> SUFFICES ASSUME IInv, [Next]_vars
               PROVE  [Register!Next]_Register!vars
    OBVIOUS
  <2>1. CASE ShmInit
    <3>1. latest' = Blank /\ ~seenClean'
      BY <2>1, Zenon DEF ShmInit
    <3>2. Register!Restart
      BY <3>1 DEF Register!Restart, Blank, Register!Blank, Nothing,
                  Register!Nothing
    <3>3. QED
      BY <3>2 DEF Register!Next
  <2>2. CASE StoreEven
    <3>1. latest' = captured /\ UNCHANGED <<seen, seenClean>>
      BY <2>2 DEF StoreEven, PerformHeader, Perform, results
    <3>2. captured > latest /\ captured \in Nat
      <4>1. "even" \in todo /\ phase = "capture"
        BY <2>2 DEF StoreEven, MayStore, IInv, TypeOK, CoreInv, DownPhase,
                    MemsetPhase, CameraPhase
      <4>2. latest < captured /\ latest \in Nat /\ captured \in Nat
        BY <4>1, BoundsAssumption DEF IInv, TypeOK, CoreInv, CapturePhase
      <4>3. QED
        BY <4>2
    <3>3. Register!Publish
      BY <3>1, <3>2 DEF Register!Publish
    <3>4. QED
      BY <3>3 DEF Register!Next
  <2>3. CASE TakeFrame \/ IgnoreFrame
    <3>1. /\ rpc = "copy" /\ left = {} /\ Unchanged
          /\ seen' = Picture /\ UNCHANGED latest
      BY <2>3 DEF TakeFrame, IgnoreFrame, ReadAfter, core
    <3>2. seenClean' <=> clean
      <4>1. CASE TakeFrame
        BY <4>1, Zenon DEF TakeFrame
      <4>2. CASE IgnoreFrame
        BY <4>2, Zenon DEF IgnoreFrame
      <4>3. QED
        BY <2>3, <4>1, <4>2
    <3>3. CASE clean
      <4>1. seen' = latest
        BY <3>1, <3>3, CleanCopy DEF IInv
      <4>2. seenClean'
        BY <3>2, <3>3
      <4>3. Register!Read
        BY <3>1, <4>1, <4>2 DEF Register!Read
      <4>4. QED
        BY <4>3 DEF Register!Next
    <3>4. CASE ~clean
      <4>1. ~seenClean'
        BY <3>2, <3>4
      <4>2. Register!Forget
        BY <3>1, <4>1 DEF Register!Forget, Nothing, Register!Nothing
      <4>3. QED
        BY <4>2 DEF Register!Next
    <3>5. QED
      BY <3>3, <3>4
  <2>4. CASE UNCHANGED <<latest, seen, seenClean>>
    BY <2>4 DEF Register!vars
  <2>5. \/ ShmInit \/ StoreEven \/ TakeFrame \/ IgnoreFrame
        \/ UNCHANGED <<latest, seen, seenClean>>
    <3>1. CASE \/ CoreCrash \/ CameraCapture \/ VisionOpen \/ VisionCrash
               \/ \E g \in Geometries : CameraInit(g)
               \/ UNCHANGED vars
      BY <3>1 DEF CoreCrash, CameraCapture, CameraInit, VisionOpen,
                  VisionCrash, vars, core, vision, results
    <3>2. CASE CoreStore
      BY <3>2 DEF CoreStore, StoreGeometry, StoreSize, StoreReset, StoreOdd,
                  PerformHeader, Perform, StorePixels, results
    <3>3. CASE VisionStep
      BY <3>3 DEF VisionStep, ReadBefore, ReadGeometry, ReadSize, RefuseSize,
                  CopyPixels, RefuseFrame, ReadAfter, core, results
    <3>4. QED
      BY <3>1, <3>2, <3>3 DEF Next
  <2>6. QED
    BY <2>1, <2>2, <2>3, <2>4, <2>5
<1>3. QED
  BY <1>1, <1>2, Inductive, PTL DEF Spec, ImplementsRegister, Register!Spec
============================================================================
