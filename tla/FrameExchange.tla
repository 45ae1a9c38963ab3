--------------------------- MODULE FrameExchange ---------------------------
(***************************************************************************)
(* The raw camera frame in the POSIX shared segment: the core (C) writes   *)
(* it, the vision process (Python) reads it, and no lock is shared.  The   *)
(* core makes frame_sequence odd, copies the pixels, stores frame_size and *)
(* makes the sequence even; the reader takes a copy only when the sequence *)
(* was even and did not change while it copied.                            *)
(*                                                                         *)
(* Each store of the core and each load of the reader is a step of its     *)
(* own.  The core's are plain stores, with no barrier between them: on the *)
(* board's AArch64 those of one call become visible in any order that      *)
(* keeps the two to frame_sequence apart.  The image is Chunks pieces,     *)
(* each stored and loaded at once; width and height are one number, the    *)
(* geometry, namely how many pieces width * height * 2 bytes are, which is *)
(* also the unit of frame_size.                                            *)
(* The sequence is a natural number: at 30 FPS the uint32 of the code      *)
(* wraps after 828 days (it stays even after a frame, 2^32 being even).    *)
(***************************************************************************)
EXTENDS Integers, FiniteSets

CONSTANTS
    Chunks,      \* pieces in the frame buffer (CAMERA_FRAME_BYTES)
    Geometries,  \* frame sizes the camera driver may settle for
    MaxFrames,   \* bound: frames captured in a behaviour
    MaxStarts    \* bound: starts of the core in a behaviour

ASSUME ChunksAssumption == Chunks \in Nat \ {0}
ASSUME GeometriesAssumption == Geometries \subseteq 1..Chunks
ASSUME BoundsAssumption == MaxFrames \in Nat /\ MaxStarts \in Nat

Piece == 1..Chunks

Blank   == 0    \* zeroed pixels
Torn    == -1   \* a picture made of pieces of different frames
Nothing == -2   \* no picture yet

VARIABLES
    \* The core process.
    phase,     \* "absent", "down", "memset", "camera" or "capture"
    todo,      \* header stores of the current call not yet performed
    cells,     \* pieces the current memset or memcpy has not stored yet
    cgeom,     \* width and height of camera.c
    starts,    \* starts of the core so far
    captured,  \* frames dequeued from the camera so far: the next one's name
    latest,    \* history variable: the last frame whose publication ended
    mixed,     \* history variable: a memset began and has not been completed
    \* The shared segment.
    seq,       \* frame_sequence
    geom,      \* frame_width and frame_height
    size,      \* frame_size
    data,      \* frame_yuyv
    \* The vision process.
    rpc,       \* "off", "loop", "geom", "size", "copy"
    before,    \* sequence_before
    rgeom,     \* width and height
    rsize,     \* size
    left,      \* pieces not copied yet
    raw,       \* raw
    last,      \* last_sequence, Nothing standing for None
    seen,      \* history variable: the picture read_frame returned last
    taken,     \* history variable: the picture main took as new last
    clean,     \* history variable: the current attempt met neither a memset
               \* nor a store ahead of one that precedes it in the program
    seenClean, \* seen was returned by a clean attempt
    takenClean \* and so was taken, in the present run of the core

core    == <<phase, todo, cells, cgeom, starts, captured, latest, mixed>>
segment == <<seq, geom, size, data>>
reading == <<before, rgeom, rsize, left, raw>>
results == <<last, seen, taken, seenClean, takenClean>>
vision  == <<rpc, reading, clean, results>>
vars    == <<core, segment, vision>>

Stores == {"geom", "size", "reset", "odd", "even"}

TypeOK ==
    /\ phase \in {"absent", "down", "memset", "camera", "capture"}
    /\ todo \subseteq Stores
    /\ cells \subseteq Piece
    /\ cgeom \in 0..Chunks
    /\ starts \in 0..MaxStarts
    /\ captured \in 0..MaxFrames
    /\ latest \in 0..captured
    /\ mixed \in BOOLEAN
    /\ seq \in Nat
    /\ geom \in 0..Chunks
    /\ size \in 0..Chunks
    /\ data \in [Piece -> 0..MaxFrames]
    /\ rpc \in {"off", "loop", "geom", "size", "copy"}
    /\ before \in Nat
    /\ rgeom \in 0..Chunks
    /\ rsize \in 0..Chunks
    /\ left \subseteq Piece
    /\ raw \in [Piece -> 0..MaxFrames]
    /\ last \in Nat \cup {Nothing}
    /\ seen \in 0..MaxFrames \cup {Torn, Nothing}
    /\ taken \in 0..MaxFrames \cup {Torn, Nothing}
    /\ clean \in BOOLEAN
    /\ seenClean \in BOOLEAN
    /\ takenClean \in BOOLEAN

Init ==
    /\ phase = "absent" /\ todo = {} /\ cells = {} /\ cgeom = 0
    /\ starts = 0 /\ captured = 0 /\ latest = Blank
    /\ mixed = TRUE
    /\ seq = 0 /\ geom = 0 /\ size = 0 /\ data = [i \in Piece |-> Blank]
    /\ rpc = "off" /\ before = 0 /\ rgeom = 0 /\ rsize = 0
    /\ left = {} /\ raw = [i \in Piece |-> Blank]
    /\ last = Nothing /\ seen = Nothing /\ taken = Nothing
    /\ clean = FALSE /\ seenClean = FALSE /\ takenClean = FALSE

----------------------------------------------------------------------------
(* The core: the stores of the call in progress.                           *)

Even(n) == n % 2 = 0

Idle == todo = {} /\ cells = {}

\* width * height * 2.  Defect: a row of padding counted in.
PaddedFrameSize == cgeom + 1
FrameSize == cgeom

\* Defect: the sequence made odd after the copy has begun.
LateRank(s) == IF phase = "memset" \/ s = "odd" THEN 1
               ELSE CASE s = "geom" -> 0 [] s = "size" -> 2
                      [] s = "reset" -> 3 [] s = "even" -> 3

\* The place of each store in the program text; the pixels are at 1.
\* memset and memcpy promise no order among their own bytes.
Rank(s) == IF phase = "memset" THEN 1
           ELSE CASE s = "geom"  -> 0
                  [] s = "odd"   -> 0
                  [] s = "size"  -> 2
                  [] s = "reset" -> 3
                  [] s = "even"  -> 3

\* The header stores of the call in progress, those performed included.
Call == IF phase = "capture" THEN {"odd", "size", "even"}
                             ELSE {"geom", "size", "reset"}

\* A store is visible and one that precedes it in the program is not.
Ahead ==
    \/ \E s \in todo, t \in Call \ todo : Rank(s) < Rank(t)
    \/ cells # {} /\ \E t \in Call \ todo : Rank(t) > 1
    \/ /\ phase = "capture" /\ cells # 1..FrameSize
       /\ \E s \in todo : Rank(s) < 1

\* Stores to one location keep their order, here the two to the sequence.
MayStore(s) == s \in todo /\ (s = "even" => "odd" \notin todo)

\* The memset is complete once its last store is.
StillMixed(h, c) == mixed /\ ~(phase = "memset" /\ h = {} /\ c = {})

\* A store that leaves the header stores h and the pixels c to be done.
Perform(h, c) ==
    /\ todo' = h /\ cells' = c
    /\ mixed' = StillMixed(h, c)
    /\ UNCHANGED <<phase, cgeom, starts, captured, rpc, reading, results>>
    /\ clean' = (clean /\ ~Ahead')

PerformHeader(s) == Perform(todo \ {s}, cells)

\* frame_width and frame_height, by memset or by camera_init.
StoreGeometry ==
    /\ MayStore("geom")
    /\ geom' = IF phase = "memset" THEN 0 ELSE cgeom
    /\ PerformHeader("geom")
    /\ UNCHANGED <<seq, size, data, latest>>

\* frame_size, by memset, camera_init or camera_capture.
StoreSize ==
    /\ MayStore("size")
    /\ size' = IF phase = "memset" THEN 0 ELSE FrameSize
    /\ PerformHeader("size")
    /\ UNCHANGED <<seq, geom, data, latest>>

\* Defect: a start of the core that keeps the old sequence.
KeepSequence ==
    /\ MayStore("reset")
    /\ PerformHeader("reset")
    /\ UNCHANGED <<segment, latest>>

\* frame_sequence = 0, by memset or by camera_init.
StoreReset ==
    /\ MayStore("reset")
    /\ seq' = 0
    /\ PerformHeader("reset")
    /\ UNCHANGED <<geom, size, data, latest>>

\* The first frame_sequence++ of camera_capture.
StoreOdd ==
    /\ MayStore("odd")
    /\ seq' = seq + 1
    /\ PerformHeader("odd")
    /\ UNCHANGED <<geom, size, data, latest>>

\* The second one: the frame is published.
StoreEven ==
    /\ MayStore("even")
    /\ seq' = seq + 1
    /\ latest' = captured
    /\ PerformHeader("even")
    /\ UNCHANGED <<geom, size, data>>

\* One piece of the memset or of the memcpy.
StorePixels(i) ==
    /\ i \in cells
    /\ data' = [data EXCEPT ![i] = IF phase = "memset" THEN Blank
                                                       ELSE captured]
    /\ Perform(todo, cells \ {i})
    /\ UNCHANGED <<latest, seq, geom, size>>

----------------------------------------------------------------------------
(* The core: its calls.                                                    *)

\* shm_init finds or creates the segment and zeroes it, whether or not
\* another process has it mapped.
ShmInit ==
    /\ phase \in {"absent", "down"}
    /\ starts < MaxStarts
    /\ starts' = starts + 1
    /\ phase' = "memset"
    /\ todo' = {"geom", "size", "reset"}
    /\ cells' = Piece
    /\ latest' = Blank
    /\ mixed' = TRUE
    /\ clean' = FALSE /\ seenClean' = FALSE /\ takenClean' = FALSE
    /\ UNCHANGED <<cgeom, captured, segment, rpc, reading,
                   last, seen, taken>>

\* camera_init, once the driver has settled for a geometry.
CameraInit(g) ==
    /\ phase = "memset" /\ Idle
    /\ phase' = "camera"
    /\ cgeom' = g
    /\ todo' = {"geom", "size", "reset"}
    /\ UNCHANGED <<cells, starts, captured, latest, mixed, segment, vision>>

\* camera_capture: a frame was dequeued and its publication begins.
CameraCapture ==
    /\ phase \in {"camera", "capture"} /\ Idle
    /\ captured < MaxFrames
    /\ captured' = captured + 1
    /\ phase' = "capture"
    /\ todo' = {"odd", "size", "even"}
    /\ cells' = 1..FrameSize
    /\ UNCHANGED <<cgeom, starts, latest, mixed, segment, vision>>

\* The core is killed: the segment stays as it is, half written or not.  The
\* stores before one that is visible have been executed and become visible.
CoreCrash ==
    /\ phase \in {"memset", "camera", "capture"}
    /\ starts < MaxStarts
    /\ ~Ahead
    /\ phase' = "down"
    /\ todo' = {} /\ cells' = {}
    /\ UNCHANGED <<cgeom, starts, captured, latest, mixed, segment, vision>>

CoreStore ==
    \/ StoreGeometry \/ StoreSize \/ StoreReset \/ StoreOdd \/ StoreEven
    \/ \E i \in Piece : StorePixels(i)

----------------------------------------------------------------------------
(* The vision process: read_frame, and what main does with its answer.     *)

\* An attempt ends, and its local variables with it.
EndAttempt ==
    /\ before' = 0 /\ rgeom' = 0 /\ rsize' = 0
    /\ left' = {} /\ raw' = [i \in Piece |-> Blank]
    /\ clean' = FALSE

\* open() maps the segment; it fails while there is none.
VisionOpen ==
    /\ rpc = "off" /\ phase # "absent"
    /\ rpc' = "loop"
    /\ last' = Nothing
    /\ UNCHANGED <<core, segment, reading, seen, taken,
                   clean, seenClean, takenClean>>

\* Killed, or a signal: the loop variables are lost.
VisionCrash ==
    /\ rpc # "off"
    /\ rpc' = "off"
    /\ EndAttempt
    /\ UNCHANGED <<core, segment, results>>

\* sequence_before.  An odd one means another attempt; that read_frame gives
\* up after 20 of them and is called again changes nothing.
ReadBefore ==
    /\ rpc = "loop"
    /\ Even(seq)
    /\ before' = seq
    /\ rpc' = "geom"
    /\ clean' = (~mixed /\ ~Ahead)
    /\ UNCHANGED <<core, segment, rgeom, rsize, left, raw, results>>

ReadGeometry ==
    /\ rpc = "geom"
    /\ rgeom' = geom
    /\ rpc' = "size"
    /\ UNCHANGED <<core, segment, before, rsize, left, raw,
                   clean, results>>

\* frame_size; a frame that is empty or larger than the buffer is refused.
Sized == rgeom > 0 /\ size > 0 /\ size <= Chunks

ReadSize ==
    /\ rpc = "size" /\ Sized
    /\ rsize' = size
    /\ left' = 1..size
    /\ rpc' = "copy"
    /\ UNCHANGED <<core, segment, before, rgeom, raw, clean, results>>

RefuseSize ==
    /\ rpc = "size" /\ ~Sized
    /\ rpc' = "loop"
    /\ EndAttempt
    /\ UNCHANGED <<core, segment, results>>

CopyPixels(i) ==
    /\ rpc = "copy" /\ i \in left
    /\ raw' = [raw EXCEPT ![i] = data[i]]
    /\ left' = left \ {i}
    /\ UNCHANGED <<core, segment, rpc, before, rgeom, rsize,
                   clean, results>>

\* The copied pieces as one picture.
Picture == IF \A i \in 1..rsize : raw[i] = raw[1] THEN raw[1] ELSE Torn

\* sequence_after: the copy counts if the sequence is the one read before.
\* Defect: the second look at the sequence left out.
NeverChanged == TRUE
Unchanged == before = seq

ReadAfter ==
    /\ rpc = "copy" /\ left = {}
    /\ rpc' = "loop"
    /\ EndAttempt
    /\ UNCHANGED <<core, segment>>

\* The frame changed while copying, or its size is not the one its width and
\* height call for: another attempt.
RefuseFrame ==
    /\ ReadAfter
    /\ ~(Unchanged /\ rsize = rgeom)
    /\ UNCHANGED <<last, seen, taken, seenClean, takenClean>>

\* Defect: only the first frame counts as new.
IsFirst == last = Nothing
IsNew == before # last

\* main takes a frame as new when its sequence is not the last one's: it
\* counts it, and what it does with it is DetectionExchange's TakeFrame ...
TakeFrame ==
    /\ ReadAfter
    /\ Unchanged /\ rsize = rgeom
    /\ IsNew
    /\ last' = before
    /\ seen' = Picture /\ taken' = Picture
    /\ seenClean' = clean /\ takenClean' = clean

\* ... and ignores "the same camera frame".
IgnoreFrame ==
    /\ ReadAfter
    /\ Unchanged /\ rsize = rgeom
    /\ ~IsNew
    /\ seen' = Picture
    /\ seenClean' = clean
    /\ UNCHANGED <<last, taken, takenClean>>

VisionStep ==
    \/ ReadBefore \/ ReadGeometry \/ ReadSize \/ RefuseSize
    \/ \E i \in Piece : CopyPixels(i)
    \/ RefuseFrame \/ TakeFrame \/ IgnoreFrame

----------------------------------------------------------------------------
Next ==
    \/ ShmInit \/ CoreCrash \/ CoreStore \/ CameraCapture
    \/ \E g \in Geometries : CameraInit(g)
    \/ VisionOpen \/ VisionCrash \/ VisionStep

Spec == Init /\ [][Next]_vars

\* The core runs on; a supervisor starts a process that died; the vision
\* loop runs on.  Neither crashes nor camera frames are promised.
Fairness ==
    /\ WF_vars(CoreStore)
    /\ WF_vars(ShmInit)
    /\ WF_vars(\E g \in Geometries : CameraInit(g))
    /\ WF_vars(VisionOpen)
    /\ WF_vars(VisionStep)

FairSpec == Spec /\ Fairness

----------------------------------------------------------------------------
(* Properties.                                                             *)

\* What a clean attempt of the reader returns is one frame, never pieces of
\* two (camera_capture against read_frame).
NoTornFrame == seenClean => seen # Torn

\* The same of every attempt, as README.md promises of the sequence field: a
\* store ahead of another, or a restart of the core between two looks
\* at the sequence, defeats it.
NeverTorn == seen # Torn

\* "Ignore the same camera frame": a frame that main ignores is the one it
\* took last, as long as both belong to one run of the core.
IgnoredIsTaken == seenClean /\ takenClean => seen = taken

\* The same across restarts of the core, which start the sequence again.
IgnoresOnlyTheSame == [][IgnoreFrame => seen' = taken]_vars

\* The frame part of the segment implements a register of frames.
Register == INSTANCE SharedRegister
                WITH seen <- IF seenClean THEN seen ELSE Nothing
ImplementsRegister == Register!Spec

\* The last frame the camera delivers is taken as new: polling misses nothing
\* that stays, once a frame of the same run of the core was taken before it
\* and unless stores out of order spoil the attempt that takes it.
LatestFrameTaken ==
    <>[](phase = "capture" /\ rpc # "off" /\ takenClean)
        => <>[](taken = latest)

\* An odd sequence, which stops every reader, does not outlive the core that
\* wrote it: the next start makes it even.
WritingEnds == ~Even(seq) ~> Even(seq)
============================================================================
