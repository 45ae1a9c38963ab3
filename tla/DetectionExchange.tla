------------------------- MODULE DetectionExchange -------------------------
(***************************************************************************)
(* The detections in the shared segment: the vision process (Python)       *)
(* writes the boxes of the last inference under detection_sequence, then   *)
(* person_count outside of it; the core (C) takes a snapshot per camera    *)
(* frame, looking at the sequence before and after its copy and giving up  *)
(* after a number of attempts.  A start of the core zeroes all of it while *)
(* the vision process may be writing.                                      *)
(*                                                                         *)
(* Each load and store of the header is a step, a box is one piece.  An    *)
(* inference is named by its number; a box shows the inference it comes    *)
(* from, or 0 when it is zeroed.  A store of the sequence is the one of    *)
(* struct.pack_into: the field is zeroed, then its bytes are stored from   *)
(* the lowest on.  Vision's are plain stores, as the core's are: those of  *)
(* one set_detections become visible in any order that keeps the ones to   *)
(* the sequence in theirs.                                                 *)
(***************************************************************************)
EXTENDS Integers, FiniteSets

CONSTANTS
    Slots,        \* MAX_DETECTIONS
    Counts,       \* numbers of persons an inference may find
    MaxSeq,       \* largest uint32
    LowBytes,     \* what the bytes of a number stored so far stand for
    MaxAttempts,  \* attempts of camera_get_detections
    MaxResults,   \* bound: inferences in a behaviour
    MaxStarts     \* bound: starts of the core in a behaviour

ASSUME SlotsAssumption == Slots \in Nat \ {0}
ASSUME CountsAssumption == Counts \subseteq Nat
ASSUME MaxSeqAssumption == MaxSeq \in Nat /\ MaxSeq % 2 = 1
ASSUME LowBytesAssumption ==
    /\ LowBytes \in [0..MaxSeq -> SUBSET (0..MaxSeq)]
    /\ \A n \in 0..MaxSeq : \A b \in LowBytes[n] : b <= n /\ b % 2 = n % 2
ASSUME AttemptsAssumption == MaxAttempts \in Nat \ {0}
ASSUME BoundsAssumption == MaxResults \in Nat /\ MaxStarts \in Nat

Box == 1..Slots

\* What set_detections stores between the two sequences: detection_count,
\* named 0, and the boxes.
Piece == 0..Slots

Torn    == -1   \* a snapshot that is not the result published last
Nothing == -2   \* no snapshot: the attempts ran out

VARIABLES
    \* The vision process.
    wpc,       \* "off", "idle", "infer", "read", the next store of the
               \* sequence ("zero_odd", "odd", "zero_even", "even"), "persons"
    wseq,      \* sequence of set_detections
    found,     \* len(persons), before it is cut to Slots
    pending,   \* pieces whose store is not visible yet
    results,   \* inferences so far: the next one's name
    \* The segment.
    dseq,      \* detection_sequence
    dcount,    \* detection_count
    boxes,     \* detections
    persons,   \* person_count
    framed,    \* frame_size is not 0: there is a frame to analyse
    \* The core.
    cpc,       \* "down", "memset", "idle", "before", "count", "copy"
    zeroing,   \* header fields the memset has not reached
    cells,     \* boxes the current memset or memcpy has not reached
    starts,    \* starts so far
    attempt,   \* attempts of this snapshot
    cbefore,   \* sequence_before
    ccount,    \* count
    out,       \* the caller's array
    \* History variables.
    latest,    \* the inference published last
    lcount,    \* and its number of boxes
    fresh,     \* the write in progress began after the last memset ended
    mixed,     \* a memset overlapped a write, or boxes that a dead writer left
               \* half written stand under a 0, and no fresh write began since
    spoiled,   \* in the core's current attempt vision died or a store was
               \* visible ahead of one that precedes it in the program
    seen,      \* the inference that the last snapshot shows
    seenClean  \* that snapshot was a clean one

vision  == <<wpc, wseq, found, pending, results>>
segment == <<dseq, dcount, boxes, persons, framed>>
core    == <<cpc, zeroing, cells, starts, attempt, cbefore, ccount, out>>
history == <<latest, lcount, fresh, mixed, spoiled, seen, seenClean>>
vars    == <<vision, segment, core, history>>

Fields == {"persons", "sequence", "count"}

TypeOK ==
    /\ wpc \in {"off", "idle", "infer", "read", "zero_odd", "odd",
                "zero_even", "even", "persons"}
    /\ wseq \in 0..(MaxSeq + 1)
    /\ found \in Counts \cup {0}
    /\ pending \subseteq Piece
    /\ results \in 0..MaxResults
    /\ dseq \in 0..MaxSeq
    /\ dcount \in 0..Slots
    /\ boxes \in [Box -> 0..MaxResults]
    /\ persons \in Counts \cup {0}
    /\ framed \in BOOLEAN
    /\ cpc \in {"down", "memset", "idle", "before", "count", "copy"}
    /\ zeroing \subseteq Fields
    /\ cells \subseteq Box
    /\ starts \in 0..MaxStarts
    /\ attempt \in 0..MaxAttempts
    /\ cbefore \in 0..MaxSeq
    /\ ccount \in 0..Slots
    /\ out \in [Box -> 0..MaxResults]
    /\ latest \in 0..results
    /\ lcount \in 0..Slots
    /\ fresh \in BOOLEAN /\ mixed \in BOOLEAN /\ spoiled \in BOOLEAN
    /\ seenClean \in BOOLEAN
    /\ seen \in 0..results \cup {Torn, Nothing}

Init ==
    /\ wpc = "off" /\ wseq = 0 /\ found = 0 /\ pending = {} /\ results = 0
    /\ dseq = 0 /\ dcount = 0 /\ boxes = [i \in Box |-> 0] /\ persons = 0
    /\ framed = FALSE
    /\ cpc = "down" /\ zeroing = {} /\ cells = {} /\ starts = 0
    /\ attempt = 0 /\ cbefore = 0 /\ ccount = 0 /\ out = [i \in Box |-> 0]
    /\ latest = 0 /\ lcount = 0 /\ fresh = FALSE /\ mixed = FALSE
    /\ spoiled = FALSE /\ seen = Nothing /\ seenClean = FALSE

Even(n) == n % 2 = 0
Least(a, b) == IF a <= b THEN a ELSE b

\* set_detections has begun, and not all its stores are visible.
Writing == wpc \in {"zero_odd", "odd", "zero_even", "even"} \/ pending # {}

\* The variables of an attempt of the core end with it.
EndAttempt ==
    /\ cbefore' = 0 /\ ccount' = 0 /\ out' = [i \in Box |-> 0]
    /\ spoiled' = FALSE

Zeroing == cpc = "memset" /\ (zeroing # {} \/ cells # {})

\* The core is between its two looks at the sequence.
Reading == cpc \in {"count", "copy"}

\* A piece is visible before the odd sequence, or missing after an even one.
Ahead ==
    \/ wpc \in {"zero_odd", "odd"} /\ pending # Piece
    \/ wpc \in {"even", "persons"} /\ pending # {}

----------------------------------------------------------------------------
(* The vision process.                                                     *)

\* The segment exists from the first start of the core on.
VisionOpen ==
    /\ wpc = "off" /\ starts > 0
    /\ wpc' = "idle"
    /\ UNCHANGED <<wseq, found, pending, results, segment, core, history>>

\* The variables of set_detections end with the call.
EndCall == wseq' = 0 /\ found' = 0 /\ pending' = {} /\ fresh' = FALSE

\* The process ends; what it stored stays, what it had not is never seen.  The
\* stores before one that is visible have been executed and become visible.
Die ==
    /\ ~Ahead
    /\ wpc' = "off"
    /\ EndCall
    /\ spoiled' = Reading
    /\ UNCHANGED <<results, segment, core, latest, lcount, mixed,
                   seen, seenClean>>

\* Killed, by a signal or by an exception.
VisionCrash == wpc # "off" /\ results < MaxResults /\ Die

\* read_frame returned a frame that main infers on, or publishes an empty
\* result for: every interval-th new one (see FrameExchange), or any new one
\* when detection is disabled.
TakeFrame ==
    /\ wpc = "idle" /\ framed
    /\ wpc' = "infer"
    /\ UNCHANGED <<wseq, found, pending, results, segment, core, history>>

\* The inference ends; with detection disabled its result is empty.
Detect(n) ==
    /\ wpc = "infer" /\ results < MaxResults
    /\ results' = results + 1
    /\ found' = n
    /\ wpc' = "read"
    /\ UNCHANGED <<wseq, pending, segment, core, history>>

\* Defect: the odd sequence of a writer that died taken as it is.
AsItIs(n) == n

\* A writer that died left the sequence odd: start from the next even one.
EvenFrom(n) == IF Even(n) THEN n ELSE n + 1

ReadSequence ==
    /\ wpc = "read"
    /\ wseq' = EvenFrom(dseq)
    /\ wpc' = "zero_odd" /\ pending' = Piece
    /\ fresh' = ~Zeroing
    /\ mixed' = (mixed \/ Zeroing)
    /\ UNCHANGED <<found, results, segment, core, latest, lcount,
                   spoiled, seen, seenClean>>

\* A store is made while the core may be reading.
Spoil == spoiled' = (spoiled \/ (Reading /\ Ahead'))

\* A step of the stores of the sequence, from a to b, leaves n there.
SequenceStore(a, b, n) ==
    /\ wpc = a /\ wpc' = b
    /\ dseq' = n
    /\ UNCHANGED <<wseq, found, pending, results, dcount, boxes, persons,
                   framed, core, fresh, seen, seenClean>>
    /\ Spoil

\* struct.pack_into zeroes the field first.  Over the odd sequence that a dead
\* writer left, this puts an even one over boxes that are half written.
ZeroOdd ==
    /\ SequenceStore("zero_odd", "odd", 0)
    /\ mixed' = (mixed \/ ~Even(dseq))
    /\ UNCHANGED <<latest, lcount>>

\* Its lower bytes are in place.
OddBytes ==
    /\ wseq + 1 <= MaxSeq
    /\ \E b \in LowBytes[wseq + 1] : dseq < b /\ SequenceStore("odd", "odd", b)
    /\ UNCHANGED <<latest, lcount, mixed>>

WriteOdd ==
    /\ wseq + 1 <= MaxSeq
    /\ SequenceStore("odd", "zero_even", wseq + 1)
    /\ mixed' = (mixed /\ ~fresh)
    /\ UNCHANGED <<latest, lcount>>

\* Defect: the list is not cut.
Uncut == found

\* persons[:MAX_DETECTIONS]
Stored == Least(found, Slots)

\* detection_count or a box.  A store of the sequence that raises (Overflow)
\* is followed by none.
PieceStore(i) ==
    /\ i \in pending /\ pending' = pending \ {i}
    /\ wseq + 1 <= MaxSeq
    /\ UNCHANGED <<wpc, wseq, found, results, dseq, persons, framed, core,
                   latest, lcount, fresh, mixed, seen, seenClean>>
    /\ Spoil

WriteCount ==
    /\ PieceStore(0)
    /\ dcount' = Stored
    /\ UNCHANGED boxes

\* The boxes of the result, then zeroes up to the last slot.
WriteBox(i) ==
    /\ PieceStore(i)
    /\ boxes' = [boxes EXCEPT ![i] = IF i <= Stored THEN results ELSE 0]
    /\ UNCHANGED dcount

\* The second store of the sequence: already its zero, an even one, shows the
\* boxes to a reader that began under 0.
ZeroEven ==
    /\ SequenceStore("zero_even", "even", 0)
    /\ latest' = results /\ lcount' = Stored
    /\ UNCHANGED mixed

EvenBytes ==
    /\ wseq + 2 <= MaxSeq
    /\ \E b \in LowBytes[wseq + 2] : dseq < b /\ SequenceStore("even", "even", b)
    /\ UNCHANGED <<latest, lcount, mixed>>

WriteEven ==
    /\ wseq + 2 <= MaxSeq
    /\ SequenceStore("even", "persons", wseq + 2)
    /\ UNCHANGED <<latest, lcount, mixed>>

\* struct.pack_into raises when a number does not fit, after it has zeroed the
\* field, and that ends main.
Overflow ==
    /\ \/ wpc = "odd" /\ wseq + 1 > MaxSeq
       \/ wpc = "even" /\ wseq + 2 > MaxSeq
    /\ Die

Reported == found

\* set_person_count gets the number of persons found, not the number stored.
WritePersons ==
    /\ wpc = "persons" /\ pending = {}
    /\ persons' = Reported
    /\ wpc' = "idle"
    /\ EndCall
    /\ UNCHANGED <<results, dseq, dcount, boxes, framed, core,
                   latest, lcount, mixed, spoiled, seen, seenClean>>

VisionStep ==
    \/ TakeFrame \/ ReadSequence \/ Overflow
    \/ ZeroOdd \/ OddBytes \/ WriteOdd
    \/ WriteCount \/ \E i \in Box : WriteBox(i)
    \/ ZeroEven \/ EvenBytes \/ WriteEven \/ WritePersons

----------------------------------------------------------------------------
(* The core: the memset of shm_init, whatever the vision process is doing. *)

ShmInit ==
    /\ cpc = "down" /\ starts < MaxStarts
    /\ starts' = starts + 1
    /\ cpc' = "memset" /\ zeroing' = Fields /\ cells' = Box
    /\ latest' = 0 /\ lcount' = 0 /\ fresh' = FALSE
    /\ mixed' = Writing
    /\ seen' = Nothing /\ seenClean' = FALSE
    /\ framed' = FALSE
    /\ UNCHANGED <<vision, dseq, dcount, boxes, persons, attempt, cbefore,
                   ccount, out, spoiled>>

ZeroField(f) ==
    /\ cpc = "memset" /\ f \in zeroing
    /\ zeroing' = zeroing \ {f}
    /\ dseq' = IF f = "sequence" THEN 0 ELSE dseq
    /\ dcount' = IF f = "count" THEN 0 ELSE dcount
    /\ persons' = IF f = "persons" THEN 0 ELSE persons
    /\ UNCHANGED <<vision, boxes, framed, cpc, cells, starts, attempt,
                   cbefore, ccount, out, history>>

ZeroBox(i) ==
    /\ cpc = "memset" /\ i \in cells
    /\ cells' = cells \ {i}
    /\ boxes' = [boxes EXCEPT ![i] = 0]
    /\ UNCHANGED <<vision, dseq, dcount, persons, framed, cpc, zeroing,
                   starts, attempt, cbefore, ccount, out, history>>

\* The rest of the start: camera_init announces a frame.
Started ==
    /\ cpc = "memset" /\ ~Zeroing
    /\ cpc' = "idle" /\ framed' = TRUE
    /\ UNCHANGED <<vision, dseq, dcount, boxes, persons, zeroing, cells,
                   starts, attempt, cbefore, ccount, out, history>>

CoreCrash ==
    /\ cpc # "down" /\ starts < MaxStarts
    /\ cpc' = "down" /\ zeroing' = {} /\ cells' = {} /\ attempt' = 0
    /\ EndAttempt
    /\ UNCHANGED <<vision, segment, starts,
                   latest, lcount, fresh, mixed, seen, seenClean>>

----------------------------------------------------------------------------
(* The core: camera_get_detections, called for every camera frame.         *)

Snapshot ==
    /\ cpc = "idle"
    /\ cpc' = "before"
    /\ UNCHANGED <<vision, segment, zeroing, cells, starts, attempt, cbefore,
                   ccount, out, history>>

\* sequence_before; an odd one ends the attempt.
ReadBefore ==
    /\ cpc = "before" /\ attempt < MaxAttempts
    /\ attempt' = attempt + 1
    /\ IF Even(dseq)
       THEN cbefore' = dseq /\ cpc' = "count" /\ spoiled' = Ahead
       ELSE UNCHANGED <<cbefore, cpc, spoiled>>
    /\ UNCHANGED <<vision, segment, zeroing, cells, starts, ccount, out,
                   latest, lcount, fresh, mixed, seen, seenClean>>

ReadCount ==
    /\ cpc = "count"
    /\ ccount' = Least(dcount, Slots)
    /\ cells' = 1..Least(dcount, Slots)
    /\ cpc' = "copy"
    /\ UNCHANGED <<vision, segment, zeroing, starts, attempt, cbefore, out,
                   history>>

CopyBox(i) ==
    /\ cpc = "copy" /\ i \in cells
    /\ out' = [out EXCEPT ![i] = boxes[i]]
    /\ cells' = cells \ {i}
    /\ UNCHANGED <<vision, segment, cpc, zeroing, starts, attempt, cbefore,
                   ccount, history>>

\* Defect: the second look at the sequence left out.
NeverChanged == TRUE

SameSequence == cbefore = dseq

\* The result that the copy shows.
Shown == IF ccount = lcount /\ \A i \in 1..ccount : out[i] = latest
         THEN latest ELSE Torn

\* An attempt that the sequence answers for: not under 0, which every store
\* of the sequence passes through, nor under the lower bytes of another one.
Clean ==
    /\ ~mixed /\ ~spoiled
    /\ cbefore # 0
    /\ wpc = "even" => dseq = wseq + 2

Copied == cpc = "copy" /\ cells = {}

Accept ==
    /\ Copied /\ SameSequence
    /\ cpc' = "idle" /\ attempt' = 0
    /\ seen' = Shown /\ seenClean' = Clean
    /\ EndAttempt
    /\ UNCHANGED <<vision, segment, zeroing, cells, starts,
                   latest, lcount, fresh, mixed>>

TryAgain ==
    /\ Copied /\ ~SameSequence
    /\ cpc' = "before"
    /\ EndAttempt
    /\ UNCHANGED <<vision, segment, zeroing, cells, starts, attempt,
                   latest, lcount, fresh, mixed, seen, seenClean>>

\* The attempts ran out: the frame is treated as one without persons.
GiveUp ==
    /\ cpc = "before" /\ attempt = MaxAttempts
    /\ cpc' = "idle" /\ attempt' = 0
    /\ seen' = Nothing /\ seenClean' = FALSE
    /\ UNCHANGED <<vision, segment, zeroing, cells, starts, cbefore,
                   ccount, out, latest, lcount, fresh, mixed, spoiled>>

CoreStep ==
    \/ \E f \in Fields : ZeroField(f)
    \/ \E i \in Box : ZeroBox(i) \/ CopyBox(i)
    \/ Started \/ Snapshot \/ ReadBefore \/ ReadCount
    \/ Accept \/ TryAgain \/ GiveUp

----------------------------------------------------------------------------
Next ==
    \/ VisionOpen \/ VisionCrash \/ VisionStep
    \/ \E n \in Counts : Detect(n)
    \/ ShmInit \/ CoreCrash \/ CoreStep

Spec == Init /\ [][Next]_vars

\* A supervisor starts a process that died, camera frames go on arriving, so
\* that snapshots are taken and inferences made, and calls run to their end.
Fairness ==
    /\ WF_vars(VisionOpen) /\ WF_vars(VisionStep)
    /\ WF_vars(\E n \in Counts : Detect(n))
    /\ WF_vars(ShmInit) /\ WF_vars(CoreStep)

FairSpec == Spec /\ Fairness

----------------------------------------------------------------------------
(* Properties.                                                             *)

\* A snapshot that camera_get_detections accepts under a sequence other than 0
\* is the result published last, with all its boxes and no other, unless the
\* boxes do not belong to any result (a memset overlapped a write and vision
\* has begun no other since), a store was visible ahead of another, vision
\* died in the meantime or the sequence is half stored.
WholeSnapshot == seenClean => seen # Torn

\* The same of every snapshot, as shared_memory.h says ("Even value = stable
\* detection data"): not of one under the 0 that each store passes through.
NeverTorn == seen # Torn

\* Once the core is up, an even sequence means that nobody is writing.
EvenMeansStable ==
    cpc \notin {"down", "memset"} /\ Even(dseq)
        => ~(wpc = "zero_even" /\ pending # Piece)

\* The detections in the segment implement a register of results.
Register == INSTANCE SharedRegister
                WITH seen <- IF seenClean THEN seen ELSE Nothing
ImplementsRegister == Register!Spec

\* A result that stays the last is seen by the core: neither a writer that
\* died with the sequence odd, nor a sequence that ran over, nor the limit on
\* attempts keeps it away.  A memset over a write does.
LastResultSeen == <>[](wpc # "off" /\ ~mixed) => <>[](seen = latest)

\* person_count and detection_count, stored separately and after each other,
\* agree again once vision rests, up to the ten boxes that are kept, in the
\* first run of the core and unless the sequence has just run over.
CountsSettle ==
    <>[](wpc # "off" /\ starts = 1 /\ dseq # 0)
        => <>[](Least(persons, Slots) = dcount)
============================================================================
