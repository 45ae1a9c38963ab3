---------------------- MODULE DetectionExchangeProofs ----------------------
(* DetectionExchange for every number of slots, persons, attempts, results  *)
(* and starts, every width of the sequence and every order in which         *)
(* vision's stores become visible.                                          *)
EXTENDS DetectionExchange, TLAPS

\* Each store of the sequence to come exceeds the ones before, and the pieces
\* stored so far show the result, if no memset came in between.
WriterInv ==
    /\ wpc \in {"read", "zero_odd", "odd", "zero_even"} => latest < results
    /\ wpc \in {"off", "idle", "infer", "read"} => pending = {}
    /\ wpc \in {"zero_odd", "odd", "zero_even", "even"} => Even(wseq)
    /\ wpc = "zero_odd" => dseq <= wseq
    /\ wpc = "odd" => dseq <= wseq + 1 /\ (dseq = 0 \/ ~Even(dseq))
    /\ wpc = "zero_even" => dseq <= wseq + 1
    /\ wpc = "even" => dseq <= wseq + 2 /\ Even(dseq)
    /\ Writing /\ ~mixed => fresh
    /\ Writing /\ fresh =>
         /\ ~Zeroing
         /\ wpc = "zero_even" => dseq = wseq + 1
         /\ 0 \notin pending => dcount = Stored
         /\ \A i \in 1..Stored : i \notin pending => boxes[i] = results
         /\ wpc \in {"even", "persons"} => latest = results /\ lcount = Stored

\* The segment shows the result published last.
Published == dcount = lcount /\ \A i \in 1..lcount : boxes[i] = latest

SegmentInv ==
    /\ Zeroing /\ ~mixed =>
         lcount = 0 /\ ("count" \notin zeroing => dcount = 0)
    /\ cpc # "down" /\ ~Zeroing /\ ~mixed /\ ~Ahead /\ Even(dseq) => Published

\* The number that the store of the sequence in progress ends with.
Target == IF wpc = "odd" THEN wseq + 1
          ELSE IF wpc = "even" THEN wseq + 2
          ELSE dseq

\* What an attempt that nothing spoiled has copied, as long as the sequence
\* has not moved on.
SnapshotInv ==
    /\ Reading => Even(cbefore)
    /\ Reading /\ cbefore # 0 /\ ~spoiled => ~Ahead /\ cbefore <= Target
    /\ cpc = "copy" /\ cbefore # 0 /\ ~spoiled /\ ~mixed /\ cbefore = Target =>
         /\ ccount = dcount
         /\ \A i \in (1..ccount) \ cells : out[i] = boxes[i]

IInv == TypeOK /\ WriterInv /\ SegmentInv /\ SnapshotInv /\ WholeSnapshot

----------------------------------------------------------------------------
\* Parity and the correction of an odd sequence.
LEMMA Parity ==
    /\ \A n \in Nat : Even(n + 1) <=> ~Even(n)
    /\ \A n \in Nat : Even(n + 2) <=> Even(n)
    /\ \A n \in Nat : EvenFrom(n) \in Nat /\ EvenFrom(n) >= n
                      /\ EvenFrom(n) <= n + 1 /\ Even(EvenFrom(n))
BY DEF Even, EvenFrom

\* The lower bytes of a number are no more than it is, and of its parity.
LEMMA Bytes ==
    ASSUME NEW n \in 0..MaxSeq, NEW b \in LowBytes[n]
    PROVE  b \in 0..MaxSeq /\ b <= n /\ (Even(b) <=> Even(n))
BY LowBytesAssumption DEF Even

\* What a step of the stores of the sequence changes.
LEMMA SequenceStored ==
    ASSUME NEW a, NEW b, NEW n, SequenceStore(a, b, n)
    PROVE  /\ wpc = a /\ wpc' = b /\ dseq' = n
           /\ UNCHANGED <<wseq, found, pending, results, dcount, boxes,
                          persons, framed, core, fresh, seen, seenClean>>
BY Zenon DEF SequenceStore

\* What the store of a piece changes.
LEMMA PieceStored ==
    ASSUME NEW i, PieceStore(i)
    PROVE  /\ i \in pending /\ pending' = pending \ {i}
           /\ wseq + 1 <= MaxSeq
           /\ UNCHANGED <<wpc, wseq, found, results, dseq, persons, framed,
                          core, latest, lcount, fresh, mixed, seen, seenClean>>
BY Zenon DEF PieceStore

\* Every variable keeps its type.
LEMMA TypeStep == TypeOK /\ [Next]_vars => TypeOK'
<1> SUFFICES ASSUME TypeOK, [Next]_vars PROVE TypeOK'
  OBVIOUS
<1> USE SlotsAssumption, CountsAssumption, MaxSeqAssumption,
        AttemptsAssumption, BoundsAssumption
    DEF TypeOK, Box, Fields, Piece
<1>1. CASE VisionOpen \/ TakeFrame
  BY <1>1 DEF VisionOpen, TakeFrame, segment, core, history
<1>2. CASE VisionCrash \/ Overflow
  <2>1. Die
    BY <1>2 DEF VisionCrash, Overflow
  <2>2. (cpc \in {"count", "copy"}) \in BOOLEAN
    OBVIOUS
  <2>3. fresh' \in BOOLEAN /\ spoiled' \in BOOLEAN
    BY <2>1, <2>2, Zenon DEF Die, EndCall, Reading
  <2>4. QED
    BY <2>1, <2>3 DEF Die, EndCall, Reading, segment, core
<1>3. CASE \E n \in Counts : Detect(n)
  BY <1>3 DEF Detect, segment, core, history
<1>4. CASE ReadSequence
  <2>1. fresh' \in BOOLEAN /\ mixed' \in BOOLEAN
    BY <1>4, Zenon DEF ReadSequence
  <2>2. EvenFrom(dseq) \in 0..(MaxSeq + 1)
    BY DEF EvenFrom
  <2>3. QED
    BY <1>4, <2>1, <2>2 DEF ReadSequence, Zeroing, segment, core
<1>5. ASSUME NEW a, NEW b, NEW n \in 0..MaxSeq, SequenceStore(a, b, n),
             b \in {"odd", "zero_even", "even", "persons"},
             latest' \in 0..results, lcount' \in 0..Slots, mixed' \in BOOLEAN
      PROVE  TypeOK'
  <2>1. spoiled' \in BOOLEAN
    BY <1>5, Zenon DEF SequenceStore, Spoil
  <2>2. /\ wpc' = b /\ dseq' = n
        /\ UNCHANGED <<wseq, found, pending, results, dcount, boxes, persons,
                       cpc, zeroing, cells, starts, attempt, cbefore, ccount,
                       out, seen>>
        /\ UNCHANGED <<framed, fresh, seenClean>>
    BY <1>5, SequenceStored, Zenon DEF core
  <2>3. (framed \in BOOLEAN /\ fresh \in BOOLEAN /\ seenClean \in BOOLEAN)'
    BY <2>2, Zenon
  <2>4. wpc' \in {"off", "idle", "infer", "read", "zero_odd", "odd",
                  "zero_even", "even", "persons"}
    BY <1>5, <2>2
  <2>5. QED
    BY <1>5, <2>1, <2>2, <2>3, <2>4
<1>6. CASE ZeroOdd
  <2>1. mixed' \in BOOLEAN
    BY <1>6, Zenon DEF ZeroOdd
  <2>2. SequenceStore("zero_odd", "odd", 0) /\ UNCHANGED <<latest, lcount>>
    BY <1>6 DEF ZeroOdd
  <2>3. 0 \in 0..MaxSeq
    OBVIOUS
  <2>4. QED
    BY <1>5, <2>1, <2>2, <2>3
<1>7. CASE OddBytes
  <2>1. PICK b \in LowBytes[wseq + 1] : SequenceStore("odd", "odd", b)
    BY <1>7 DEF OddBytes
  <2>2. b \in 0..MaxSeq /\ UNCHANGED <<latest, lcount, mixed>>
    BY <1>7, Bytes DEF OddBytes
  <2>3. QED
    BY <1>5, <2>1, <2>2
<1>8. CASE WriteOdd
  <2>1. mixed' \in BOOLEAN
    BY <1>8, Zenon DEF WriteOdd
  <2>2. /\ SequenceStore("odd", "zero_even", wseq + 1)
        /\ UNCHANGED <<latest, lcount>> /\ wseq + 1 \in 0..MaxSeq
    BY <1>8 DEF WriteOdd
  <2>3. QED
    BY <1>5, <2>1, <2>2
<1>9. CASE ZeroEven
  <2>1. /\ SequenceStore("zero_even", "even", 0)
        /\ latest' \in 0..results /\ lcount' \in 0..Slots /\ UNCHANGED mixed
        /\ 0 \in 0..MaxSeq
    BY <1>9 DEF ZeroEven, Stored, Least
  <2>2. QED
    BY <1>5, <2>1
<1>10. CASE EvenBytes
  <2>1. PICK b \in LowBytes[wseq + 2] : SequenceStore("even", "even", b)
    BY <1>10 DEF EvenBytes
  <2>2. b \in 0..MaxSeq /\ UNCHANGED <<latest, lcount, mixed>>
    BY <1>10, Bytes DEF EvenBytes
  <2>3. QED
    BY <1>5, <2>1, <2>2
<1>11. CASE WriteEven
  <2>1. /\ SequenceStore("even", "persons", wseq + 2)
        /\ UNCHANGED <<latest, lcount, mixed>> /\ wseq + 2 \in 0..MaxSeq
    BY <1>11 DEF WriteEven
  <2>2. QED
    BY <1>5, <2>1
<1>12. ASSUME NEW i, PieceStore(i), dcount' \in 0..Slots,
              boxes' \in [Box -> 0..MaxResults]
       PROVE  TypeOK'
  <2>1. spoiled' \in BOOLEAN
    BY <1>12, Zenon DEF PieceStore, Spoil
  <2>2. /\ pending' = pending \ {i}
        /\ UNCHANGED <<wpc, wseq, found, results, dseq, persons, cpc, zeroing,
                       cells, starts, attempt, cbefore, ccount, out,
                       latest, lcount, seen>>
        /\ UNCHANGED <<framed, fresh, mixed, seenClean>>
    BY <1>12, PieceStored, Zenon DEF core
  <2>3. (framed \in BOOLEAN /\ fresh \in BOOLEAN /\ mixed \in BOOLEAN
         /\ seenClean \in BOOLEAN)'
    BY <2>2, Zenon
  <2>4. pending' \subseteq Piece
    BY <2>2
  <2>5. QED
    BY <1>12, <2>1, <2>2, <2>3, <2>4
<1>13. CASE WriteCount
  <2>1. PieceStore(0) /\ dcount' \in 0..Slots /\ UNCHANGED boxes
    BY <1>13 DEF WriteCount, Stored, Least
  <2>2. QED
    BY <1>12, <2>1
<1>14. CASE \E i \in Box : WriteBox(i)
  <2>1. PICK i \in Box : WriteBox(i)
    BY <1>14
  <2>2. /\ PieceStore(i) /\ UNCHANGED dcount
        /\ boxes' \in [Box -> 0..MaxResults]
    BY <2>1 DEF WriteBox
  <2>3. QED
    BY <1>12, <2>2
<1>15. CASE WritePersons
  <2>1. fresh' \in BOOLEAN
    BY <1>15, Zenon DEF WritePersons, EndCall
  <2>2. QED
    BY <1>15, <2>1 DEF WritePersons, EndCall, Reported, core
<1>16. CASE ShmInit
  <2>1. (fresh \in BOOLEAN /\ mixed \in BOOLEAN /\ seenClean \in BOOLEAN
         /\ framed \in BOOLEAN)'
    BY <1>16, Zenon DEF ShmInit, Writing
  <2>2. starts' \in 0..MaxStarts /\ latest' = 0 /\ lcount' = 0
    BY <1>16 DEF ShmInit, Writing
  <2>3. UNCHANGED <<vision, dseq, dcount, boxes, persons, attempt, cbefore,
                    ccount, out, spoiled>> /\ cpc' = "memset"
        /\ zeroing' = Fields /\ cells' = Box /\ seen' = Nothing
    BY <1>16 DEF ShmInit
  <2>4. QED
    BY <2>1, <2>2, <2>3 DEF vision
<1>17. CASE (\E f \in Fields : ZeroField(f)) \/ (\E i \in Box : ZeroBox(i))
  <2>1. CASE \E f \in Fields : ZeroField(f)
    BY <2>1 DEF ZeroField, vision, history
  <2>2. CASE \E i \in Box : ZeroBox(i)
    BY <2>2 DEF ZeroBox, vision, history
  <2>3. QED
    BY <1>17, <2>1, <2>2
<1>18. CASE Started
  <2>1. framed' \in BOOLEAN
    BY <1>18, Zenon DEF Started
  <2>2. QED
    BY <1>18, <2>1 DEF Started, vision, history
<1>19. ASSUME EndAttempt
       PROVE  (cbefore \in 0..MaxSeq /\ ccount \in 0..Slots
               /\ out \in [Box -> 0..MaxResults] /\ spoiled \in BOOLEAN)'
  <2>1. spoiled' \in BOOLEAN
    BY <1>19, Zenon DEF EndAttempt
  <2>2. QED
    BY <1>19, <2>1 DEF EndAttempt
<1>20. CASE CoreCrash
  BY <1>19, <1>20 DEF CoreCrash, vision, segment
<1>21. CASE Snapshot
  BY <1>21 DEF Snapshot, vision, segment, history
<1>22. CASE ReadBefore
  <2>1. spoiled' \in BOOLEAN
    BY <1>22, Zenon DEF ReadBefore, Ahead
  <2>2. /\ cpc = "before" /\ attempt < MaxAttempts /\ attempt' = attempt + 1
        /\ UNCHANGED <<vision, segment, zeroing, cells, starts, ccount, out,
                       latest, lcount, fresh, mixed, seen, seenClean>>
    BY <1>22, Zenon DEF ReadBefore
  <2>3. /\ cbefore' \in {cbefore, dseq}
        /\ cpc' \in {cpc, "count"}
    BY <1>22, Zenon DEF ReadBefore
  <2>4. QED
    BY <2>1, <2>2, <2>3 DEF vision, segment
<1>23. CASE ReadCount
  BY <1>23 DEF ReadCount, Least, vision, segment, history
<1>24. CASE \E i \in Box : CopyBox(i)
  BY <1>24 DEF CopyBox, vision, segment, history
<1>25. CASE Accept
  <2>1. seenClean' \in BOOLEAN
    BY <1>25, Zenon DEF Accept, Clean
  <2>2. /\ cpc' = "idle" /\ attempt' = 0 /\ seen' = Shown /\ EndAttempt
        /\ UNCHANGED <<vision, segment, zeroing, cells, starts,
                       latest, lcount, fresh, mixed>>
    BY <1>25, Zenon DEF Accept
  <2>3. Shown \in 0..results \cup {Torn, Nothing}
    BY DEF Shown
  <2>4. QED
    BY <1>19, <2>1, <2>2, <2>3, SMTT(40) DEF vision, segment
<1>26. CASE TryAgain
  <2>1. /\ cpc' = "before" /\ EndAttempt
        /\ UNCHANGED <<vision, segment, zeroing, cells, starts, attempt,
                       latest, lcount, fresh, mixed, seen, seenClean>>
    BY <1>26, Zenon DEF TryAgain
  <2>2. QED
    BY <1>19, <2>1, SMTT(40) DEF vision, segment
<1>27. CASE GiveUp
  <2>1. seenClean' \in BOOLEAN
    BY <1>27, Zenon DEF GiveUp
  <2>2. QED
    BY <1>27, <2>1 DEF GiveUp, vision, segment
<1>28. CASE UNCHANGED vars
  BY <1>28 DEF vars, vision, segment, core, history
<1>29. QED
  BY <1>1, <1>2, <1>3, <1>4, <1>6, <1>7, <1>8, <1>9, <1>10, <1>11, <1>13,
     <1>14, <1>15, <1>16, <1>17, <1>18, <1>20, <1>21, <1>22, <1>23, <1>24,
     <1>25, <1>26, <1>27, <1>28
  DEF Next, VisionStep, CoreStep

\* So does the first state.
LEMMA InitTypeOK == Init => TypeOK
<1> SUFFICES ASSUME Init PROVE TypeOK
  OBVIOUS
<1>1. /\ fresh \in BOOLEAN /\ mixed \in BOOLEAN /\ spoiled \in BOOLEAN
      /\ seenClean \in BOOLEAN /\ framed \in BOOLEAN
  BY Zenon DEF Init
<1>2. boxes \in [Box -> 0..MaxResults] /\ out \in [Box -> 0..MaxResults]
  BY BoundsAssumption DEF Init
<1>3. QED
  BY <1>1, <1>2, SlotsAssumption, MaxSeqAssumption, AttemptsAssumption,
     BoundsAssumption DEF Init, TypeOK, Piece

\* The type invariant, for every width, number of slots and bound.
THEOREM TypeCorrect == Spec => []TypeOK
BY InitTypeOK, TypeStep, PTL DEF Spec

----------------------------------------------------------------------------
\* The steps of the core outside the memset.
CoreCall == \/ Started \/ CoreCrash \/ Snapshot \/ ReadBefore \/ ReadCount
            \/ (\E i \in Box : CopyBox(i))
            \/ Accept \/ TryAgain \/ GiveUp

\* They leave vision and the detections alone.
LEMMA CoreCallKeeps ==
    ASSUME CoreCall
    PROVE  /\ UNCHANGED <<wpc, wseq, found, pending, results,
                          dseq, dcount, boxes, latest, lcount>>
           /\ UNCHANGED <<fresh, mixed>>
           /\ ~Zeroing'
<1>1. /\ UNCHANGED <<wpc, wseq, found, pending, results,
                     dseq, dcount, boxes, latest, lcount>>
      /\ UNCHANGED <<fresh, mixed>>
  BY Zenon DEF CoreCall, Started, CoreCrash, Snapshot, ReadBefore, ReadCount,
     CopyBox, Accept, TryAgain, GiveUp, vision, segment, history
<1>2. cpc' # "memset"
  <2>1. CASE Started
    BY <2>1 DEF Started
  <2>2. CASE CoreCrash
    BY <2>2 DEF CoreCrash
  <2>3. CASE Snapshot
    BY <2>3 DEF Snapshot
  <2>4. CASE ReadBefore
    <3>1. cpc = "before" /\ cpc' \in {cpc, "count"}
      BY <2>4, Zenon DEF ReadBefore
    <3>2. QED
      BY <3>1
  <2>5. CASE ReadCount
    BY <2>5 DEF ReadCount
  <2>6. CASE \E i \in Box : CopyBox(i)
    BY <2>6 DEF CopyBox
  <2>7. CASE Accept
    <3>1. cpc' = "idle"
      BY <2>7, Zenon DEF Accept
    <3>2. QED
      BY <3>1
  <2>8. CASE TryAgain \/ GiveUp
    BY <2>8 DEF TryAgain, GiveUp
  <2>9. QED
    BY <2>1, <2>2, <2>3, <2>4, <2>5, <2>6, <2>7, <2>8 DEF CoreCall
<1>3. QED
  BY <1>1, <1>2 DEF Zeroing

\* A step that leaves the call of set_detections alone keeps WriterInv.
LEMMA WriterKept ==
    ASSUME WriterInv, Zeroing' => Zeroing,
           UNCHANGED <<wpc, wseq, found, pending, results,
                       dseq, dcount, boxes, latest, lcount>>,
           UNCHANGED <<fresh, mixed>>
    PROVE  WriterInv'
<1>1. (fresh' <=> fresh) /\ (mixed' <=> mixed)
  BY Zenon
<1>2. QED
  BY <1>1 DEF WriterInv, Writing, Stored, Least, Even

\* Outside set_detections there is little to keep.
LEMMA WriterRests ==
    ASSUME wpc' \in {"off", "idle", "infer", "read"}, pending' = {},
           wpc' = "read" => latest' < results'
    PROVE  WriterInv'
BY DEF WriterInv, Writing

\* The pieces that are not pending show the result, the one just stored too.
LEMMA PieceShown ==
    ASSUME TypeOK, WriterInv, fresh,
           WriteCount \/ \E i \in Box : WriteBox(i)
    PROVE  /\ 0 \notin pending' => dcount' = Stored
           /\ \A j \in 1..Stored : j \notin pending' => boxes'[j] = results
<1>1. PICK i \in Piece :
        /\ PieceStore(i)
        /\ i = 0 => dcount' = Stored /\ UNCHANGED boxes
        /\ i > 0 => /\ boxes' = [boxes EXCEPT ![i] = IF i <= Stored
                                                    THEN results ELSE 0]
                    /\ UNCHANGED dcount
  BY SlotsAssumption DEF WriteCount, WriteBox, Box, Piece
<1>2. i \in pending /\ pending' = pending \ {i}
  BY <1>1, PieceStored
<1>3. /\ 0 \notin pending => dcount = Stored
      /\ \A j \in 1..Stored : j \notin pending => boxes[j] = results
  BY <1>2 DEF WriterInv, Writing
<1>4. 1..Stored \subseteq Box
  BY SlotsAssumption, CountsAssumption DEF Stored, Least, TypeOK, Box
<1>5. CASE i = 0
  BY <1>1, <1>2, <1>3, <1>4, <1>5 DEF Box
<1>6. CASE i > 0
  <2>1. /\ boxes' = [boxes EXCEPT ![i] = IF i <= Stored THEN results ELSE 0]
        /\ UNCHANGED dcount /\ i \in Box
    BY <1>1, <1>6, SlotsAssumption DEF Box, Piece
  <2>2. \A j \in 1..Stored : j = i => boxes'[j] = results
    BY <2>1 DEF TypeOK
  <2>3. \A j \in 1..Stored : j # i => boxes'[j] = boxes[j]
    BY <1>4, <2>1 DEF TypeOK
  <2>4. QED
    BY <1>2, <1>3, <1>6, <2>1, <2>2, <2>3
<1>7. QED
  BY <1>1, <1>5, <1>6, SlotsAssumption DEF Piece

\* What each store of vision leaves behind.
LEMMA WriterStep ==
    ASSUME TypeOK, TypeOK', WriterInv, [Next]_vars
    PROVE  WriterInv'
<1> USE SlotsAssumption, MaxSeqAssumption, BoundsAssumption DEF Box, Piece
<1>1. CASE CoreCall \/ UNCHANGED vars
  <2>1. /\ UNCHANGED <<wpc, wseq, found, pending, results,
                       dseq, dcount, boxes, latest, lcount>>
        /\ UNCHANGED <<fresh, mixed>>
    BY <1>1, CoreCallKeeps, Zenon DEF vars, vision, segment, history
  <2>2. Zeroing' => Zeroing
    BY <1>1, CoreCallKeeps DEF vars, core, Zeroing
  <2>3. QED
    BY <2>1, <2>2, WriterKept
<1>2. CASE (\E f \in Fields : ZeroField(f)) \/ (\E i \in Box : ZeroBox(i))
  <2>1. Zeroing
    BY <1>2 DEF ZeroField, ZeroBox, Zeroing
  <2>2. ~(Writing /\ fresh)
    BY <2>1 DEF WriterInv
  <2>3. /\ UNCHANGED <<wpc, wseq, pending, results, latest>>
        /\ UNCHANGED <<fresh, mixed>>
        /\ dseq' \in {dseq, 0}
    BY <1>2 DEF ZeroField, ZeroBox, vision, history
  <2>4. (fresh' <=> fresh) /\ (mixed' <=> mixed)
    BY <2>3, Zenon
  <2>5. ~(Writing' /\ fresh')
    BY <2>2, <2>3, <2>4 DEF Writing
  <2>6. Writing' => mixed'
    BY <2>2, <2>3, <2>4 DEF Writing, WriterInv
  <2>7. /\ Even(dseq)' <=> dseq' = 0 \/ Even(dseq)
        /\ Even(wseq)' <=> Even(wseq)
    BY <2>3 DEF Even
  <2>8. QED
    <3>1. dseq' >= 0 /\ dseq' <= dseq /\ wseq \in Nat /\ dseq \in Nat
      BY <2>3 DEF TypeOK
    <3>2. QED
      BY <2>3, <2>5, <2>6, <2>7, <3>1 DEF WriterInv
<1>3. CASE ShmInit
  <2>1. ~fresh' /\ (mixed' <=> Writing)
    BY <1>3, Zenon DEF ShmInit
  <2>2. UNCHANGED <<wpc, wseq, pending, results, dseq>> /\ latest' = 0
    BY <1>3, Zenon DEF ShmInit, vision
  <2>3. Writing' <=> Writing
    BY <2>2 DEF Writing
  <2>4. (Even(dseq)' <=> Even(dseq)) /\ (Even(wseq)' <=> Even(wseq))
    BY <2>2 DEF Even
  <2>5. QED
    BY <2>1, <2>2, <2>3, <2>4 DEF WriterInv, TypeOK
<1>4. CASE VisionOpen \/ TakeFrame \/ \E n \in Counts : Detect(n)
  <2>1. wpc \in {"off", "idle", "infer"} /\ wpc' \in {"idle", "infer", "read"}
    BY <1>4 DEF VisionOpen, TakeFrame, Detect
  <2>2. pending' = {}
    BY <1>4, <2>1 DEF VisionOpen, TakeFrame, Detect, WriterInv
  <2>3. wpc' = "read" => latest' < results'
    BY <1>4 DEF VisionOpen, TakeFrame, Detect, history, TypeOK
  <2>4. QED
    BY <2>1, <2>2, <2>3, WriterRests
<1>5. CASE VisionCrash \/ Overflow
  <2>1. Die
    BY <1>5 DEF VisionCrash, Overflow
  <2>2. wpc' = "off" /\ pending' = {}
    BY <2>1, Zenon DEF Die, EndCall
  <2>3. QED
    BY <2>2, WriterRests
<1>6. CASE WritePersons
  <2>1. wpc' = "idle" /\ pending' = {}
    BY <1>6, Zenon DEF WritePersons, EndCall
  <2>2. QED
    BY <2>1, WriterRests
<1>7. CASE ReadSequence
  <2>1. /\ wpc = "read" /\ wpc' = "zero_odd" /\ pending' = Piece
        /\ wseq' = EvenFrom(dseq) /\ UNCHANGED <<dseq, latest, results>>
        /\ UNCHANGED <<cpc, zeroing, cells>>
    BY <1>7, Zenon DEF ReadSequence, segment, core
  <2>2. (fresh' <=> ~Zeroing) /\ (mixed' <=> mixed \/ Zeroing)
    BY <1>7, Zenon DEF ReadSequence
  <2>3. Zeroing' <=> Zeroing
    BY <2>1 DEF Zeroing
  <2>4. dseq <= wseq' /\ Even(wseq')
    BY <2>1, Parity DEF TypeOK
  <2>5. 1..Stored' \subseteq Piece
    BY CountsAssumption DEF Stored, Least, TypeOK
  <2>6. Even(wseq)'
    BY <2>4 DEF Even
  <2>7. QED
    BY <2>1, <2>2, <2>3, <2>4, <2>5, <2>6 DEF WriterInv, Writing
<1>8. ASSUME NEW a, NEW b, NEW n, SequenceStore(a, b, n)
      PROVE  /\ wpc = a /\ wpc' = b /\ dseq' = n
             /\ UNCHANGED <<wseq, found, pending, results, dcount, boxes>>
             /\ fresh' <=> fresh
             /\ Zeroing' <=> Zeroing
             /\ Stored' = Stored
  <2>1. /\ wpc = a /\ wpc' = b /\ dseq' = n
        /\ UNCHANGED <<wseq, found, pending, results, dcount, boxes>>
        /\ UNCHANGED <<cpc, zeroing, cells>>
        /\ fresh' <=> fresh
    BY <1>8, SequenceStored, Zenon DEF core
  <2>2. QED
    BY <2>1 DEF Zeroing, Stored, Least
<1>9. CASE ZeroOdd
  <2>1. SequenceStore("zero_odd", "odd", 0) /\ UNCHANGED <<latest, lcount>>
    BY <1>9, Zenon DEF ZeroOdd
  <2>2. mixed => mixed'
    BY <1>9, Zenon DEF ZeroOdd
  <2>3. Even(wseq') <=> Even(wseq)
    BY <1>8, <2>1 DEF Even
  <2>4. /\ wpc = "zero_odd" /\ wpc' = "odd" /\ dseq' = 0
        /\ UNCHANGED <<wseq, found, pending, results, dcount, boxes>>
        /\ fresh' <=> fresh
        /\ Zeroing' <=> Zeroing
        /\ Stored' = Stored
    BY <1>8, <2>1
  <2>5. QED
    BY <2>1, <2>2, <2>3, <2>4 DEF WriterInv, Writing, TypeOK
<1>10. CASE OddBytes
  <2>1. PICK b \in LowBytes[wseq + 1] : SequenceStore("odd", "odd", b)
    BY <1>10 DEF OddBytes
  <2>2. /\ wseq + 1 \in 0..MaxSeq /\ UNCHANGED <<latest, lcount>>
        /\ mixed' <=> mixed
    BY <1>10 DEF OddBytes, TypeOK
  <2>3. b <= wseq + 1 /\ (Even(b) <=> Even(wseq + 1))
    BY <2>1, <2>2, Bytes
  <2>4. /\ wpc = "odd" /\ wpc' = "odd" /\ dseq' = b
        /\ UNCHANGED <<wseq, found, pending, results, dcount, boxes>>
        /\ fresh' <=> fresh
        /\ Zeroing' <=> Zeroing
        /\ Stored' = Stored
    BY <1>8, <2>1
  <2>5. Even(wseq) /\ ~Even(dseq') /\ (Even(wseq') <=> Even(wseq))
    BY <2>3, <2>4, Parity DEF WriterInv, TypeOK
  <2>6. Even(dseq)' <=> Even(dseq')
    BY DEF Even
  <2>7. QED
    BY <2>2, <2>3, <2>4, <2>5, <2>6 DEF WriterInv, Writing
<1>11. CASE WriteOdd
  <2>1. /\ SequenceStore("odd", "zero_even", wseq + 1)
        /\ UNCHANGED <<latest, lcount>>
    BY <1>11, Zenon DEF WriteOdd
  <2>2. mixed' <=> mixed /\ ~fresh
    BY <1>11, Zenon DEF WriteOdd
  <2>3. /\ wpc = "odd" /\ wpc' = "zero_even" /\ dseq' = wseq + 1
        /\ UNCHANGED <<wseq, found, pending, results, dcount, boxes>>
        /\ fresh' <=> fresh
        /\ Zeroing' <=> Zeroing
        /\ Stored' = Stored
    BY <1>8, <2>1
  <2>4. Even(wseq') <=> Even(wseq)
    BY <2>3 DEF Even
  <2>5. QED
    BY <2>1, <2>2, <2>3, <2>4 DEF WriterInv, Writing, TypeOK
<1>12. CASE ZeroEven
  <2>1. /\ SequenceStore("zero_even", "even", 0)
        /\ latest' = results /\ lcount' = Stored /\ (mixed' <=> mixed)
    BY <1>12 DEF ZeroEven
  <2>2. /\ wpc = "zero_even" /\ wpc' = "even" /\ dseq' = 0
        /\ UNCHANGED <<wseq, found, pending, results, dcount, boxes>>
        /\ fresh' <=> fresh
        /\ Zeroing' <=> Zeroing
        /\ Stored' = Stored
    BY <1>8, <2>1
  <2>3. Even(wseq') <=> Even(wseq)
    BY <2>2 DEF Even
  <2>4. Even(dseq')
    BY <2>2 DEF Even
  <2>5. Even(dseq)'
    BY <2>4 DEF Even
  <2>6. QED
    BY <2>1, <2>2, <2>3, <2>5 DEF WriterInv, Writing, TypeOK
<1>13. CASE EvenBytes
  <2>1. PICK b \in LowBytes[wseq + 2] : SequenceStore("even", "even", b)
    BY <1>13 DEF EvenBytes
  <2>2. /\ wseq + 2 \in 0..MaxSeq /\ UNCHANGED <<latest, lcount>>
        /\ mixed' <=> mixed
    BY <1>13 DEF EvenBytes, TypeOK
  <2>3. b <= wseq + 2 /\ (Even(b) <=> Even(wseq + 2))
    BY <2>1, <2>2, Bytes
  <2>4. /\ wpc = "even" /\ wpc' = "even" /\ dseq' = b
        /\ UNCHANGED <<wseq, found, pending, results, dcount, boxes>>
        /\ fresh' <=> fresh
        /\ Zeroing' <=> Zeroing
        /\ Stored' = Stored
    BY <1>8, <2>1
  <2>5. Even(wseq) /\ Even(dseq') /\ (Even(wseq') <=> Even(wseq))
    BY <2>3, <2>4, Parity DEF WriterInv, TypeOK
  <2>6. Even(dseq)' <=> Even(dseq')
    BY DEF Even
  <2>7. QED
    BY <2>2, <2>3, <2>4, <2>5, <2>6 DEF WriterInv, Writing
<1>14. CASE WriteEven
  <2>1. /\ SequenceStore("even", "persons", wseq + 2)
        /\ UNCHANGED <<latest, lcount>> /\ (mixed' <=> mixed)
    BY <1>14 DEF WriteEven
  <2>2. /\ wpc = "even" /\ wpc' = "persons"
        /\ UNCHANGED <<wseq, found, pending, results, dcount, boxes>>
        /\ fresh' <=> fresh
        /\ Zeroing' <=> Zeroing
        /\ Stored' = Stored
    BY <1>8, <2>1
  <2>3. QED
    BY <2>1, <2>2 DEF WriterInv, Writing
<1>15. CASE WriteCount \/ \E i \in Box : WriteBox(i)
  <2>1. PICK i \in Piece : PieceStore(i)
    BY <1>15 DEF WriteCount, WriteBox
  <2>2. /\ i \in pending /\ pending' = pending \ {i}
        /\ UNCHANGED <<wpc, wseq, found, results, dseq, latest, lcount,
                       cpc, zeroing, cells>>
        /\ (fresh' <=> fresh) /\ (mixed' <=> mixed)
    BY <2>1, PieceStored, Zenon DEF core
  <2>3. (Zeroing' <=> Zeroing) /\ Stored' = Stored
    BY <2>2 DEF Zeroing, Stored, Least
  <2>4. (Even(wseq)' <=> Even(wseq)) /\ (Even(dseq)' <=> Even(dseq))
    BY <2>2 DEF Even
  <2>5. Writing
    BY <2>2 DEF Writing
  <2>6. fresh => /\ 0 \notin pending' => dcount' = Stored
                 /\ \A j \in 1..Stored :
                       j \notin pending' => boxes'[j] = results
    BY <1>15, PieceShown
  <2>7. /\ wpc \notin {"off", "idle", "infer", "read"}
        /\ wpc \in {"zero_odd", "odd", "zero_even", "even"} => Writing'
    BY <2>2 DEF WriterInv, Writing
  <2>8. Writing' /\ ~mixed' => fresh'
    BY <2>2, <2>5 DEF WriterInv
  <2>9. QED
    BY <2>2, <2>3, <2>4, <2>5, <2>6, <2>7, <2>8 DEF WriterInv
<1>16. QED
  BY <1>1, <1>2, <1>3, <1>4, <1>5, <1>6, <1>7, <1>9, <1>10, <1>11, <1>12,
     <1>13, <1>14, <1>15 DEF Next, VisionStep, CoreStep, CoreCall

----------------------------------------------------------------------------
\* A step that leaves the detections alone, and no store ahead that was not,
\* keeps SegmentInv.
LEMMA SegmentKept ==
    ASSUME SegmentInv, mixed => mixed', Ahead => Ahead',
           UNCHANGED <<dseq, dcount, boxes, latest, lcount,
                       cpc, zeroing, cells>>
    PROVE  SegmentInv'
<1>1. (Zeroing' <=> Zeroing) /\ (Even(dseq)' <=> Even(dseq))
      /\ (Published' <=> Published)
  BY DEF Zeroing, Even, Published
<1>2. QED
  BY <1>1 DEF SegmentInv

\* Nothing is ahead while set_detections is not running or only begins.
LEMMA NotAhead ==
    /\ wpc \in {"off", "idle", "infer", "read", "zero_even"} => ~Ahead
    /\ wpc' \in {"off", "idle", "infer", "read", "zero_even"} => ~Ahead'
    /\ pending' = Piece /\ wpc' = "zero_odd" => ~Ahead'
BY DEF Ahead

\* Each step keeps the published result in the segment.
LEMMA SegmentStep ==
    ASSUME TypeOK, TypeOK', WriterInv, WriterInv', SegmentInv, [Next]_vars
    PROVE  SegmentInv'
<1>1. CASE UNCHANGED vars
  <2>1. /\ UNCHANGED <<dseq, dcount, boxes, latest, lcount,
                       cpc, zeroing, cells, wpc, pending>>
        /\ UNCHANGED mixed
    BY <1>1, Zenon DEF vars, vision, segment, core, history
  <2>2. mixed' <=> mixed
    BY <2>1, Zenon
  <2>3. Ahead' <=> Ahead
    BY <2>1 DEF Ahead
  <2>4. QED
    BY <2>1, <2>2, <2>3, SegmentKept
<1>2. CASE CoreCall
  <2>1. /\ UNCHANGED <<dseq, dcount, boxes, latest, lcount, wpc, pending>>
        /\ (mixed' <=> mixed) /\ ~Zeroing'
    BY <1>2, CoreCallKeeps
  <2>2. cpc' = "down" \/ (cpc # "down" /\ ~Zeroing)
    BY <1>2 DEF CoreCall, Started, CoreCrash, Snapshot, ReadBefore, ReadCount,
       CopyBox, Copied, Accept, TryAgain, GiveUp, Zeroing
  <2>3. (Ahead' <=> Ahead) /\ (Even(dseq)' <=> Even(dseq))
        /\ (Published' <=> Published)
    BY <2>1 DEF Ahead, Even, Published
  <2>4. QED
    BY <2>1, <2>2, <2>3 DEF SegmentInv
<1>3. CASE (\E f \in Fields : ZeroField(f)) \/ (\E i \in Box : ZeroBox(i))
  <2>1. /\ Zeroing /\ UNCHANGED lcount
        /\ "count" \notin zeroing' => "count" \notin zeroing \/ dcount' = 0
        /\ dcount' \in {dcount, 0} /\ cpc' = "memset"
    BY <1>3 DEF ZeroField, ZeroBox, Zeroing, history
  <2>2. mixed' <=> mixed
    BY <1>3 DEF ZeroField, ZeroBox, history
  <2>3. ~mixed => lcount' = 0 /\ ("count" \notin zeroing' => dcount' = 0)
    BY <2>1 DEF SegmentInv
  <2>4. ~Zeroing' => "count" \notin zeroing'
    BY <2>1 DEF Zeroing
  <2>5. lcount' = 0 /\ dcount' = 0 => Published'
    BY DEF Published
  <2>6. QED
    BY <2>2, <2>3, <2>4, <2>5 DEF SegmentInv
<1>4. CASE ShmInit
  <2>1. cpc' = "memset" /\ zeroing' = Fields /\ lcount' = 0
    BY <1>4, Zenon DEF ShmInit
  <2>2. Zeroing' /\ "count" \in zeroing'
    BY <2>1 DEF Zeroing, Fields
  <2>3. QED
    BY <2>1, <2>2 DEF SegmentInv
<1>5. CASE VisionOpen \/ TakeFrame \/ \E n \in Counts : Detect(n)
  <2>1. /\ UNCHANGED <<dseq, dcount, boxes, latest, lcount,
                       cpc, zeroing, cells>>
        /\ UNCHANGED mixed
        /\ wpc \in {"off", "idle", "infer"}
    BY <1>5 DEF VisionOpen, TakeFrame, Detect, segment, core, history
  <2>2. mixed' <=> mixed
    BY <2>1, Zenon
  <2>3. QED
    BY <2>1, <2>2, NotAhead, SegmentKept
<1>6. CASE VisionCrash \/ Overflow \/ WritePersons
  <2>1. /\ UNCHANGED <<dseq, dcount, boxes, latest, lcount,
                       cpc, zeroing, cells>>
        /\ UNCHANGED mixed
    BY <1>6, Zenon
    DEF VisionCrash, Overflow, Die, WritePersons, segment, core
  <2>2. ~Ahead
    <3>1. CASE VisionCrash \/ Overflow
      BY <3>1, Zenon DEF VisionCrash, Overflow, Die
    <3>2. CASE WritePersons
      <4>1. wpc = "persons" /\ pending = {}
        BY <3>2, Zenon DEF WritePersons
      <4>2. QED
        BY <4>1 DEF Ahead
    <3>3. QED
      BY <1>6, <3>1, <3>2
  <2>3. mixed' <=> mixed
    BY <2>1, Zenon
  <2>4. QED
    BY <2>1, <2>2, <2>3, SegmentKept
<1>7. CASE ReadSequence
  <2>1. /\ UNCHANGED <<dseq, dcount, boxes, latest, lcount,
                       cpc, zeroing, cells>>
        /\ wpc = "read" /\ (mixed => mixed')
    BY <1>7, Zenon DEF ReadSequence, segment, core
  <2>2. QED
    BY <2>1, NotAhead, SegmentKept
<1>8. ASSUME NEW a, NEW b, NEW n, SequenceStore(a, b, n),
             UNCHANGED <<latest, lcount>>, mixed => mixed'
      PROVE  /\ wpc = a /\ wpc' = b /\ dseq' = n
             /\ UNCHANGED <<wseq, pending>>
             /\ (Zeroing' <=> Zeroing) /\ (Published' <=> Published)
             /\ Zeroing' /\ ~mixed' => lcount' = 0
                                       /\ ("count" \notin zeroing' => dcount' = 0)
             /\ cpc' # "down" => cpc # "down"
  <2>1. /\ wpc = a /\ wpc' = b /\ dseq' = n
        /\ UNCHANGED <<wseq, pending, dcount, boxes, cpc, zeroing, cells>>
    BY <1>8, SequenceStored, Zenon DEF core
  <2>2. (Zeroing' <=> Zeroing) /\ (Published' <=> Published)
    BY <1>8, <2>1 DEF Zeroing, Published
  <2>3. QED
    BY <1>8, <2>1, <2>2 DEF SegmentInv
<1>9. CASE ZeroOdd
  <2>1. SequenceStore("zero_odd", "odd", 0) /\ UNCHANGED <<latest, lcount>>
    BY <1>9, Zenon DEF ZeroOdd
  <2>2. mixed' <=> mixed \/ ~Even(dseq)
    BY <1>9, Zenon DEF ZeroOdd
  <2>3. /\ wpc = "zero_odd" /\ wpc' = "odd" /\ UNCHANGED pending
        /\ (Zeroing' <=> Zeroing) /\ (Published' <=> Published)
        /\ Zeroing' /\ ~mixed' => lcount' = 0
                                  /\ ("count" \notin zeroing' => dcount' = 0)
        /\ cpc' # "down" => cpc # "down"
    BY <1>8, <2>1, <2>2
  <2>4. Ahead => Ahead'
    BY <2>3 DEF Ahead
  <2>5. QED
    BY <2>2, <2>3, <2>4 DEF SegmentInv
<1>10. CASE OddBytes
  <2>1. PICK b \in LowBytes[wseq + 1] : SequenceStore("odd", "odd", b)
    BY <1>10 DEF OddBytes
  <2>2. /\ wseq + 1 \in 0..MaxSeq /\ UNCHANGED <<latest, lcount>>
        /\ mixed' <=> mixed
    BY <1>10 DEF OddBytes, TypeOK
  <2>3. /\ wpc = "odd" /\ dseq' = b
        /\ Zeroing' /\ ~mixed' => lcount' = 0
                                  /\ ("count" \notin zeroing' => dcount' = 0)
    BY <1>8, <2>1, <2>2
  <2>4. ~Even(b)
    <3>1. Even(b) <=> Even(wseq + 1)
      BY <2>1, <2>2, Bytes
    <3>2. QED
      BY <2>3, <3>1, Parity DEF WriterInv, TypeOK
  <2>5. ~Even(dseq)'
    BY <2>3, <2>4 DEF Even
  <2>6. QED
    BY <2>3, <2>5 DEF SegmentInv
<1>11. CASE WriteOdd
  <2>1. /\ SequenceStore("odd", "zero_even", wseq + 1)
        /\ UNCHANGED <<latest, lcount>>
    BY <1>11, Zenon DEF WriteOdd
  <2>2. /\ wpc = "odd" /\ dseq' = wseq + 1 /\ wpc' = "zero_even"
        /\ UNCHANGED <<lcount, dcount, zeroing, wseq>>
        /\ Zeroing' <=> Zeroing
    <3>1. UNCHANGED <<dcount, cpc, zeroing, cells, wseq>>
      BY <2>1, SequenceStored, Zenon DEF core
    <3>2. QED
      BY <2>1, <3>1, SequenceStored DEF Zeroing
  <2>3. ~Even(wseq + 1)
    BY <2>2, Parity DEF WriterInv, TypeOK
  <2>4. ~Even(dseq)'
    BY <2>2, <2>3 DEF Even
  <2>5. ~(Zeroing' /\ ~mixed')
    BY <2>2 DEF WriterInv, Writing
  <2>6. QED
    BY <2>4, <2>5 DEF SegmentInv
<1>12. CASE ZeroEven
  <2>1. /\ SequenceStore("zero_even", "even", 0)
        /\ latest' = results /\ lcount' = Stored /\ (mixed' <=> mixed)
    BY <1>12 DEF ZeroEven
  <2>2. /\ wpc = "zero_even" /\ wpc' = "even"
        /\ UNCHANGED <<pending, results, dcount, boxes>>
    BY <2>1, SequenceStored
  <2>3. Writing /\ Writing'
    BY <2>2 DEF Writing
  <2>4. ~(Zeroing' /\ ~mixed')
    BY <2>3 DEF WriterInv
  <2>5. ASSUME ~mixed, ~Ahead' PROVE Published'
    <3>1. pending = {} /\ fresh
      BY <2>2, <2>3, <2>5 DEF Ahead, WriterInv
    <3>2. dcount = Stored /\ \A i \in 1..Stored : boxes[i] = results
      BY <2>3, <3>1 DEF WriterInv
    <3>3. QED
      BY <2>1, <2>2, <3>2 DEF Published
  <2>6. QED
    BY <2>1, <2>4, <2>5 DEF SegmentInv
<1>13. CASE EvenBytes \/ WriteEven
  <2>1. PICK b, n : SequenceStore("even", b, n) /\ b \in {"even", "persons"}
    BY <1>13 DEF EvenBytes, WriteEven
  <2>2. UNCHANGED <<latest, lcount>> /\ (mixed' <=> mixed)
    BY <1>13 DEF EvenBytes, WriteEven
  <2>3. /\ wpc = "even" /\ wpc' = b /\ UNCHANGED pending
        /\ (Zeroing' <=> Zeroing) /\ (Published' <=> Published)
        /\ Zeroing' /\ ~mixed' => lcount' = 0
                                  /\ ("count" \notin zeroing' => dcount' = 0)
        /\ cpc' # "down" => cpc # "down"
    BY <1>8, <2>1, <2>2
  <2>4. Ahead => Ahead'
    BY <2>1, <2>3 DEF Ahead
  <2>5. Even(dseq)
    BY <2>3 DEF WriterInv
  <2>6. QED
    BY <2>2, <2>3, <2>4, <2>5 DEF SegmentInv
<1>14. CASE WriteCount \/ \E i \in Box : WriteBox(i)
  <2>1. PICK i \in Piece : PieceStore(i)
    BY <1>14, SlotsAssumption DEF WriteCount, WriteBox, Box, Piece
  <2>2. /\ i \in pending /\ pending' = pending \ {i}
        /\ UNCHANGED <<wpc, wseq, found, results, dseq, latest, lcount,
                       cpc, zeroing, cells>>
        /\ (fresh' <=> fresh) /\ (mixed' <=> mixed)
    BY <2>1, PieceStored, Zenon DEF core
  <2>3. Writing /\ (Zeroing' <=> Zeroing) /\ (Even(dseq)' <=> Even(dseq))
    BY <2>2 DEF Zeroing, Writing, Even
  <2>4. ~mixed => fresh /\ ~Zeroing
    BY <2>3 DEF WriterInv
  <2>5. ASSUME ~mixed, ~Ahead', Even(dseq) PROVE Published'
    <3>1. wpc # "zero_even"
      BY <2>3, <2>4, <2>5, Parity DEF WriterInv, TypeOK
    <3>2. wpc \notin {"zero_odd", "odd"}
      BY <2>1, <2>2, <2>5 DEF Ahead, Piece
    <3>3. wpc \in {"even", "persons"}
      BY <2>2, <3>1, <3>2 DEF WriterInv, TypeOK
    <3>4. pending' = {}
      BY <2>2, <2>5, <3>3 DEF Ahead
    <3>5. latest = results /\ lcount = Stored
      BY <2>3, <2>4, <2>5, <3>3 DEF WriterInv
    <3>6. dcount' = Stored /\ \A j \in 1..Stored : boxes'[j] = results
      BY <1>14, <2>4, <2>5, <3>4, PieceShown
    <3>7. QED
      BY <2>2, <3>5, <3>6 DEF Published
  <2>6. QED
    BY <2>2, <2>3, <2>4, <2>5 DEF SegmentInv
<1>15. QED
  BY <1>1, <1>2, <1>3, <1>4, <1>5, <1>6, <1>7, <1>9, <1>10, <1>11, <1>12,
     <1>13, <1>14 DEF Next, VisionStep, CoreStep, CoreCall

----------------------------------------------------------------------------
\* A copy under one sequence: what a step of vision must leave alone.
LEMMA SnapshotKept ==
    ASSUME TypeOK, TypeOK', SnapshotInv, UNCHANGED core, Target <= Target',
           Reading /\ cbefore # 0 /\ ~spoiled' => ~spoiled /\ ~Ahead',
           Even(cbefore) /\ cbefore # 0 /\ cbefore = Target' /\ ~spoiled'
               /\ ~mixed' /\ cpc = "copy"
             => ~mixed /\ UNCHANGED <<dcount, boxes>>
    PROVE  SnapshotInv'
<1>1. /\ UNCHANGED <<cpc, cbefore, ccount, out, cells>>
      /\ Reading' <=> Reading
      /\ Even(cbefore)' <=> Even(cbefore)
  BY DEF core, Reading, Even
<1>2. /\ Target \in Int /\ Target' \in Int /\ cbefore \in Int
  BY MaxSeqAssumption DEF TypeOK, Target
<1>3. ASSUME Reading, cbefore # 0, ~spoiled'
      PROVE  ~Ahead' /\ cbefore <= Target' /\ cbefore <= Target /\ ~spoiled
  BY <1>2, <1>3 DEF SnapshotInv
<1>4. ASSUME cpc = "copy", cbefore # 0, ~spoiled', ~mixed', cbefore = Target'
      PROVE  /\ ccount = dcount'
             /\ \A i \in (1..ccount) \ cells : out[i] = boxes'[i]
  <2>1. Reading /\ Even(cbefore)
    BY <1>4 DEF SnapshotInv, Reading
  <2>2. ~spoiled /\ cbefore = Target
    BY <1>2, <1>3, <1>4, <2>1
  <2>3. ~mixed /\ UNCHANGED <<dcount, boxes>>
    BY <1>4, <2>1
  <2>4. QED
    BY <1>4, <2>2, <2>3 DEF SnapshotInv
<1>5. Reading => Even(cbefore)
  BY DEF SnapshotInv
<1>6. QED
  BY <1>1, <1>3, <1>4, <1>5 DEF SnapshotInv

\* The number that vision stores last grows with each store.
LEMMA TargetGrows ==
    ASSUME TypeOK, WriterInv,
           ZeroOdd \/ OddBytes \/ WriteOdd \/ ZeroEven \/ EvenBytes \/ WriteEven
    PROVE  Target <= Target'
<1>1. dseq \in Int /\ wseq \in Int
  BY DEF TypeOK
<1>2. CASE ZeroOdd
  <2>1. wpc = "zero_odd" /\ wpc' = "odd" /\ UNCHANGED wseq
    BY <1>2, SequenceStored DEF ZeroOdd
  <2>2. QED
    BY <1>1, <2>1 DEF WriterInv, Target
<1>3. CASE OddBytes
  <2>1. wpc = "odd" /\ wpc' = "odd" /\ UNCHANGED wseq
    BY <1>3, SequenceStored DEF OddBytes
  <2>2. QED
    BY <1>1, <2>1 DEF Target
<1>4. CASE WriteOdd
  <2>1. wpc = "odd" /\ wpc' = "zero_even" /\ dseq' = wseq + 1
    BY <1>4, SequenceStored DEF WriteOdd
  <2>2. QED
    BY <1>1, <2>1 DEF Target
<1>5. CASE ZeroEven
  <2>1. wpc = "zero_even" /\ wpc' = "even" /\ UNCHANGED wseq
    BY <1>5, SequenceStored DEF ZeroEven
  <2>2. QED
    BY <1>1, <2>1 DEF WriterInv, Target
<1>6. CASE EvenBytes
  <2>1. wpc = "even" /\ wpc' = "even" /\ UNCHANGED wseq
    BY <1>6, SequenceStored DEF EvenBytes
  <2>2. QED
    BY <1>1, <2>1 DEF Target
<1>7. CASE WriteEven
  <2>1. wpc = "even" /\ wpc' = "persons" /\ dseq' = wseq + 2
    BY <1>7, SequenceStored DEF WriteEven
  <2>2. QED
    BY <1>1, <2>1 DEF Target
<1>8. QED
  BY <1>2, <1>3, <1>4, <1>5, <1>6, <1>7

\* A store made while the core reads, and which leaves its attempt unspoiled,
\* is not ahead of another.
LEMMA StoreSpoils ==
    (\E a, b, n : SequenceStore(a, b, n)) \/ (\E i \in Piece : PieceStore(i))
        => (Reading /\ ~spoiled' => ~spoiled /\ ~Ahead')
<1>1. ASSUME NEW a, NEW b, NEW n, SequenceStore(a, b, n)
      PROVE  Reading /\ ~spoiled' => ~spoiled /\ ~Ahead'
  BY <1>1, Zenon DEF SequenceStore, Spoil
<1>2. ASSUME NEW i, PieceStore(i)
      PROVE  Reading /\ ~spoiled' => ~spoiled /\ ~Ahead'
  BY <1>2, Zenon DEF PieceStore, Spoil
<1>3. QED
  BY <1>1, <1>2

\* A step after which the core is not between its two looks at the sequence.
LEMMA NotReading == ~Reading' => SnapshotInv'
BY DEF SnapshotInv, Reading

\* Each step keeps what an attempt of the core relies on.
LEMMA SnapshotStep ==
    ASSUME TypeOK, TypeOK', WriterInv, SnapshotInv, [Next]_vars
    PROVE  SnapshotInv'
<1>1. CASE \/ ShmInit \/ (\E f \in Fields : ZeroField(f))
           \/ (\E i \in Box : ZeroBox(i))
  <2>1. cpc' = "memset"
    BY <1>1, Zenon DEF ShmInit, ZeroField, ZeroBox
  <2>2. QED
    BY <2>1, NotReading DEF Reading
<1>2. CASE Started \/ CoreCrash \/ Snapshot \/ Accept \/ TryAgain \/ GiveUp
  <2>1. cpc' \in {"down", "idle", "before"}
    <3>1. \/ cpc' = "down" \/ cpc' = "idle" \/ cpc' = "before"
      BY <1>2, Zenon DEF Started, CoreCrash, Snapshot, Accept, TryAgain, GiveUp
    <3>2. QED
      BY <3>1
  <2>2. QED
    BY <2>1, NotReading DEF Reading
<1>3. CASE UNCHANGED vars
  <2>1. /\ UNCHANGED <<cpc, cbefore, ccount, out, cells, wpc, wseq, pending,
                       dseq, dcount, boxes>>
        /\ UNCHANGED <<mixed, spoiled>>
    BY <1>3, Zenon DEF vars, vision, segment, core, history
  <2>2. (mixed' <=> mixed) /\ (spoiled' <=> spoiled)
    BY <2>1, Zenon
  <2>3. QED
    BY <2>1, <2>2 DEF SnapshotInv, Reading, Ahead, Target, Even
<1>4. CASE ReadBefore
  <2>1. UNCHANGED <<wpc, wseq, pending, dseq>> /\ cpc = "before"
    BY <1>4, Zenon DEF ReadBefore, vision, segment
  <2>2. CASE Even(dseq)
    <3>1. cbefore' = dseq /\ cpc' = "count" /\ (spoiled' <=> Ahead)
      BY <1>4, <2>2, Zenon DEF ReadBefore
    <3>2. Ahead' <=> Ahead
      BY <2>1 DEF Ahead
    <3>3. cbefore' <= Target'
      BY <2>1, <3>1 DEF TypeOK, WriterInv, Target
    <3>4. Even(cbefore)'
      BY <2>2, <3>1 DEF Even
    <3>5. QED
      BY <3>1, <3>2, <3>3, <3>4 DEF SnapshotInv
  <2>3. CASE ~Even(dseq)
    <3>1. cpc' = cpc
      BY <1>4, <2>3, Zenon DEF ReadBefore
    <3>2. QED
      BY <2>1, <3>1, NotReading DEF Reading
  <2>4. QED
    BY <2>2, <2>3
<1>5. CASE ReadCount \/ \E i \in Box : CopyBox(i)
  <2>1. /\ UNCHANGED <<cbefore, wpc, wseq, pending, dseq, dcount, boxes>>
        /\ UNCHANGED <<mixed, spoiled>>
    BY <1>5, Zenon DEF ReadCount, CopyBox, vision, segment, history
  <2>2. (mixed' <=> mixed) /\ (spoiled' <=> spoiled)
    BY <2>1, Zenon
  <2>3. Reading /\ Reading' /\ cpc' = "copy"
    BY <1>5 DEF ReadCount, CopyBox, Reading
  <2>4. (Ahead' <=> Ahead) /\ Target' = Target
        /\ (Even(cbefore)' <=> Even(cbefore))
    BY <2>1 DEF Ahead, Target, Even
  <2>5. CASE ReadCount
    <3>1. ccount' = dcount /\ cells' = 1..dcount
      BY <2>5 DEF ReadCount, Least, TypeOK
    <3>2. QED
      BY <2>1, <2>2, <2>3, <2>4, <3>1 DEF SnapshotInv
  <2>6. CASE \E i \in Box : CopyBox(i)
    <3>1. PICK i \in Box : CopyBox(i)
      BY <2>6
    <3>2. /\ cpc = "copy" /\ i \in cells /\ cells' = cells \ {i}
          /\ out' = [out EXCEPT ![i] = boxes[i]] /\ UNCHANGED ccount
      BY <3>1 DEF CopyBox
    <3>3. \A j \in (1..ccount) \ cells' :
            out'[j] = IF j = i THEN boxes[j] ELSE out[j]
      <4>1. ccount \in 0..Slots /\ out \in [Box -> 0..MaxResults]
        BY DEF TypeOK
      <4>2. 1..ccount \subseteq Box
        BY <4>1, SlotsAssumption DEF Box
      <4>3. \A j \in Box : out'[j] = IF j = i THEN boxes[j] ELSE out[j]
        BY <3>2, <4>1
      <4>4. QED
        BY <4>2, <4>3
    <3>4. QED
      BY <2>1, <2>2, <2>3, <2>4, <3>2, <3>3 DEF SnapshotInv
  <2>7. QED
    BY <1>5, <2>5, <2>6
<1>6. CASE VisionCrash \/ Overflow
  <2>1. Die
    BY <1>6 DEF VisionCrash, Overflow
  <2>2. UNCHANGED <<cpc, cbefore>> /\ (spoiled' <=> Reading)
    BY <2>1, Zenon DEF Die, core
  <2>3. QED
    BY <2>2 DEF SnapshotInv, Reading, Even
<1>7. CASE VisionOpen \/ TakeFrame \/ (\E n \in Counts : Detect(n))
           \/ ReadSequence \/ WritePersons
  <2>1. /\ UNCHANGED core /\ UNCHANGED <<dseq, dcount, boxes>>
        /\ UNCHANGED spoiled /\ (mixed => mixed')
        /\ wpc # "odd" /\ wpc # "even"
    <3>1. CASE VisionOpen \/ TakeFrame \/ (\E n \in Counts : Detect(n))
      BY <3>1 DEF VisionOpen, TakeFrame, Detect, segment, history
    <3>2. CASE ReadSequence
      <4>1. wpc = "read"
        BY <3>2, Zenon DEF ReadSequence
      <4>2. /\ UNCHANGED core /\ UNCHANGED <<dseq, dcount, boxes>>
            /\ UNCHANGED spoiled /\ (mixed => mixed')
        BY <3>2, Zenon DEF ReadSequence, segment
      <4>3. QED
        BY <4>1, <4>2
    <3>3. CASE WritePersons
      <4>1. wpc = "persons"
        BY <3>3, Zenon DEF WritePersons
      <4>2. /\ UNCHANGED core /\ UNCHANGED <<dseq, dcount, boxes>>
            /\ UNCHANGED spoiled /\ (mixed => mixed')
        BY <3>3, Zenon DEF WritePersons
      <4>3. QED
        BY <4>1, <4>2
    <3>4. QED
      BY <1>7, <3>1, <3>2, <3>3
  <2>2. \/ wpc' \in {"idle", "infer", "read"}
        \/ wpc' = "zero_odd" /\ pending' = Piece
    BY <1>7, Zenon DEF VisionOpen, TakeFrame, Detect, ReadSequence, WritePersons
  <2>3. ~Ahead' /\ Target' = Target
    BY <2>1, <2>2, NotAhead DEF Target
  <2>4. spoiled' <=> spoiled
    BY <2>1, Zenon
  <2>5. Target <= Target'
    <3>1. dseq \in Int /\ Target = dseq
      BY <2>1 DEF TypeOK, Target
    <3>2. QED
      BY <2>3, <3>1
  <2>6. QED
    BY <2>1, <2>3, <2>4, <2>5, SnapshotKept
<1>8. CASE ZeroOdd \/ OddBytes \/ ZeroEven \/ EvenBytes \/ WriteEven
  <2>1. PICK a, b, n : SequenceStore(a, b, n)
    BY <1>8 DEF ZeroOdd, OddBytes, ZeroEven, EvenBytes, WriteEven
  <2>2. mixed => mixed'
    BY <1>8, Zenon DEF ZeroOdd, OddBytes, ZeroEven, EvenBytes, WriteEven
  <2>3. UNCHANGED core /\ UNCHANGED <<dcount, boxes>>
    BY <2>1, SequenceStored
  <2>4. Reading /\ ~spoiled' => ~spoiled /\ ~Ahead'
    BY <2>1, StoreSpoils
  <2>5. Target <= Target'
    BY <1>8, TargetGrows
  <2>6. QED
    BY <2>2, <2>3, <2>4, <2>5, SnapshotKept
<1>9. CASE WriteOdd
  <2>1. SequenceStore("odd", "zero_even", wseq + 1)
    BY <1>9, Zenon DEF WriteOdd
  <2>2. /\ wpc = "odd" /\ wpc' = "zero_even" /\ dseq' = wseq + 1
        /\ UNCHANGED core
    BY <2>1, SequenceStored
  <2>3. Reading /\ ~spoiled' => ~spoiled /\ ~Ahead'
    BY <2>1, StoreSpoils
  <2>4. Target <= Target'
    BY <1>9, TargetGrows
  <2>5. Target' = wseq + 1 /\ ~Even(wseq + 1)
    BY <2>2, Parity DEF WriterInv, TypeOK, Target
  <2>6. ~(Even(cbefore) /\ cbefore = Target')
    BY <2>5
  <2>7. QED
    BY <2>2, <2>3, <2>4, <2>6, SnapshotKept
<1>10. CASE WriteCount \/ \E i \in Box : WriteBox(i)
  <2>1. PICK i \in Piece : PieceStore(i)
    BY <1>10, SlotsAssumption DEF WriteCount, WriteBox, Box, Piece
  <2>2. /\ i \in pending /\ pending' = pending \ {i}
        /\ UNCHANGED <<wpc, wseq, dseq>> /\ UNCHANGED core
        /\ mixed' <=> mixed
    BY <2>1, PieceStored, Zenon
  <2>3. Reading /\ ~spoiled' => ~spoiled /\ ~Ahead'
    BY <2>1, StoreSpoils
  <2>4. Target' = Target /\ Target <= Target'
    BY <2>2, MaxSeqAssumption DEF TypeOK, Target
  <2>5. ASSUME Reading, Even(cbefore), cbefore # 0, ~spoiled', ~mixed'
        PROVE  cbefore # Target'
    <3>1. ~Ahead /\ ~Ahead'
      BY <2>3, <2>5 DEF SnapshotInv
    <3>2. wpc = "zero_even"
      BY <2>1, <2>2, <3>1 DEF Ahead, Piece, WriterInv, TypeOK
    <3>3. dseq = wseq + 1 /\ Even(wseq)
      BY <2>2, <2>5, <3>2 DEF WriterInv, Writing
    <3>4. ~Even(Target)
      BY <3>2, <3>3, Parity DEF Target, TypeOK
    <3>5. QED
      BY <2>4, <2>5, <3>4
  <2>6. cpc = "copy" => Reading
    BY DEF Reading
  <2>7. QED
    BY <2>2, <2>3, <2>4, <2>5, <2>6, SnapshotKept
<1>11. QED
  BY <1>1, <1>2, <1>3, <1>4, <1>5, <1>6, <1>7, <1>8, <1>9, <1>10
  DEF Next, VisionStep, CoreStep


----------------------------------------------------------------------------
\* What a clean attempt that the core accepts shows.
LEMMA AcceptShows ==
    ASSUME IInv, Copied, SameSequence, Clean
    PROVE  Shown = latest
<1>1. cpc = "copy" /\ cells = {} /\ dseq = cbefore /\ dseq # 0
  BY DEF Copied, SameSequence, Clean
<1>2. ~mixed /\ ~spoiled /\ (wpc = "even" => dseq = wseq + 2)
  BY DEF Clean
<1>3. Even(cbefore) /\ ~Ahead
  BY <1>1, <1>2 DEF IInv, SnapshotInv, Reading
<1>4. wpc # "odd"
  BY <1>1, <1>3 DEF IInv, WriterInv
<1>5. cbefore = Target
  BY <1>1, <1>2, <1>4 DEF Target
<1>6. ccount = dcount /\ \A i \in 1..ccount : out[i] = boxes[i]
  BY <1>1, <1>2, <1>5 DEF IInv, SnapshotInv
<1>7. Published
  BY <1>1, <1>2, <1>3 DEF IInv, SegmentInv, Zeroing
<1>8. QED
  BY <1>6, <1>7 DEF Published, Shown

\* What the steps that are not of the core's snapshots leave alone.
LEMMA SeenSteps ==
    ASSUME [Next]_vars
    PROVE  Accept \/ GiveUp \/ ShmInit \/ UNCHANGED <<seen, seenClean>>
<1>1. CASE VisionStep
  <2>1. CASE ZeroOdd \/ OddBytes \/ WriteOdd \/ ZeroEven \/ EvenBytes \/ WriteEven
    BY <2>1, SequenceStored
    DEF ZeroOdd, OddBytes, WriteOdd, ZeroEven, EvenBytes, WriteEven
  <2>2. CASE WriteCount \/ \E i \in Box : WriteBox(i)
    BY <2>2, PieceStored DEF WriteCount, WriteBox
  <2>3. CASE TakeFrame \/ ReadSequence \/ Overflow \/ WritePersons
    BY <2>3, Zenon DEF TakeFrame, ReadSequence, Overflow, Die, WritePersons,
                       history
  <2>4. QED
    BY <1>1, <2>1, <2>2, <2>3 DEF VisionStep
<1>2. CASE CoreStep
  BY <1>2, Zenon DEF CoreStep, ZeroField, ZeroBox, CopyBox, Started, Snapshot,
                     ReadBefore, ReadCount, TryAgain, history
<1>3. CASE VisionOpen \/ VisionCrash \/ (\E n \in Counts : Detect(n))
           \/ CoreCrash \/ UNCHANGED vars
  BY <1>3, Zenon DEF VisionOpen, VisionCrash, Die, Detect, CoreCrash,
                     history, vars
<1>4. QED
  BY <1>1, <1>2, <1>3 DEF Next

\* The last snapshot is whole after each step.
LEMMA WholeStep ==
    ASSUME IInv, [Next]_vars
    PROVE  WholeSnapshot'
<1>1. CASE Accept
  <2>1. Copied /\ SameSequence /\ seen' = Shown
    BY <1>1 DEF Accept
  <2>2. seenClean' <=> Clean
    BY <1>1, Zenon DEF Accept
  <2>3. Clean => Shown = latest
    BY <2>1, AcceptShows
  <2>4. latest # Torn
    BY DEF IInv, TypeOK, Torn
  <2>5. QED
    BY <2>1, <2>2, <2>3, <2>4 DEF WholeSnapshot
<1>2. CASE GiveUp
  BY <1>2, Zenon DEF GiveUp, WholeSnapshot
<1>3. CASE ShmInit
  BY <1>3, Zenon DEF ShmInit, WholeSnapshot
<1>4. CASE UNCHANGED <<seen, seenClean>>
  <2>1. WholeSnapshot
    BY Zenon DEF IInv
  <2>2. QED
    BY <1>4, <2>1, Zenon DEF WholeSnapshot
<1>5. QED
  BY <1>1, <1>2, <1>3, <1>4, SeenSteps

\* The inductive invariant.
THEOREM Inductive == Spec => []IInv
<1>1. Init => IInv
  <2> SUFFICES ASSUME Init PROVE IInv
    OBVIOUS
  <2>1. TypeOK
    BY InitTypeOK
  <2>2. wpc = "off" /\ cpc = "down" /\ pending = {} /\ latest = 0
    BY Zenon DEF Init
  <2>3. ~seenClean
    BY Zenon DEF Init
  <2>4. WriterInv
    BY <2>2 DEF WriterInv, Writing
  <2>5. SegmentInv /\ SnapshotInv
    BY <2>2 DEF SegmentInv, SnapshotInv, Zeroing, Reading
  <2>6. WholeSnapshot
    BY <2>3, Zenon DEF WholeSnapshot
  <2>7. QED
    BY <2>1, <2>4, <2>5, <2>6 DEF IInv
<1>2. IInv /\ [Next]_vars => IInv'
  <2> SUFFICES ASSUME IInv, [Next]_vars PROVE IInv'
    OBVIOUS
  <2>1. TypeOK'
    BY TypeStep DEF IInv
  <2>2. WriterInv'
    BY <2>1, WriterStep DEF IInv
  <2>3. SegmentInv'
    BY <2>1, <2>2, SegmentStep DEF IInv
  <2>4. SnapshotInv'
    BY <2>1, SnapshotStep DEF IInv
  <2>5. QED
    BY <2>1, <2>2, <2>3, <2>4, WholeStep DEF IInv
<1>3. QED
  BY <1>1, <1>2, PTL DEF Spec

\* What camera_get_detections accepts under a sequence that vision stored whole
\* is one whole result, the last one.
THEOREM SnapshotsAreWhole == Spec => []WholeSnapshot
<1>1. IInv => WholeSnapshot
  BY DEF IInv
<1>2. QED
  BY <1>1, Inductive, PTL

----------------------------------------------------------------------------
\* What the steps that do not publish leave alone.
LEMMA LatestSteps ==
    ASSUME [Next]_vars
    PROVE  ZeroEven \/ ShmInit \/ UNCHANGED latest
<1>1. CASE VisionStep
  <2>1. CASE WriteCount \/ \E i \in Box : WriteBox(i)
    BY <2>1, PieceStored DEF WriteCount, WriteBox
  <2>2. CASE OddBytes \/ WriteOdd \/ ZeroOdd \/ EvenBytes \/ WriteEven
    BY <2>2, Zenon DEF OddBytes, WriteOdd, ZeroOdd, EvenBytes, WriteEven
  <2>3. CASE TakeFrame \/ ReadSequence \/ Overflow \/ WritePersons
    BY <2>3, Zenon DEF TakeFrame, ReadSequence, Overflow, Die, WritePersons,
                       history
  <2>4. QED
    BY <1>1, <2>1, <2>2, <2>3 DEF VisionStep
<1>2. CASE CoreStep
  BY <1>2, Zenon DEF CoreStep, ZeroField, ZeroBox, CopyBox, Started, Snapshot,
                     ReadBefore, ReadCount, Accept, TryAgain, GiveUp, history
<1>3. CASE VisionOpen \/ VisionCrash \/ (\E n \in Counts : Detect(n))
           \/ CoreCrash \/ UNCHANGED vars
  BY <1>3, Zenon DEF VisionOpen, VisionCrash, Die, Detect, CoreCrash,
                     history, vars
<1>4. QED
  BY <1>1, <1>2, <1>3 DEF Next

\* The exchange implements the register: the zero that opens the store of the
\* even sequence publishes, an accepted snapshot reads, one given up or not
\* clean forgets, and a memset restarts.
THEOREM ImplementsTheRegister == Spec => ImplementsRegister
<1>1. Init => Register!Init
  <2>1. Init => ~seenClean
    BY Zenon DEF Init
  <2>2. QED
    BY <2>1 DEF Init, Register!Init, Register!Blank, Nothing,
                Register!Nothing
<1>2. IInv /\ [Next]_vars => [Register!Next]_Register!vars
  <2> SUFFICES ASSUME IInv, [Next]_vars
               PROVE  [Register!Next]_Register!vars
    OBVIOUS
  <2>1. CASE ShmInit
    <3>1. latest' = 0 /\ ~seenClean'
      BY <2>1, Zenon DEF ShmInit
    <3>2. Register!Restart
      BY <3>1 DEF Register!Restart, Register!Blank, Nothing, Register!Nothing
    <3>3. QED
      BY <3>2 DEF Register!Next
  <2>2. CASE ZeroEven
    <3>1. latest' = results /\ wpc = "zero_even"
      BY <2>2, SequenceStored DEF ZeroEven
    <3>2. UNCHANGED <<seen, seenClean>>
      BY <2>2, SequenceStored DEF ZeroEven
    <3>3. results > latest /\ results \in Nat
      BY <3>1, BoundsAssumption DEF IInv, WriterInv, TypeOK
    <3>4. Register!Publish
      BY <3>1, <3>2, <3>3 DEF Register!Publish
    <3>5. QED
      BY <3>4 DEF Register!Next
  <2>3. CASE Accept
    <3>1. Copied /\ SameSequence /\ seen' = Shown /\ UNCHANGED latest
      BY <2>3 DEF Accept
    <3>2. seenClean' <=> Clean
      BY <2>3, Zenon DEF Accept
    <3>3. CASE Clean
      <4>1. seen' = latest
        BY <3>1, <3>3, AcceptShows
      <4>2. seenClean'
        BY <3>2, <3>3
      <4>3. Register!Read
        BY <3>1, <4>1, <4>2 DEF Register!Read
      <4>4. QED
        BY <4>3 DEF Register!Next
    <3>4. CASE ~Clean
      <4>1. ~seenClean'
        BY <3>2, <3>4
      <4>2. Register!Forget
        BY <3>1, <4>1 DEF Register!Forget, Nothing, Register!Nothing
      <4>3. QED
        BY <4>2 DEF Register!Next
    <3>5. QED
      BY <3>3, <3>4
  <2>4. CASE GiveUp
    <3>1. ~seenClean' /\ UNCHANGED latest
      BY <2>4, Zenon DEF GiveUp
    <3>2. Register!Forget
      BY <3>1 DEF Register!Forget, Nothing, Register!Nothing
    <3>3. QED
      BY <3>2 DEF Register!Next
  <2>5. CASE UNCHANGED <<latest, seen, seenClean>>
    BY <2>5 DEF Register!vars
  <2>6. QED
    BY <2>1, <2>2, <2>3, <2>4, <2>5, SeenSteps, LatestSteps
<1>3. QED
  BY <1>1, <1>2, Inductive, PTL DEF Spec, ImplementsRegister, Register!Spec
============================================================================
