--------------------------- MODULE HistoryProofs ---------------------------
(* History for every window size, number of additions and of starts.        *)
EXTENDS History, TLAPS

\* The records of a window are additions that were made.
Made(w) == \A i \in Slot : w[i] <= adds

WindowInv ==
    /\ Made(history)
    \* What is not counted is blank.
    /\ \A i \in Slot : i > count => history[i] = 0
    \* The record about to be saved is the newest.
    /\ pc = "opened" => count \in Slot /\ history[count] = adds

FileInv ==
    /\ Made(saved)
    /\ newest <= adds
    \* What a reader got is not newer than the file it got it from.
    /\ file = "full" => \E i \in Slot : saved[i] >= newest

IInv == TypeOK /\ RecordsInOrder /\ RunIsRecent /\ WindowInv /\ FileInv

----------------------------------------------------------------------------
\* The window after an addition, in the two ways history_add makes it.
LEMMA AfterRemember ==
    ASSUME TypeOK, Remember
    PROVE  /\ adds' = adds + 1 /\ adds' \in Records
           /\ count' \in Slot
           /\ history' \in [Slot -> Records]
           /\ history'[count'] = adds + 1
           /\ \/ /\ count < Max /\ count' = count + 1
                 /\ \A i \in Slot \ {count'} : history'[i] = history[i]
              \/ /\ count = Max /\ count' = Max
                 /\ \A i \in Slot \ {Max} : history'[i] = history[i + 1]
<1> USE MaxAssumption, BoundsAssumption DEF TypeOK, Slot, Records
<1>1. CASE HasRoom
  <2>1. history' = [history EXCEPT ![count + 1] = adds + 1]
        /\ count' = count + 1 /\ adds < MaxAdds /\ adds' = adds + 1
    BY <1>1 DEF Remember
  <2>2. count < Max
    BY <1>1 DEF HasRoom
  <2>3. QED
    BY <2>1, <2>2
<1>2. CASE ~HasRoom
  <2>1. history' = Shifted(adds + 1)
        /\ count' = count /\ adds < MaxAdds /\ adds' = adds + 1
    BY <1>2 DEF Remember
  <2>2. count = Max
    BY <1>2 DEF HasRoom
  <2>3. QED
    BY <2>1, <2>2 DEF Shifted
<1>3. QED
  BY <1>1, <1>2

\* An addition keeps what the window is about: its order, that its records
\* were made, that what is not counted is blank, and that it is recent.
LEMMA RememberKeeps ==
    ASSUME IInv, Remember, pc = "idle", UNCHANGED since
    PROVE  /\ InOrder(history)'
           /\ Made(history)'
           /\ \A i \in Slot : i > count' => history'[i] = 0
           /\ \A k \in 0..(Max - 1) :
                adds' - k > since' => count' > k /\ history'[count' - k] = adds' - k
<1> USE MaxAssumption, BoundsAssumption DEF Slot, Records
<1>1. /\ adds' = adds + 1 /\ adds' \in Records
      /\ count' \in Slot
      /\ history' \in [Slot -> Records]
      /\ history'[count'] = adds + 1
      /\ \/ /\ count < Max /\ count' = count + 1
            /\ \A i \in Slot \ {count'} : history'[i] = history[i]
         \/ /\ count = Max /\ count' = Max
            /\ \A i \in Slot \ {Max} : history'[i] = history[i + 1]
  BY AfterRemember DEF IInv
<1>2. /\ history \in [Slot -> Records] /\ count \in 0..Max
      /\ adds \in Records /\ since \in 0..adds
  BY DEF IInv, TypeOK
<1>3. /\ \A i, j \in Slot :
           i < j /\ history[i] # 0 /\ history[j] # 0 => history[i] < history[j]
      /\ \A i \in Slot : history[i] <= adds
      /\ \A i \in Slot : i > count => history[i] = 0
      /\ \A k \in 0..(Max - 1) :
           adds - k > since => count > k /\ history[count - k] = adds - k
  BY DEF IInv, RecordsInOrder, InOrder, WindowInv, Made, RunIsRecent
<1>4. CASE count < Max /\ count' = count + 1
            /\ \A i \in Slot \ {count'} : history'[i] = history[i]
  <2>1. \A i \in Slot : i < count' => history'[i] = history[i]
    BY <1>1, <1>4
  <2>2. \A i \in Slot : i > count' => history'[i] = 0
    BY <1>1, <1>2, <1>3, <1>4
  <2>3. InOrder(history)'
    <3>1. SUFFICES ASSUME NEW i \in Slot, NEW j \in Slot, i < j,
                          history'[i] # 0, history'[j] # 0
                   PROVE  history'[i] < history'[j]
      BY DEF InOrder
    <3>2. j <= count' /\ i < count' /\ history'[i] = history[i]
      BY <1>1, <2>1, <2>2, <3>1
    <3>3. CASE j = count'
      BY <1>1, <1>2, <1>3, <3>2, <3>3
    <3>4. CASE j < count'
      BY <1>3, <2>1, <3>1, <3>2, <3>4
    <3>5. QED
      BY <1>1, <3>2, <3>3, <3>4
  <2>4. Made(history)'
    <3>1. SUFFICES ASSUME NEW i \in Slot PROVE history'[i] <= adds'
      BY DEF Made
    <3>2. CASE i = count'
      BY <1>1, <1>2, <3>2
    <3>3. CASE i # count'
      BY <1>1, <1>2, <1>3, <1>4, <3>3
    <3>4. QED
      BY <3>2, <3>3
  <2>5. ASSUME NEW k \in 0..(Max - 1), adds' - k > since'
        PROVE  count' > k /\ history'[count' - k] = adds' - k
    <3>1. CASE k = 0
      <4>1. count' \in 1..Max /\ adds' = adds + 1 /\ adds \in Nat
        BY <1>1, <1>2
      <4>2. PICK n \in 1..Max : n = count'
        BY <4>1
      <4>3. n - k = n /\ n > k /\ adds' - k = adds + 1
        BY <3>1, <4>1
      <4>4. QED
        BY <1>1, <4>2, <4>3
    <3>2. CASE k > 0
      <4>1. k - 1 \in 0..(Max - 1) /\ adds - (k - 1) > since
        BY <1>1, <1>2, <2>5, <3>2
      <4>2. count > k - 1 /\ history[count - (k - 1)] = adds - (k - 1)
        BY <1>3, <4>1
      <4>3. /\ count' - k = count - (k - 1) /\ adds' - k = adds - (k - 1)
            /\ count' > k /\ count' - k \in Slot /\ count' - k < count'
        BY <1>1, <1>2, <1>4, <3>2, <4>2
      <4>4. QED
        BY <2>1, <4>2, <4>3
    <3>3. QED
      BY <3>1, <3>2
  <2>6. QED
    BY <2>2, <2>3, <2>4, <2>5
<1>5. CASE count = Max /\ count' = Max
            /\ \A i \in Slot \ {Max} : history'[i] = history[i + 1]
  <2>1. \A i \in Slot : i < Max => i + 1 \in Slot
                                   /\ history'[i] = history[i + 1]
    BY <1>5
  <2>2. history'[Max] = adds + 1
    BY <1>1, <1>5
  <2>3. InOrder(history)'
    <3>1. SUFFICES ASSUME NEW i \in Slot, NEW j \in Slot, i < j,
                          history'[i] # 0, history'[j] # 0
                   PROVE  history'[i] < history'[j]
      BY DEF InOrder
    <3>2. i < Max /\ history'[i] = history[i + 1] /\ i + 1 \in Slot
      BY <2>1, <3>1
    <3>3. CASE j = Max
      BY <1>2, <1>3, <2>2, <3>2, <3>3
    <3>4. CASE j # Max
      <4>1. history'[j] = history[j + 1] /\ j + 1 \in Slot
        BY <2>1, <3>4
      <4>2. QED
        BY <1>3, <3>1, <3>2, <4>1
    <3>5. QED
      BY <3>3, <3>4
  <2>4. Made(history)'
    <3>1. SUFFICES ASSUME NEW i \in Slot PROVE history'[i] <= adds'
      BY DEF Made
    <3>2. CASE i = Max
      BY <1>1, <1>2, <2>2, <3>2
    <3>3. CASE i # Max
      BY <1>1, <1>2, <1>3, <2>1, <3>3
    <3>4. QED
      BY <3>2, <3>3
  <2>5. \A i \in Slot : i > count' => history'[i] = 0
    BY <1>5
  <2>6. ASSUME NEW k \in 0..(Max - 1), adds' - k > since'
        PROVE  count' > k /\ history'[count' - k] = adds' - k
    <3>1. CASE k = 0
      <4>1. count' - k = Max /\ adds' - k = adds + 1 /\ count' > k
        BY <1>1, <1>2, <1>5, <3>1
      <4>2. QED
        BY <2>2, <4>1
    <3>2. CASE k > 0
      <4>1. k - 1 \in 0..(Max - 1) /\ adds - (k - 1) > since
        BY <1>1, <1>2, <2>6, <3>2
      <4>2. history[count - (k - 1)] = adds - (k - 1)
        BY <1>3, <4>1
      <4>3. /\ (count' - k) + 1 = count - (k - 1) /\ adds' - k = adds - (k - 1)
            /\ count' > k /\ count' - k \in Slot /\ count' - k < Max
        BY <1>1, <1>2, <1>5, <3>2
      <4>4. QED
        BY <2>1, <4>2, <4>3
    <3>3. QED
      BY <3>1, <3>2
  <2>7. QED
    BY <2>3, <2>4, <2>5, <2>6
<1>6. QED
  BY <1>1, <1>4, <1>5

----------------------------------------------------------------------------
LEMMA InitIInv == Init => IInv
<1> SUFFICES ASSUME Init PROVE IInv
  OBVIOUS
<1> USE MaxAssumption, BoundsAssumption DEF Init, Slot, Records, BlankWindow
<1>1. lossless \in BOOLEAN
  BY Zenon
<1>2. TypeOK
  BY <1>1 DEF TypeOK
<1>3. RecordsInOrder /\ RunIsRecent /\ WindowInv /\ FileInv
  BY DEF RecordsInOrder, InOrder, RunIsRecent, WindowInv, FileInv, Made
<1>4. QED
  BY <1>2, <1>3 DEF IInv

LEMMA TypeStep == TypeOK /\ [Next]_vars => TypeOK'
<1> SUFFICES ASSUME TypeOK, [Next]_vars PROVE TypeOK'
  OBVIOUS
<1> USE MaxAssumption, BoundsAssumption DEF TypeOK, Slot, Records
<1>1. CASE HistoryInit
  BY <1>1 DEF HistoryInit, ReadCount, BlankWindow, disk, gateway
<1>2. CASE HistoryAdd \/ HistoryAddUnsaved
  <2>1. lossless' \in BOOLEAN
    BY <1>2, Zenon DEF HistoryAdd, HistoryAddUnsaved
  <2>2. /\ Remember
        /\ UNCHANGED <<starts, since, saved, gateway>>
        /\ pc' \in {"idle", "opened"} /\ (file' = "empty" \/ file' = file)
    BY <1>2 DEF HistoryAdd, HistoryAddUnsaved, disk
  <2>3. adds' = adds + 1 /\ adds' \in Records /\ count' \in Slot
        /\ history' \in [Slot -> Records]
    BY <2>2, AfterRemember
  <2>4. since' \in 0..adds'
    BY <2>2, <2>3
  <2>5. UNCHANGED <<starts, saved, gotCount, got, newest>>
    BY <2>2 DEF gateway
  <2>6. /\ pc' \in {"down", "idle", "opened"}
        /\ file' \in {"absent", "empty", "full"}
    BY <2>2
  <2>7. /\ starts' \in 0..MaxStarts /\ saved' \in [Slot -> Records]
        /\ gotCount' \in {0, Max} /\ got' \in [Slot -> Records]
        /\ newest' \in Records
    BY <2>5
  <2>8. count' \in 0..Max
    BY <2>3
  <2>9. QED
    BY <2>1, <2>3, <2>4, <2>6, <2>7, <2>8
<1>4. CASE HistorySave
  BY <1>4 DEF HistorySave, gateway
<1>5. CASE HistorySaveFails \/ Crash
  <2>1. lossless' \in BOOLEAN
    BY <1>5, Zenon DEF HistorySaveFails, Crash
  <2>2. QED
    <3>1. CASE HistorySaveFails
      BY <2>1, <3>1 DEF HistorySaveFails, disk, gateway
    <3>2. CASE Crash
      BY <2>1, <3>2 DEF Crash, BlankWindow, disk, gateway
    <3>3. QED
      BY <1>5, <3>1, <3>2
<1>6. CASE HistoryShutdown
  BY <1>6 DEF HistoryShutdown, BlankWindow, disk, gateway
<1>7. CASE HistoryGet
  BY <1>7 DEF HistoryGet, core, disk
<1>8. CASE UNCHANGED vars
  BY <1>8 DEF vars, core, disk, gateway
<1>9. QED
  BY <1>1, <1>2, <1>4, <1>5, <1>6, <1>7, <1>8 DEF Next

\* The rest of the invariant, one step per action.
LEMMA InvStep == IInv /\ [Next]_vars => IInv'
<1> SUFFICES ASSUME IInv, [Next]_vars PROVE IInv'
  OBVIOUS
<1> USE MaxAssumption, BoundsAssumption DEF Slot, Records
<1>0. TypeOK /\ TypeOK'
  BY TypeStep DEF IInv
<1> SUFFICES (RecordsInOrder /\ RunIsRecent /\ WindowInv /\ FileInv)'
  BY <1>0 DEF IInv
<1>1. CASE HistoryInit
  <2>1. RecordsInOrder' /\ FileInv'
    BY <1>1 DEF HistoryInit, IInv, RecordsInOrder, InOrder, FileInv, Made,
         BlankWindow, disk, gateway
  <2>2. RunIsRecent' /\ WindowInv'
    BY <1>0, <1>1 DEF HistoryInit, IInv, TypeOK, RunIsRecent, WindowInv,
         FileInv, Made, BlankWindow, ReadCount, disk
  <2>3. QED
    BY <2>1, <2>2
<1>2. CASE HistoryAdd \/ HistoryAddUnsaved
  <2>1. /\ Remember /\ pc = "idle"
        /\ UNCHANGED <<since, saved, gateway>>
        /\ pc' \in {"idle", "opened"} /\ (file' = "empty" \/ file' = file)
    BY <1>2 DEF HistoryAdd, HistoryAddUnsaved, disk
  <2>2. /\ InOrder(history)' /\ Made(history)'
        /\ \A i \in Slot : i > count' => history'[i] = 0
        /\ \A k \in 0..(Max - 1) :
             adds' - k > since'
               => count' > k /\ history'[count' - k] = adds' - k
    BY <2>1, RememberKeeps
  <2>3. adds' = adds + 1 /\ count' \in Slot /\ history'[count'] = adds + 1
    BY <2>1, AfterRemember, <1>0
  <2>4. RecordsInOrder'
    BY <2>1, <2>2 DEF IInv, RecordsInOrder, InOrder, gateway
  <2>5. RunIsRecent' /\ WindowInv'
    BY <2>2, <2>3 DEF RunIsRecent, WindowInv
  <2>6. FileInv'
    <3>1. UNCHANGED <<saved, newest>> /\ adds' = adds + 1
          /\ (file' = "full" => file = "full")
      BY <2>1, <2>3 DEF gateway
    <3>2. adds \in Nat /\ newest \in Nat
      BY <1>0 DEF TypeOK
    <3>3. \A i \in Slot : saved[i] \in Nat
      <4>1. saved \in [Slot -> Records]
        BY <1>0 DEF TypeOK
      <4>2. Records \subseteq Nat
        BY BoundsAssumption DEF Records
      <4>3. QED
        BY <4>1, <4>2
    <3>4. FileInv
      BY DEF IInv
    <3>5. QED
      BY <3>1, <3>2, <3>3, <3>4 DEF FileInv, Made
  <2>7. QED
    BY <2>4, <2>5, <2>6
<1>3. CASE HistorySave
  <2>1. RecordsInOrder' /\ RunIsRecent' /\ WindowInv'
    BY <1>3 DEF HistorySave, IInv, RecordsInOrder, InOrder, RunIsRecent,
         WindowInv, Made, gateway
  <2>2. saved' = history /\ UNCHANGED <<adds, newest>>
    BY <1>3 DEF HistorySave, gateway
  <2>3. count \in Slot /\ history[count] = adds
    BY <1>3 DEF HistorySave, IInv, WindowInv
  <2>4. Made(history) /\ newest <= adds
    BY DEF IInv, WindowInv, FileInv
  <2>5. FileInv'
    BY <2>2, <2>3, <2>4 DEF FileInv, Made
  <2>6. QED
    BY <2>1, <2>5
<1>4. CASE HistorySaveFails
  BY <1>4 DEF HistorySaveFails, IInv, RecordsInOrder, InOrder, RunIsRecent,
       WindowInv, FileInv, Made, disk, gateway
<1>5. CASE HistoryShutdown \/ Crash
  <2>1. /\ pc' = "down" /\ history' = BlankWindow /\ count' = 0
        /\ UNCHANGED <<adds, disk, gateway>>
    BY <1>5 DEF HistoryShutdown, Crash
  <2>2. RecordsInOrder' /\ RunIsRecent' /\ WindowInv'
    BY <2>1, <1>0 DEF IInv, RecordsInOrder, InOrder, RunIsRecent, WindowInv,
         Made, BlankWindow, disk, gateway, TypeOK
  <2>3. FileInv'
    BY <2>1 DEF IInv, FileInv, Made, disk, gateway
  <2>4. QED
    BY <2>2, <2>3
<1>6. CASE HistoryGet
  <2>1. UNCHANGED <<core, disk>>
    BY <1>6 DEF HistoryGet
  <2>2. RunIsRecent' /\ WindowInv'
    BY <2>1 DEF IInv, RunIsRecent, WindowInv, Made, core
  <2>3. got' = saved \/ UNCHANGED got
    BY <1>6 DEF HistoryGet
  <2>4. RecordsInOrder'
    BY <2>1, <2>3 DEF IInv, RecordsInOrder, InOrder, core, disk
  <2>5. CASE file = "full"
    <3>1. PICK r \in Records : IsNewest(saved, r) /\ newest' = r
      BY <1>6, <2>5 DEF HistoryGet
    <3>2. (\E i \in Slot : saved[i] = r) /\ r <= adds
      BY <3>1 DEF IsNewest, IInv, FileInv, Made
    <3>3. QED
      BY <2>1, <2>2, <2>4, <3>1, <3>2 DEF IInv, FileInv, Made, core, disk
  <2>6. CASE file # "full"
    <3>1. UNCHANGED newest
      BY <1>6, <2>6 DEF HistoryGet
    <3>2. QED
      BY <2>1, <2>2, <2>4, <2>6, <3>1 DEF IInv, FileInv, Made, core, disk
  <2>7. QED
    BY <2>5, <2>6
<1>7. CASE UNCHANGED vars
  BY <1>7 DEF vars, core, disk, gateway, IInv, RecordsInOrder, InOrder,
       RunIsRecent, WindowInv, FileInv, Made
<1>8. QED
  BY <1>1, <1>2, <1>3, <1>4, <1>5, <1>6, <1>7 DEF Next

\* A reader gets nothing older than what it got before, whatever is saved,
\* lost or started in between.
LEMMA GetStep == IInv /\ [Next]_vars => [newest' >= newest]_vars
<1> SUFFICES ASSUME IInv, Next, ~UNCHANGED vars PROVE newest' >= newest
  BY DEF IInv
<1>1. newest \in Nat /\ saved \in [Slot -> Records]
  BY BoundsAssumption DEF IInv, TypeOK, Records
<1>2. CASE HistoryGet
  <2>1. CASE file = "full"
    <3>1. PICK r \in Records : IsNewest(saved, r) /\ newest' = r
      BY <1>2, <2>1 DEF HistoryGet
    <3>2. PICK i \in Slot : saved[i] >= newest
      BY <2>1 DEF IInv, FileInv
    <3>3. QED
      BY <1>1, <3>1, <3>2, BoundsAssumption DEF IsNewest, Records
  <2>2. CASE file # "full"
    BY <1>1, <1>2, <2>2 DEF HistoryGet
  <2>3. QED
    BY <2>1, <2>2
<1>3. CASE ~HistoryGet
  <2>1. UNCHANGED newest
    BY <1>3 DEF Next, HistoryInit, HistoryAdd, HistoryAddUnsaved, HistorySave,
         HistorySaveFails, HistoryShutdown, Crash, gateway
  <2>2. QED
    BY <1>1, <2>1
<1>4. QED
  BY <1>2, <1>3

----------------------------------------------------------------------------
\* The invariant holds throughout.
THEOREM Inductive == Spec => []IInv
BY InitIInv, InvStep, PTL DEF Spec

\* Every variable keeps its type.
THEOREM TypeCorrect == Spec => []TypeOK
<1>1. IInv => TypeOK
  BY DEF IInv
<1>2. QED
  BY <1>1, Inductive, PTL

\* Memory, file and answers hold their records in the order of history_add.
THEOREM KeepsOrder == Spec => []RecordsInOrder
<1>1. IInv => RecordsInOrder
  BY DEF IInv
<1>2. QED
  BY <1>1, Inductive, PTL

\* The records of this run, up to Max of them, are the end of the window.
THEOREM KeepsTheLast == Spec => []RunIsRecent
<1>1. IInv => RunIsRecent
  BY DEF IInv
<1>2. QED
  BY <1>1, Inductive, PTL

\* history_get never answers with an older window than before.
THEOREM AnswersGoForward == Spec => NeverGoesBack
BY GetStep, Inductive, PTL DEF Spec, NeverGoesBack
============================================================================
