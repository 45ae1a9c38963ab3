-------------------------- MODULE AlertPathProofs --------------------------
(* EmailAlert for every debounce time, and any jumps and crashes; and       *)
(* AlertPath, every behaviour of which is one of EmailAlert.                *)
EXTENDS AlertPath, TLAPS

\* As long as the clock is not set, its readings and true time agree.
IInv ==
    /\ TypeOK
    /\ ClockTrue
    /\ jumps = 0 /\ pc = "sending" => sendAge = sending

LEMMA CutInRange ==
    ASSUME NEW a \in Int
    PROVE  Cut(a) \in Ages /\ (a >= 0 => Cut(a) \in Past)
BY DebounceAssumption DEF Cut, Ages, Past

LEMMA InitIInv == Init => IInv
<1> SUFFICES ASSUME Init PROVE IInv
  OBVIOUS
<1>1. /\ guard \in BOOLEAN /\ persons \in BOOLEAN /\ alerted \in BOOLEAN
      /\ enabled \in BOOLEAN /\ ~alerted
  BY Zenon DEF Init
<1>2. QED
  BY <1>1, DebounceAssumption, BoundsAssumption
  DEF Init, IInv, TypeOK, ClockTrue, Ages, Past

LEMMA TypeStep == TypeOK /\ [Next]_vars => TypeOK'
<1> SUFFICES ASSUME TypeOK, [Next]_vars PROVE TypeOK'
  OBVIOUS
<1> USE DebounceAssumption, BoundsAssumption DEF TypeOK
<1> DEFINE Flags == /\ guard' \in BOOLEAN /\ persons' \in BOOLEAN
                    /\ alerted' \in BOOLEAN /\ enabled' \in BOOLEAN
<1>1. CASE \E p \in BOOLEAN : Frame(p)
  <2>1. Flags
    BY <1>1, Zenon DEF Frame, world
  <2>2. QED
    BY <1>1, <2>1 DEF Frame, world, truth
<1>2. CASE NoAlert
  <2>1. Flags
    BY <1>2, Zenon DEF NoAlert, world
  <2>2. QED
    BY <1>2, <2>1 DEF NoAlert, world, truth
<1>3. CASE SendBegins
  <2>1. Flags
    BY <1>3, Zenon DEF SendBegins, world
  <2>2. QED
    BY <1>3, <2>1 DEF SendBegins, world, Ages, Past
<1>14. CASE NotSent
  <2>1. Flags
    BY <1>14, Zenon DEF NotSent, world
  <2>2. QED
    BY <1>14, <2>1 DEF NotSent, world, truth
<1>4. CASE SendDisabled
  <2>1. Flags
    BY <1>4, Zenon DEF SendDisabled, world
  <2>2. QED
    BY <1>4, <2>1 DEF SendDisabled, world, Ages, Past
<1>5. CASE SendSucceeds
  <2>1. Flags
    BY <1>5, Zenon DEF SendSucceeds, world
  <2>2. QED
    BY <1>5, <2>1 DEF SendSucceeds, AgeWhenSent, world, Past
<1>6. CASE SendFails
  <2>1. Flags
    BY <1>6, Zenon DEF SendFails, world
  <2>2. QED
    BY <1>6, <2>1 DEF SendFails, world, Past
<1>7. CASE Tick
  <2>1. Flags
    BY <1>7, Zenon DEF Tick, world
  <2>2. /\ age + 1 \in Int /\ sendAge + 1 \in Int
        /\ begun + 1 \in Nat /\ sending + 1 \in Nat /\ mailed + 1 \in Nat
    BY DEF Ages, Past
  <2>3. /\ age' \in Ages /\ sendAge' \in Ages
        /\ begun' \in Past /\ sending' \in Past /\ mailed' \in Past
    BY <1>7, <2>2, CutInRange DEF Tick
  <2>4. UNCHANGED <<pc, jumps, crashes, server>>
    BY <1>7 DEF Tick, world
  <2>5. QED
    BY <2>1, <2>3, <2>4
<1>8. CASE \E d \in Jumps : SetClock(d)
  <2>1. Flags
    BY <1>8, Zenon DEF SetClock
  <2>2. PICK d \in Jumps : SetClock(d)
    BY <1>8
  <2>3. age + d \in Int /\ sendAge + d \in Int
    BY JumpsAssumption DEF Ages
  <2>4. age' \in Ages /\ sendAge' \in Ages
    BY <2>2, <2>3, CutInRange DEF SetClock
  <2>5. jumps' \in 0..MaxJumps
    BY <2>2 DEF SetClock
  <2>6. UNCHANGED <<pc, crashes, server, truth>>
    BY <2>2 DEF SetClock
  <2>7. QED
    BY <2>1, <2>4, <2>5, <2>6 DEF truth
<1>9. CASE \E g \in BOOLEAN : SetGuardMode(g)
  <2>1. Flags
    BY <1>9, Zenon DEF SetGuardMode, core
  <2>2. QED
    BY <1>9, <2>1 DEF SetGuardMode, core, truth
<1>10. CASE \E s \in {"up", "down", "mute"} : ServerBecomes(s)
  <2>1. Flags
    BY <1>10, Zenon DEF ServerBecomes, core
  <2>2. QED
    BY <1>10, <2>1 DEF ServerBecomes, core, truth
<1>11. CASE Crash
  <2>1. Flags
    BY <1>11, Zenon DEF Crash
  <2>2. QED
    BY <1>11, <2>1 DEF Crash, truth
<1>12. CASE Start
  <2>1. Flags
    BY <1>12, Zenon DEF Start
  <2>2. QED
    BY <1>12, <2>1 DEF Start, truth
<1>13. CASE UNCHANGED vars
  BY <1>13 DEF vars, core, world, truth
<1>15. QED
  BY <1>1, <1>2, <1>3, <1>4, <1>5, <1>6, <1>7, <1>8, <1>9, <1>10, <1>11,
     <1>12, <1>13, <1>14 DEF Next, Core

\* The clock's account of the last alert stays true.
LEMMA ClockStep ==
    IInv /\ [Next]_vars
      => (ClockTrue /\ (jumps = 0 /\ pc = "sending" => sendAge = sending))'
<1> SUFFICES ASSUME IInv, [Next]_vars
             PROVE  (ClockTrue
                     /\ (jumps = 0 /\ pc = "sending" => sendAge = sending))'
  OBVIOUS
<1> USE DEF IInv, ClockTrue
<1>1. CASE SendBegins
  <2>1. alerted' = alerted
    BY <1>1, Zenon DEF SendBegins
  <2>2. QED
    BY <1>1, <2>1 DEF SendBegins, world
<1>2. CASE SendDisabled
  BY <1>2 DEF SendDisabled, world
<1>3. CASE SendSucceeds
  BY <1>3 DEF SendSucceeds, AgeWhenSent, world
<1>4. CASE Tick
  <2>1. alerted' = alerted
    BY <1>4, Zenon DEF Tick
  <2>2. /\ age' = Cut(age + 1) /\ sendAge' = Cut(sendAge + 1)
        /\ begun' = Cut(begun + 1) /\ sending' = Cut(sending + 1)
        /\ UNCHANGED <<pc, jumps>>
    BY <1>4 DEF Tick, world
  <2>3. QED
    BY <2>1, <2>2
<1>5. CASE \E d \in Jumps : SetClock(d)
  BY <1>5, BoundsAssumption DEF SetClock, TypeOK
<1>6. CASE Start
  <2>1. ~alerted' /\ pc' # "sending"
    BY <1>6, Zenon DEF Start
  <2>2. QED
    BY <2>1
<1>7. CASE \/ SendFails \/ NotSent \/ NoAlert \/ Crash
           \/ \E p \in BOOLEAN : Frame(p)
  <2>1. alerted' = alerted /\ pc' # "sending"
    BY <1>7, Zenon DEF SendFails, NotSent, NoAlert, Crash, Frame
  <2>2. UNCHANGED <<age, begun, jumps>>
    BY <1>7 DEF SendFails, NotSent, NoAlert, Crash, Frame, world, truth
  <2>3. QED
    BY <2>1, <2>2
<1>8. CASE (\E g \in BOOLEAN : SetGuardMode(g)) \/ UNCHANGED vars
           \/ (\E s \in {"up", "down", "mute"} : ServerBecomes(s))
  <2>1. UNCHANGED <<pc, alerted, age, sendAge, begun, sending, jumps>>
    BY <1>8 DEF SetGuardMode, ServerBecomes, vars, core, world, truth
  <2>2. alerted' = alerted
    BY <2>1
  <2>3. QED
    BY <2>1, <2>2
<1>9. QED
  BY <1>1, <1>2, <1>3, <1>4, <1>5, <1>6, <1>7, <1>8 DEF Next, Core

----------------------------------------------------------------------------
(* The composition.                                                         *)

\* What the segment and the snapshots may show of the persons of this run.
PathInv ==
    /\ vision \in {"down", "looking", "storing"}
    /\ link \in {"even", "odd", "open"}
    /\ result \in BOOLEAN /\ published \in BOOLEAN /\ cause \in BOOLEAN
    /\ result => vision = "storing"
    /\ result \/ published => cause
    /\ NoFalseAlarm

\* A snapshot shows persons only if there is a cause.
LEMMA SnapshotsOfResults ==
    ASSUME PathInv
    PROVE  Snapshots \subseteq BOOLEAN /\ (TRUE \in Snapshots => cause)
<1>1. Either \subseteq BOOLEAN /\ (TRUE \in Either => cause)
  BY Zenon DEF Either, PathInv
<1>2. GivenUp = {FALSE}
  BY DEF GivenUp
<1>3. CASE vision = "storing"
  <2>1. Snapshots = Either \cup GivenUp
    BY <1>3, Zenon DEF Snapshots
  <2>2. QED
    BY <1>1, <1>2, <2>1, Zenon
<1>4. CASE vision # "storing" /\ link = "odd"
  <2>1. Snapshots = {FALSE}
    BY <1>2, <1>4, Zenon DEF Snapshots
  <2>2. QED
    BY <2>1, Zenon
<1>5. CASE vision # "storing" /\ link # "odd"
  <2>1. Snapshots = {published}
    BY <1>5, Zenon DEF Snapshots
  <2>2. QED
    BY <2>1, Zenon DEF PathInv
<1>6. QED
  BY <1>3, <1>4, <1>5

\* A step of the path is one of EmailAlert, or none.
LEMMA PathStep == PathInv /\ [PathNext]_pathVars => [Next]_vars
<1> SUFFICES ASSUME PathInv, [PathNext]_pathVars PROVE [Next]_vars
  OBVIOUS
<1>1. CASE VisionStart \/ Vision \/ VisionCrash \/ UNCHANGED pathVars
  BY <1>1 DEF VisionStart, Vision, StoreBegins, StoreEnds, VisionCrash, pathVars
<1>2. CASE Snapshot
  BY <1>2, SnapshotsOfResults DEF Snapshot, Next
<1>3. CASE CoreStart
  BY <1>3 DEF CoreStart, Next
<1>4. QED
  BY <1>1, <1>2, <1>3 DEF PathNext, Next

LEMMA InitPathInv == PathInit => PathInv
BY Zenon DEF PathInit, Init, PathInv, NoFalseAlarm

LEMMA PathInvStep == PathInv /\ [PathNext]_pathVars => PathInv'
<1> SUFFICES ASSUME PathInv, [PathNext]_pathVars PROVE PathInv'
  OBVIOUS
<1> USE DEF PathInv, NoFalseAlarm
<1>1. CASE VisionStart
  BY <1>1 DEF VisionStart, vars, core
<1>2. CASE StoreEnds
  BY <1>2 DEF StoreEnds, Stored, Either, vars, core
<1>3. CASE \E f \in BOOLEAN : StoreBegins(f)
  BY <1>3 DEF StoreBegins, vars, core
<1>4. CASE VisionCrash
  BY <1>4 DEF VisionCrash, Either, vars, core
<1>5. CASE Snapshot
  <2>1. PICK p \in Snapshots : Frame(p)
    BY <1>5 DEF Snapshot
  <2>2. UNCHANGED <<vision, result, link, published, cause>>
    BY <1>5 DEF Snapshot, path
  <2>3. persons' = p
    BY <2>1, Zenon DEF Frame
  <2>4. persons' => cause
    BY <2>3, SnapshotsOfResults, Zenon
  <2>5. QED
    BY <2>2, <2>4, Zenon
<1>6. CASE CoreStart
  BY <1>6 DEF CoreStart, Start, Zeroed
<1>7. CASE (Core \/ Crash) /\ UNCHANGED path
  BY <1>7 DEF Core, NoAlert, SendBegins, NotSent, SendDisabled, SendSucceeds,
              SendFails, Crash, path
<1>8. CASE /\ \/ Tick
              \/ \E d \in Jumps : SetClock(d)
              \/ \E g \in BOOLEAN : SetGuardMode(g)
              \/ \E s \in {"up", "down", "mute"} : ServerBecomes(s)
           /\ UNCHANGED path
  BY <1>8 DEF Tick, SetClock, SetGuardMode, ServerBecomes, path, core
<1>9. CASE UNCHANGED pathVars
  BY <1>9 DEF pathVars, path, vars, core
<1>10. QED
  BY <1>1, <1>2, <1>3, <1>4, <1>5, <1>6, <1>7, <1>8, <1>9
  DEF PathNext, Vision

----------------------------------------------------------------------------
\* The invariant holds throughout.
THEOREM Inductive == Spec => []IInv
<1>1. IInv /\ [Next]_vars => IInv'
  BY TypeStep, ClockStep DEF IInv
<1>2. QED
  BY InitIInv, <1>1, PTL DEF Spec

\* Every variable keeps its type.
THEOREM TypeCorrect == Spec => []TypeOK
<1>1. IInv => TypeOK
  BY DEF IInv
<1>2. QED
  BY <1>1, Inductive, PTL

\* While the clock is not set, last_email_alert tells the true time.
THEOREM ClockIsTrue == Spec => []ClockTrue
<1>1. IInv => ClockTrue
  BY DEF IInv
<1>2. QED
  BY <1>1, Inductive, PTL

\* Alerts begin at least Debounce seconds apart.
THEOREM BeginApart == Spec => AlertsApart
<1>1. IInv /\ [Next]_vars
        => [SendBegins /\ alerted /\ jumps = 0 => begun >= Debounce]_vars
  BY DEF IInv, ClockTrue, SendBegins, Due
<1>2. QED
  BY <1>1, Inductive, PTL DEF Spec, AlertsApart

\* Every behaviour of the path is one of EmailAlert: what holds of the alerts
\* with an arbitrary result per frame holds with vision's.
THEOREM PathImplementsEmail == PathSpec => Spec
<1>1. PathInit => Init
  BY DEF PathInit
<1>2. QED
  BY <1>1, InitPathInv, PathInvStep, PathStep, PTL DEF PathSpec, Spec

\* Along the path alerts begin Debounce seconds apart too, and the clock's
\* account of the last one is true.
THEOREM PathAlerts == PathSpec => AlertsApart /\ []ClockTrue
BY PathImplementsEmail, BeginApart, ClockIsTrue, PTL

\* No core sends an alert before vision reported a person to it.
THEOREM OnlyWithCause == PathSpec => []NoFalseAlarm
<1>1. PathInv => NoFalseAlarm
  BY DEF PathInv
<1>2. QED
  BY <1>1, InitPathInv, PathInvStep, PTL DEF PathSpec

\* Every variable of the path keeps its type.
THEOREM PathTypeCorrect == PathSpec => []PathTypeOK
<1>1. TypeOK /\ PathInv => PathTypeOK
  BY DEF PathInv, PathTypeOK
<1>2. QED
  BY <1>1, PathImplementsEmail, TypeCorrect, InitPathInv, PathInvStep, PTL
  DEF PathSpec
=============================================================================
