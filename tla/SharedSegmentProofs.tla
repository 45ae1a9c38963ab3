------------------------ MODULE SharedSegmentProofs ------------------------
(***************************************************************************)
(* Proofs about SharedSegment: whoever listens on port 8080 is alone in    *)
(* the part of its life that touches the segment, and as long as no name   *)
(* was unlinked there is one object.                                       *)
(***************************************************************************)
EXTENDS SharedSegment, TLAPS

\* From the bind to the close of the port a core process is its holder.
Exclusive == \A c \in Cores : core[c] \in Listening => port = c

\* Who has an object open has one.
HaveObjects ==
    /\ vision.pc # "down" => vision.seg # 0
    /\ \A r \in Requests :
          request[r].pc \in {"opened", "mapped"} => request[r].seg # 0

\* The one object is the one that has a size.
OneSized == ~unlinked => sized \subseteq {name}

IInv ==
    TypeOK /\ Exclusive /\ HaveObjects /\ CrashesSeparateNobody /\ OneSized

USE DEF Object, Command, Setters, Getters, Listening, Attached

\* The initial states satisfy the invariant.
LEMMA InitInv == Init => IInv
<1> SUFFICES ASSUME Init PROVE IInv OBVIOUS
<1>1. unlinked \in BOOLEAN /\ guard \in [Object -> BOOLEAN]
  BY Zenon DEF Init
<1>2. TypeOK
  BY <1>1, MaxObjectsAssumption DEF Init, TypeOK, Idle
<1>3. Exclusive /\ HaveObjects
  BY DEF Init, Exclusive, HaveObjects, Idle
<1>4. CrashesSeparateNobody
  BY DEF Init, CrashesSeparateNobody, Idle
<1>5. OneSized
  <2>1. sized = {}
    BY DEF Init
  <2> QED BY <2>1 DEF OneSized
<1> QED BY <1>2, <1>3, <1>4, <1>5 DEF IInv

\* A step of a core process keeps the invariant.
LEMMA CoreKeeps ==
    ASSUME IInv, NEW c \in Cores, CoreNext(c)
    PROVE  IInv'
<1> USE MaxObjectsAssumption, NobodyAssumption
        DEF IInv, OneSized, Goes, segment, others
<1>1. CASE Start(c)
  BY <1>1 DEF Start, TypeOK, Exclusive, HaveObjects, CrashesSeparateNobody
<1>2. CASE WebServerInit(c)
  BY <1>2 DEF WebServerInit, PortFree, TypeOK, Exclusive, HaveObjects,
              CrashesSeparateNobody
<1>3. CASE WebServerFails(c)
  BY <1>3 DEF WebServerFails, TypeOK, Exclusive, HaveObjects,
              CrashesSeparateNobody
<1>4. CASE ShmOpen(c)
  <2>1. TypeOK'
    BY <1>4 DEF ShmOpen, Opened, TypeOK
  <2>2. Exclusive' /\ HaveObjects'
    BY <1>4 DEF ShmOpen, TypeOK, Exclusive, HaveObjects
  <2>3. CrashesSeparateNobody'
    <3>1. CASE name = 0
      BY <1>4, <3>1 DEF ShmOpen, Opened, TypeOK, HaveObjects,
                        CrashesSeparateNobody
    <3>2. CASE name # 0
      BY <1>4, <3>2 DEF ShmOpen, Opened, TypeOK, CrashesSeparateNobody
    <3> QED BY <3>1, <3>2
  <2>4. OneSized'
    <3>1. /\ unlinked' = unlinked /\ sized' = sized
          /\ name # 0 => name' = name
      BY <1>4 DEF ShmOpen, Opened
    <3>2. name = 0 => (~unlinked => sized = {})
      BY DEF TypeOK
    <3> QED BY <3>1, <3>2
  <2> QED BY <2>1, <2>2, <2>3, <2>4
<1>5. CASE Ftruncate(c)
  <2>1. mapped[c] \in Object
    BY <1>5 DEF Ftruncate, TypeOK
  <2>2. sized' \subseteq Object
    BY <1>5, <2>1 DEF Ftruncate, TypeOK
  <2>3. TypeOK'
    BY <1>5, <2>2 DEF Ftruncate, TypeOK
  <2> QED
    BY <1>5, <2>3 DEF Ftruncate, TypeOK, Exclusive, HaveObjects,
                      CrashesSeparateNobody
<1>6. CASE Mmap(c)
  BY <1>6 DEF Mmap, TypeOK, Exclusive, HaveObjects, CrashesSeparateNobody
<1>7. CASE Memset(c)
  BY <1>7 DEF Memset, TypeOK, Exclusive, HaveObjects, CrashesSeparateNobody
<1>8. CASE Disarm(c)
  BY <1>8 DEF Disarm, TypeOK, Exclusive, HaveObjects, CrashesSeparateNobody
<1>9. CASE Initialised(c)
  BY <1>9 DEF Initialised, TypeOK, Exclusive, HaveObjects,
              CrashesSeparateNobody
<1>10. CASE Gone(c)
  BY <1>10 DEF Gone, TypeOK, Exclusive, HaveObjects, CrashesSeparateNobody
<1>11. CASE WebServerStop(c)
  BY <1>11 DEF WebServerStop, TypeOK, Exclusive, HaveObjects,
               CrashesSeparateNobody
<1>12. CASE ShmDestroy(c)
  BY <1>12 DEF ShmDestroy, TypeOK, Exclusive, HaveObjects,
               CrashesSeparateNobody
<1> QED
  BY <1>1, <1>2, <1>3, <1>4, <1>5, <1>6, <1>7, <1>8, <1>9, <1>10, <1>11,
     <1>12 DEF CoreNext

\* A step of the vision process keeps it.
LEMMA VisionKeeps ==
    ASSUME IInv, VisionNext
    PROVE  IInv'
<1> USE MaxObjectsAssumption DEF IInv, OneSized, cores, segment
<1>1. CASE VisionOpen
  BY <1>1 DEF VisionOpen, TypeOK, Exclusive, HaveObjects,
              CrashesSeparateNobody
<1>2. CASE VisionMap
  BY <1>2 DEF VisionMap, TypeOK, Exclusive, HaveObjects,
              CrashesSeparateNobody
<1>3. CASE VisionEnds
  BY <1>3 DEF VisionEnds, TypeOK, Exclusive, HaveObjects,
              CrashesSeparateNobody
<1> QED BY <1>1, <1>2, <1>3 DEF VisionNext

\* A step of a request keeps it.
LEMMA RequestKeeps ==
    ASSUME IInv, NEW r \in Requests, RequestNext(r)
    PROVE  IInv'
<1> USE MaxObjectsAssumption DEF IInv, OneSized, cores, segment, Idle
<1>1. ASSUME NEW cmd \in Command, RequestOpen(r, cmd)
      PROVE  IInv'
  BY <1>1 DEF RequestOpen, TypeOK, Exclusive, HaveObjects,
              CrashesSeparateNobody
<1>2. CASE RequestMap(r)
  BY <1>2 DEF RequestMap, TypeOK, Exclusive, HaveObjects,
              CrashesSeparateNobody
<1>3. CASE RequestMapFails(r)
  BY <1>3 DEF RequestMapFails, TypeOK, Exclusive, HaveObjects,
              CrashesSeparateNobody
<1>4. CASE SetGuardMode(r)
  BY <1>4 DEF SetGuardMode, Answered, TypeOK, Exclusive, HaveObjects,
              CrashesSeparateNobody
<1>6. CASE Get(r)
  BY <1>6 DEF Get, Answered, TypeOK, Exclusive, HaveObjects,
              CrashesSeparateNobody
<1>5. CASE RequestKills(r)
  BY <1>5 DEF RequestKills, TypeOK, Exclusive, HaveObjects,
              CrashesSeparateNobody
<1> QED BY <1>1, <1>2, <1>3, <1>4, <1>5, <1>6 DEF RequestNext

\* Every step keeps it.
LEMMA NextInv == IInv /\ [Next]_vars => IInv'
<1> SUFFICES ASSUME IInv, [Next]_vars PROVE IInv' OBVIOUS
<1>1. CASE \E c \in Cores : CoreNext(c)
  BY <1>1, CoreKeeps
<1>2. CASE VisionNext
  BY <1>2, VisionKeeps
<1>3. CASE \E r \in Requests : RequestNext(r)
  BY <1>3, RequestKeeps
<1>4. CASE GatewayStart
  BY <1>4 DEF GatewayStart, cores, segment, Idle, IInv, OneSized, TypeOK,
              Exclusive, HaveObjects, CrashesSeparateNobody
<1>5. CASE UNCHANGED vars
  BY <1>5 DEF vars, cores, segment, others, IInv, OneSized, TypeOK,
              Exclusive, HaveObjects, CrashesSeparateNobody
<1> QED BY <1>1, <1>2, <1>3, <1>4, <1>5 DEF Next

\* The invariant holds throughout: the port keeps the cores apart, and without
\* a shm_unlink there is one object.
THEOREM Inductive == Spec => []IInv
BY InitInv, NextInv, PTL DEF Spec

\* Every variable keeps its type, a core that has the segment mapped its object
\* included.
THEOREM TypeCorrect == Spec => []TypeOK
<1>1. IInv => TypeOK BY DEF IInv
<1> QED BY <1>1, Inductive, PTL

\* Without an orderly stop, the core, vision and the gateway's requests share
\* the object under the name, through any crashes and restarts.
THEOREM OneSegment == Spec => []CrashesSeparateNobody
<1>1. IInv => CrashesSeparateNobody BY DEF IInv
<1> QED BY <1>1, Inductive, PTL

\* Nothing but the command disarms the guard of a core that serves.
THEOREM ServingStaysArmed == Spec => OnlyCommandsDisarm
<1>1. ASSUME IInv, [Next]_vars, NEW c \in Cores, core[c] = "serve",
             guard[mapped[c]], ~guard'[mapped[c]]
      PROVE  \E r \in Requests :
                request[r].cmd = "guard_off" /\ request'[r] # request[r]
  <2>1. port = c /\ mapped[c] \in Object
    BY <1>1 DEF IInv, TypeOK, Exclusive
  <2>2. guard' # guard BY <1>1
  <2>3. CASE \E d \in Cores : CoreNext(d)
    <3>1. PICK d \in Cores : CoreNext(d) BY <2>3
    <3>2. Memset(d) \/ Disarm(d)
      BY <2>2, <3>1 DEF CoreNext, Start, WebServerInit, WebServerFails,
             ShmOpen, Ftruncate, Mmap, Initialised, Gone, WebServerStop,
             ShmDestroy, segment
    <3>3. core[d] \in {"zero", "disarm"}
      BY <3>2 DEF Memset, Disarm, Goes
    <3>4. port = d
      BY <1>1, <3>3 DEF IInv, Exclusive
    <3> QED BY <1>1, <2>1, <3>3, <3>4
  <2>4. CASE VisionNext
    BY <2>2, <2>4 DEF VisionNext, VisionOpen, VisionMap, VisionEnds, segment
  <2>5. CASE \E r \in Requests : RequestNext(r)
    <3>1. PICK r \in Requests : RequestNext(r) BY <2>5
    <3>2. SetGuardMode(r)
      BY <2>2, <3>1 DEF RequestNext, RequestOpen, RequestMap,
             RequestMapFails, RequestKills, Get, segment
    <3>3. request'[r].pc = "idle" /\ request[r].pc = "mapped"
      BY <1>1, <3>2 DEF SetGuardMode, Answered, IInv, TypeOK, Idle
    <3>4. request[r].cmd = "guard_off"
      BY <1>1, <2>1, <3>2 DEF SetGuardMode, Answered, IInv, TypeOK
    <3> QED BY <3>3, <3>4
  <2>6. CASE GatewayStart \/ UNCHANGED vars
    BY <2>2, <2>6 DEF GatewayStart, vars, segment
  <2> QED BY <1>1, <2>3, <2>4, <2>5, <2>6 DEF Next
<1>2. IInv /\ [Next]_vars =>
        [\A c \in Cores :
           core[c] = "serve" /\ guard[mapped[c]] /\ ~guard'[mapped[c]] =>
              \E r \in Requests :
                  request[r].cmd = "guard_off" /\ request'[r] # request[r]]_vars
  BY <1>1
<1> QED BY <1>2, Inductive, PTL DEF Spec, OnlyCommandsDisarm

\* Restarts after crashes kill no request of the gateway.
THEOREM NobodyKilled == Spec => CrashRestartsKillNobody
<1>1. ASSUME IInv, NEW r \in Requests, RequestKills(r)
      PROVE  unlinked \/ sized = {}
  BY <1>1 DEF RequestKills, IInv, TypeOK, CrashesSeparateNobody, OneSized,
              HaveObjects
<1>2. IInv /\ [Next]_vars
        => [(\E r \in Requests : RequestKills(r))
              => unlinked \/ sized = {}]_vars
  BY <1>1
<1> QED BY <1>2, Inductive, PTL DEF Spec, CrashRestartsKillNobody
=============================================================================
