------------------------------ MODULE WebProofs ------------------------------
(***************************************************************************)
(* The HTTP side of the system, each part of it for every value of its     *)
(* constants: the core's stream (WebStream), the gateway (Gateway) and the *)
(* processor's share in its telemetry (CpuUsage).                          *)
(***************************************************************************)
EXTENDS WebStream, Gateway, CpuUsage, FiniteSetTheorems, TLAPS

(* Sequences without repetitions: the connections and the waiting requests. *)

\* Appending one sequence to another.
LEMMA ConcatProps ==
    ASSUME NEW S, NEW a \in Seq(S), NEW b \in Seq(S)
    PROVE  /\ a \o b \in Seq(S)
           /\ DOMAIN (a \o b) = 1..(Len(a) + Len(b))
           /\ \A j \in 1..(Len(a) + Len(b)) :
                (a \o b)[j] = IF j <= Len(a) THEN a[j] ELSE b[j - Len(a)]
OBVIOUS

\* RemoveFirst takes an element out of a sequence without repetitions.
LEMMA RemoveFirstProperties ==
    ASSUME NEW S, NEW s \in Seq(S), IsInjective(s), NEW e
    PROVE  /\ RemoveFirst(s, e) \in Seq(S)
           /\ IsInjective(RemoveFirst(s, e))
           /\ ToSet(RemoveFirst(s, e)) = ToSet(s) \ {e}
<1>0. DOMAIN s = 1..Len(s) /\ Len(s) \in Nat
  OBVIOUS
<1>1. CASE e \notin ToSet(s)
  <2>1. RemoveFirst(s, e) = s
    BY <1>0, <1>1 DEF ToSet, RemoveFirst
  <2>2. QED
    BY <1>1, <2>1
<1>2. CASE e \in ToSet(s)
  <2>1. PICK i \in 1..Len(s) : s[i] = e
    BY <1>0, <1>2 DEF ToSet
  <2>2. \A j \in 1..Len(s) : s[j] = e => j = i
    BY <1>0, <2>1 DEF IsInjective
  <2>3. {j \in 1..Len(s) : s[j] = e} = {i}
    BY <2>1, <2>2
  <2>4. Min({i}) = i
    BY DEF Min
  <2>5. SelectInSeq(s, LAMBDA v : v = e) = i
    BY <2>3, <2>4 DEF SelectInSeq
  <2> DEFINE a == SubSeq(s, 1, i - 1)
             b == SubSeq(s, i + 1, Len(s))
             r == a \o b
  <2>6. RemoveFirst(s, e) = r
    BY <2>1, <2>5 DEF RemoveFirst, RemoveAt
  <2>7. /\ a \in Seq(S) /\ Len(a) = i - 1
        /\ \A j \in 1..(i - 1) : a[j] = s[j]
    OBVIOUS
  <2>8. /\ b \in Seq(S) /\ Len(b) = Len(s) - i
        /\ \A j \in 1..(Len(s) - i) : b[j] = s[j + i]
    OBVIOUS
  <2> HIDE DEF a, b
  <2>. a \in Seq(S) /\ b \in Seq(S)
    BY <2>7, <2>8
  <2>9. /\ r \in Seq(S)
        /\ DOMAIN r = 1..(Len(s) - 1)
    <3>1. r \in Seq(S) /\ DOMAIN r = 1..(Len(a) + Len(b))
      BY ConcatProps
    <3>2. Len(a) + Len(b) = Len(s) - 1
      BY <1>0, <2>7, <2>8
    <3>3. QED
      BY <3>1, <3>2
  <2>10. ASSUME NEW j \in 1..(Len(s) - 1)
         PROVE  r[j] = IF j < i THEN s[j] ELSE s[j + 1]
    <3>1. r[j] = IF j <= Len(a) THEN a[j] ELSE b[j - Len(a)]
      BY <1>0, <2>7, <2>8, ConcatProps
    <3>2. CASE j < i
      BY <1>0, <3>1, <3>2, <2>7
    <3>3. CASE ~(j < i)
      <4>1. /\ j - Len(a) \in 1..(Len(s) - i) /\ (j - Len(a)) + i = j + 1
            /\ ~(j <= Len(a))
        BY <1>0, <2>7, <3>3
      <4>2. QED
        BY <3>1, <3>3, <4>1, <2>8
    <3>4. QED
      BY <3>2, <3>3
  <2> HIDE DEF r
  <2>11. IsInjective(r)
    <3> SUFFICES ASSUME NEW j \in DOMAIN r, NEW k \in DOMAIN r, r[j] = r[k]
                 PROVE  j = k
      BY DEF IsInjective
    <3> DEFINE f(l) == IF l < i THEN l ELSE l + 1
    <3>1. /\ r[j] = s[f(j)] /\ r[k] = s[f(k)]
          /\ f(j) \in 1..Len(s) /\ f(k) \in 1..Len(s)
      BY <1>0, <2>9, <2>10
    <3>2. f(j) = f(k)
      BY <1>0, <3>1 DEF IsInjective
    <3>3. QED
      BY <1>0, <2>9, <3>2
  <2>12. ToSet(r) \subseteq ToSet(s) \ {e}
    <3>1. ASSUME NEW j \in DOMAIN r
          PROVE  \E k \in 1..Len(s) : r[j] = s[k] /\ k # i
      <4>1. CASE j < i
        BY <1>0, <2>9, <2>10, <4>1
      <4>2. CASE ~(j < i)
        BY <1>0, <2>9, <2>10, <4>2
      <4>3. QED
        BY <4>1, <4>2
    <3>2. QED
      BY <1>0, <2>2, <3>1 DEF ToSet
  <2>13. ASSUME NEW j \in 1..Len(s), s[j] # e PROVE s[j] \in ToSet(r)
    <3>1. CASE j < i
      BY <1>0, <2>9, <2>10, <3>1 DEF ToSet
    <3>2. CASE j > i
      <4>1. j - 1 \in DOMAIN r /\ r[j - 1] = s[j]
        BY <1>0, <2>9, <2>10, <3>2
      <4>2. QED
        BY <4>1 DEF ToSet
    <3>3. QED
      BY <3>1, <3>2, <2>1, <2>13
  <2>14. ToSet(s) \ {e} \subseteq ToSet(r)
    BY <1>0, <2>13 DEF ToSet
  <2>15. QED
    BY <2>6, <2>9, <2>11, <2>12, <2>14
<1>3. QED
  BY <1>1, <1>2

\* Putting an element at the end, at the front, and taking one from there.
LEMMA AppendProps ==
    ASSUME NEW S, NEW s \in Seq(S), IsInjective(s),
           NEW e \in S, e \notin ToSet(s)
    PROVE  /\ Append(s, e) \in Seq(S) /\ IsInjective(Append(s, e))
           /\ ToSet(Append(s, e)) = ToSet(s) \cup {e}
BY DEF IsInjective, ToSet

\* At the front, as serve_frame reads the list from its newest entry.
LEMMA ConsProps ==
    ASSUME NEW S, NEW s \in Seq(S), IsInjective(s),
           NEW e \in S, e \notin ToSet(s)
    PROVE  /\ <<e>> \o s \in Seq(S) /\ IsInjective(<<e>> \o s)
           /\ ToSet(<<e>> \o s) = ToSet(s) \cup {e}
<1> DEFINE r == <<e>> \o s
<1>0. DOMAIN s = 1..Len(s) /\ Len(s) \in Nat
  OBVIOUS
<1>1. r \in Seq(S) /\ DOMAIN r = 1..(Len(s) + 1) /\ Len(r) = Len(s) + 1
  OBVIOUS
<1>2. r[1] = e /\ \A j \in 1..Len(s) : r[j + 1] = s[j]
  OBVIOUS
<1> HIDE DEF r
<1>3. \A j \in DOMAIN r : j = 1 \/ (j - 1 \in DOMAIN s /\ r[j] = s[j - 1])
  <2> TAKE j \in DOMAIN r
  <2>1. j # 1 => j - 1 \in 1..Len(s) /\ (j - 1) + 1 = j
    BY <1>0, <1>1
  <2>2. QED
    BY <1>0, <1>2, <2>1
<1>4. IsInjective(r)
  <2> SUFFICES ASSUME NEW j \in DOMAIN r, NEW k \in DOMAIN r, r[j] = r[k]
               PROVE  j = k
    BY DEF IsInjective
  <2>1. j \in Int /\ k \in Int
    BY <1>1
  <2>2. CASE j = 1 \/ k = 1
    BY <1>2, <1>3, <2>2 DEF ToSet
  <2>3. CASE j # 1 /\ k # 1
    <3>1. j - 1 = k - 1
      BY <1>3, <2>3 DEF IsInjective
    <3>2. QED
      BY <2>1, <3>1
  <2>4. QED
    BY <2>2, <2>3
<1>5. ToSet(r) \subseteq ToSet(s) \cup {e}
  BY <1>2, <1>3 DEF ToSet
<1>6. ToSet(s) \cup {e} \subseteq ToSet(r)
  <2>1. 1 \in DOMAIN r
    BY <1>0, <1>1
  <2>2. \A j \in DOMAIN s : j + 1 \in DOMAIN r
    BY <1>0, <1>1
  <2>3. QED
    BY <1>0, <1>2, <2>1, <2>2 DEF ToSet
<1>7. QED
  BY <1>1, <1>4, <1>5, <1>6 DEF r

\* Without the first one.
LEMMA TailProps ==
    ASSUME NEW S, NEW s \in Seq(S), IsInjective(s), s # <<>>
    PROVE  /\ Tail(s) \in Seq(S) /\ IsInjective(Tail(s))
           /\ Head(s) \in ToSet(s)
           /\ ToSet(Tail(s)) = ToSet(s) \ {Head(s)}
<1>0. DOMAIN s = 1..Len(s) /\ Len(s) \in Nat \ {0}
  OBVIOUS
<1> DEFINE r == Tail(s)
<1>1. r \in Seq(S) /\ DOMAIN r = 1..(Len(s) - 1)
  BY <1>0
<1>2. Head(s) = s[1] /\ \A j \in 1..(Len(s) - 1) : r[j] = s[j + 1]
  BY <1>0
<1> HIDE DEF r
<1>3. IsInjective(r)
  <2> SUFFICES ASSUME NEW j \in DOMAIN r, NEW k \in DOMAIN r, r[j] = r[k]
               PROVE  j = k
    BY DEF IsInjective
  <2>1. j + 1 \in DOMAIN s /\ k + 1 \in DOMAIN s /\ s[j + 1] = s[k + 1]
    BY <1>0, <1>1, <1>2
  <2>2. j + 1 = k + 1
    BY <2>1 DEF IsInjective
  <2>3. QED
    BY <1>0, <1>1, <2>2
<1>4. ToSet(r) \subseteq ToSet(s) \ {s[1]}
  <2>1. \A j \in DOMAIN r : j + 1 \in DOMAIN s /\ j + 1 # 1 /\ r[j] = s[j + 1]
    BY <1>0, <1>1, <1>2
  <2>2. 1 \in DOMAIN s
    BY <1>0
  <2>3. QED
    BY <2>1, <2>2 DEF ToSet, IsInjective
<1>5. ToSet(s) \ {s[1]} \subseteq ToSet(r)
  <2>1. \A j \in DOMAIN s : j = 1 \/ (j - 1 \in DOMAIN r /\ r[j - 1] = s[j])
    BY <1>0, <1>1, <1>2
  <2>2. QED
    BY <2>1 DEF ToSet
<1>6. s[1] \in ToSet(s)
  BY <1>0 DEF ToSet
<1>7. QED
  BY <1>1, <1>2, <1>3, <1>4, <1>5, <1>6 DEF r

----------------------------------------------------------------------------
(* The stream.                                                             *)

\* What waits, and what counts as sent.
StreamInv ==
    /\ send \in [Viewers -> Nat]
    /\ jpeg \in Sizes \cup {0}
    /\ BacklogBounded
    /\ served # {} => last_sent = frame_id

\* There is a largest JPEG, and no JPEG is larger.
LEMMA LargestIsLargest ==
    Largest \in Nat /\ \A t \in Sizes : t <= Largest
<1>1. Largest \in Sizes /\ \A t \in Sizes : t <= Largest
  BY SizesAssumption DEF Largest
<1>2. QED
  BY <1>1, SizesAssumption

\* Nobody is connected at first.
LEMMA StreamInit == Init => StreamInv
BY LargestIsLargest, LimitAssumption DEF Init, StreamInv, BacklogBounded

\* Every handler keeps what is queued within the limit.
LEMMA StreamStep == StreamInv /\ [Next]_vars => StreamInv'
<1> SUFFICES ASSUME StreamInv, [Next]_vars PROVE StreamInv'
  OBVIOUS
<1> USE LargestIsLargest, LimitAssumption
<1>1. CASE \E s \in Sizes : Capture(s)
  BY <1>1 DEF Capture, StreamInv, BacklogBounded
<1>2. CASE ServeFrame
  <2>1. PICK v : /\ Takes(v)
                 /\ send' = [send EXCEPT ![v] = @ + jpeg]
                 /\ served' = served \cup {v}
    BY <1>2 DEF ServeFrame
  <2>2. last_sent' = frame_id /\ UNCHANGED <<frame_id, jpeg>>
    BY <1>2 DEF ServeFrame
  <2>3. jpeg \in Nat /\ jpeg <= Largest
    BY SizesAssumption DEF StreamInv
  <2>4. send' \in [Viewers -> Nat]
    <3>1. send \in [Viewers -> Nat]
      BY DEF StreamInv
    <3>2. \A w \in Viewers : (IF w = v THEN send[w] + jpeg ELSE send[w]) \in Nat
      BY <2>3, <3>1
    <3>3. send' = [w \in Viewers |-> IF w = v THEN send[w] + jpeg ELSE send[w]]
      BY <2>1, <3>1
    <3>4. QED
      BY <3>2, <3>3
  <2>5. ASSUME NEW w \in Viewers PROVE send'[w] <= Limit + Largest
    <3>1. CASE w = v
      <4>1. send[w] <= Limit /\ send[w] \in Nat
        BY <2>1, <3>1 DEF Takes, Backlogged, StreamInv
      <4>2. send'[w] = send[w] + jpeg
        BY <2>1, <3>1 DEF StreamInv
      <4>3. QED
        BY <2>3, <4>1, <4>2
    <3>2. CASE w # v
      BY <2>1, <3>2 DEF StreamInv, BacklogBounded
    <3>3. QED
      BY <3>1, <3>2
  <2>6. QED
    BY <2>2, <2>4, <2>5 DEF StreamInv, BacklogBounded
<1>3. CASE WebServerPoll
  <2>1. /\ send' = [v \in Viewers |-> Flushed(v)]
        /\ UNCHANGED <<jpeg, frame_id, last_sent, served>>
    BY <1>3 DEF WebServerPoll
  <2>2. \A v \in Viewers : Flushed(v) \in Nat /\ Flushed(v) <= Limit + Largest
    BY DEF Flushed, StreamInv, BacklogBounded
  <2>3. QED
    BY <2>1, <2>2 DEF StreamInv, BacklogBounded
<1>4. CASE Environment
  <2>1. PICK v \in Viewers : Join(v) \/ Leave(v) \/ Toggle(v)
    BY <1>4 DEF Environment
  <2>2. send' = [send EXCEPT ![v] = 0] \/ UNCHANGED send
    BY <2>1 DEF Join, Leave, Toggle
  <2>3. UNCHANGED <<jpeg, frame_id, last_sent, served>>
    BY <2>1 DEF Join, Leave, Toggle
  <2>4. QED
    BY <2>2, <2>3 DEF StreamInv, BacklogBounded
<1>5. CASE CaptureFails \/ SkipConnection \/ ServeEnds \/ UNCHANGED vars
  <2>1. UNCHANGED <<send, jpeg, frame_id, last_sent, served>>
    BY <1>5 DEF CaptureFails, SkipConnection, ServeEnds, vars
  <2>2. QED
    BY <2>1 DEF StreamInv, BacklogBounded
<1>6. QED
  BY <1>1, <1>2, <1>3, <1>4, <1>5 DEF Next

\* Only a frame that nobody was sent makes a buffer grow.
LEMMA GrowStep ==
    StreamInv /\ [Next]_vars
      => [\A v \in Viewers : send'[v] > send[v] => served = {}]_vars
<1> SUFFICES ASSUME StreamInv, Next, NEW v \in Viewers, send'[v] > send[v]
             PROVE  served = {}
  OBVIOUS
<1>1. send[v] \in Nat
  BY DEF StreamInv
<1>2. CASE ServeFrame
  <2>1. Fresh
    BY <1>2 DEF ServeFrame, Takes
  <2>2. QED
    BY <2>1 DEF Fresh, StreamInv
<1>3. CASE WebServerPoll
  <2>1. send'[v] = Flushed(v)
    BY <1>3 DEF WebServerPoll
  <2>2. QED
    BY <1>1, <2>1 DEF Flushed
<1>4. CASE Environment
  <2>1. send'[v] = 0 \/ send'[v] = send[v]
    BY <1>4 DEF Environment, Join, Leave, Toggle, StreamInv
  <2>2. QED
    BY <1>1, <2>1
<1>5. CASE ~ServeFrame /\ ~WebServerPoll /\ ~Environment
  <2>1. UNCHANGED send
    BY <1>5 DEF Next, CaptureFails, SkipConnection, ServeEnds, Capture
  <2>2. QED
    BY <1>1, <2>1
<1>6. QED
  BY <1>2, <1>3, <1>4, <1>5

----------------------------------------------------------------------------
\* The invariant holds throughout.
THEOREM StreamInductive == Spec => []StreamInv
BY StreamInit, StreamStep, PTL DEF Spec

\* Whoever does not read, at most one frame above the limit waits for it.
THEOREM NoBacklog == Spec => []BacklogBounded
<1>1. StreamInv => BacklogBounded
  BY DEF StreamInv
<1>2. QED
  BY <1>1, StreamInductive, PTL

\* One connection is sent a frame, once.
THEOREM SentOnce == Spec => FrameSentOnce
BY GrowStep, StreamInductive, PTL DEF Spec, FrameSentOnce

\* Outside the loop over the connections it stands at their head.
PlaceInv == TypeOK /\ (pc # "serve" => next = 1)

\* Every step but those of the environment leaves the connections alone.
LEMMA LoopTypes ==
    ASSUME PlaceInv, UNCHANGED <<conns, reading>>,
           \/ CaptureFails \/ WebServerPoll \/ ServeFrame \/ SkipConnection
           \/ ServeEnds \/ \E s \in Sizes : Capture(s)
    PROVE  PlaceInv'
<1> USE DEF PlaceInv, TypeOK
<1>0. Len(conns) \in Nat
  OBVIOUS
<1>1. CASE \E s \in Sizes : Capture(s)
  <2>1. frame_id' \in 0..(Wrap - 1)
    BY <1>1, WrapAssumption DEF Capture
  <2>2. QED
    BY <1>1, <2>1 DEF Capture
<1>2. CASE CaptureFails
  BY <1>2 DEF CaptureFails
<1>3. CASE WebServerPoll
  <2>1. \A v \in Viewers : Flushed(v) \in Nat
    BY DEF Flushed
  <2>2. send' \in [Viewers -> Nat] /\ pc' = "serve" /\ next' = 1
    BY <1>3, <2>1 DEF WebServerPoll
  <2>3. QED
    BY <1>0, <1>3, <2>2 DEF WebServerPoll
<1>4. CASE ServeFrame
  <2>1. conns[next] \in Viewers /\ next' \in 1..(Len(conns) + 1)
    BY <1>0, <1>4 DEF ServeFrame
  <2>2. jpeg \in Nat
    BY SizesAssumption
  <2>3. send' \in [Viewers -> Nat] /\ served' \subseteq Viewers
    BY <1>4, <2>1, <2>2 DEF ServeFrame
  <2>4. QED
    BY <1>4, <2>1, <2>3 DEF ServeFrame
<1>5. CASE SkipConnection
  <2>1. next' \in 1..(Len(conns) + 1)
    BY <1>0, <1>5 DEF SkipConnection, AfterSkip
  <2>2. QED
    BY <1>5, <2>1 DEF SkipConnection
<1>6. CASE ServeEnds
  BY <1>0, <1>6 DEF ServeEnds
<1>7. QED
  BY <1>1, <1>2, <1>3, <1>4, <1>5, <1>6

\* Every handler keeps the list without repetitions and the walk inside it.
LEMMA StreamTypes == PlaceInv /\ [Next]_vars => PlaceInv'
<1> SUFFICES ASSUME PlaceInv, [Next]_vars PROVE PlaceInv'
  OBVIOUS
<1>1. CASE Environment
  <2>1. PICK v \in Viewers : Join(v) \/ Leave(v) \/ Toggle(v)
    BY <1>1 DEF Environment
  <2>2. /\ pc = "poll" /\ next = 1
        /\ UNCHANGED <<pc, next, frame_id, last_sent, jpeg, served>>
    BY <2>1 DEF Join, Leave, Toggle, PlaceInv
  <2>3. send' \in [Viewers -> Nat] /\ reading' \subseteq Viewers
    BY <2>1 DEF Join, Leave, Toggle, PlaceInv, TypeOK
  <2>4. conns' \in Seq(Viewers) /\ IsInjective(conns')
    <3>1. CASE Join(v)
      BY <3>1, ConsProps DEF Join, Connected, PlaceInv, TypeOK
    <3>2. CASE Leave(v)
      BY <3>2, RemoveFirstProperties DEF Leave, PlaceInv, TypeOK
    <3>3. CASE Toggle(v)
      BY <3>3 DEF Toggle, PlaceInv, TypeOK
    <3>4. QED
      BY <2>1, <3>1, <3>2, <3>3
  <2>5. 1 \in 1..(Len(conns') + 1)
    BY <2>4
  <2>6. QED
    BY <2>2, <2>3, <2>4, <2>5 DEF PlaceInv, TypeOK
<1>2. CASE \/ CaptureFails \/ WebServerPoll \/ ServeFrame \/ SkipConnection
           \/ ServeEnds \/ \E s \in Sizes : Capture(s)
  <2>1. UNCHANGED <<conns, reading>>
    BY <1>2 DEF CaptureFails, WebServerPoll, ServeFrame, SkipConnection,
                ServeEnds, Capture
  <2>2. QED
    BY <1>2, <2>1, LoopTypes
<1>3. CASE UNCHANGED vars
  BY <1>3 DEF vars, PlaceInv, TypeOK
<1>4. QED
  BY <1>1, <1>2, <1>3 DEF Next

\* The loop never leaves the list of the connections, and no client is on it
\* twice.
THEOREM StreamTypesOK == Spec => []TypeOK
<1>1. Init => PlaceInv
  BY WrapAssumption DEF Init, PlaceInv, TypeOK, IsInjective
<1>2. PlaceInv => TypeOK
  BY DEF PlaceInv
<1>3. QED
  BY <1>1, <1>2, StreamTypes, PTL DEF Spec

----------------------------------------------------------------------------
(* The gateway.                                                            *)

\* Who waits for a thread or has one has asked for something; nobody waits
\* who has one.
RequestsInv ==
    /\ task \in [Clients -> Kinds \cup {"none"}] /\ left \subseteq Clients
    /\ working \subseteq Clients /\ IsFiniteSet(working)
    /\ Cardinality(working) <= Workers
    /\ queue \in Seq(Clients \ working) /\ IsInjective(queue)
    /\ \A c \in working \cup ToSet(queue) : task[c] # "none"

\* The connections to the core are those of clients that have asked for one.
StreamsInv ==
    /\ opened \subseteq Clients /\ core \in BOOLEAN
    /\ streams \in Seq(opened) /\ IsInjective(streams)
    /\ chunks \subseteq ToSet(streams)

\* One task at most is in the lock, and one at most on its way to Popen;
\* who is on that way has set reboot_scheduled and finds no shell yet.
LockInv ==
    /\ inside \cup spawning \subseteq working /\ inside \cap spawning = {}
    /\ \A c \in inside \cup spawning : task[c] = "reboot"
    /\ checked \subseteq inside
    /\ \A c, d \in inside : c = d
    /\ \A c, d \in spawning : c = d
    /\ checked # {} => ~reboot_scheduled
    /\ ~reboot_scheduled => spawned = 0 /\ spawning = {}
    /\ spawning # {} => spawned = 0
    /\ reboot_scheduled \in BOOLEAN /\ spawned \in 0..1 /\ shells \in Nat

GatewayInv ==
    RequestsInv /\ StreamsInv /\ LockInv /\ crashes \in 0..MaxCrashes

\* A sequence over one set whose elements are all of another.
LEMMA SeqOver ==
    ASSUME NEW S, NEW T, NEW s \in Seq(S), ToSet(s) \subseteq T
    PROVE  s \in Seq(T)
<1>1. DOMAIN s = 1..Len(s) /\ Len(s) \in Nat
  OBVIOUS
<1>2. \A i \in 1..Len(s) : s[i] \in T
  BY <1>1 DEF ToSet
<1>3. s = [i \in 1..Len(s) |-> s[i]]
  BY <1>1
<1>4. QED
  BY <1>1, <1>2, <1>3

\* The elements of a sequence.
LEMMA SeqElements ==
    ASSUME NEW S, NEW s \in Seq(S)
    PROVE  ToSet(s) \subseteq S
BY DEF ToSet

\* A thread that is given back leaves no more of them at work.
LEMMA WorkingFewer ==
    ASSUME RequestsInv, NEW c
    PROVE  IsFiniteSet(working \ {c}) /\ Cardinality(working \ {c}) <= Workers
<1>1. IsFiniteSet(working) /\ Cardinality(working) \in Nat
  BY FS_CardinalityType DEF RequestsInv
<1>2. /\ IsFiniteSet(working \ {c})
      /\ Cardinality(working \ {c}) = IF c \in working THEN Cardinality(working) - 1
                                      ELSE Cardinality(working)
  BY <1>1, FS_RemoveElement
<1>3. QED
  BY <1>1, <1>2, WorkersAssumption DEF RequestsInv

\* What becomes of the requests and threads when a task is done, ...
LEMMA FinishedKeeps ==
    ASSUME RequestsInv, NEW c \in Clients, Finished(c)
    PROVE  RequestsInv'
<1>1. /\ queue' \in Seq(Clients \ working) /\ IsInjective(queue')
      /\ ToSet(queue') = ToSet(queue) \ {c}
  BY RemoveFirstProperties DEF RequestsInv, Finished
<1>2. ToSet(queue') \subseteq Clients \ working'
  BY <1>1, SeqElements DEF RequestsInv, Finished
<1>3. queue' \in Seq(Clients \ working')
  BY <1>1, <1>2, SeqOver
<1>4. IsFiniteSet(working') /\ Cardinality(working') <= Workers
  BY WorkingFewer DEF Finished
<1>5. /\ task' \in [Clients -> Kinds \cup {"none"}]
      /\ left' \subseteq Clients /\ working' \subseteq Clients
  BY DEF RequestsInv, Finished
<1>6. ASSUME NEW d \in working' \cup ToSet(queue') PROVE task'[d] # "none"
  <2>1. d \in working \cup ToSet(queue) /\ d # c
    BY <1>1, <1>6 DEF Finished
  <2>2. d \in Clients
    BY <2>1, SeqElements DEF RequestsInv
  <2>3. QED
    BY <2>1, <2>2 DEF RequestsInv, Finished
<1>7. QED
  BY <1>1, <1>3, <1>4, <1>5, <1>6 DEF RequestsInv

\* ... when one is put into the queue, ...
LEMMA QueuedKeeps ==
    ASSUME RequestsInv, NEW c \in Clients, c \notin working \cup ToSet(queue),
           queue' = Append(queue, c), UNCHANGED <<left, working>>,
           task' \in [Clients -> Kinds \cup {"none"}], task'[c] # "none",
           \A d \in Clients \ {c} : task'[d] = task[d]
    PROVE  RequestsInv'
<1>1. /\ queue' \in Seq(Clients \ working) /\ IsInjective(queue')
      /\ ToSet(queue') = ToSet(queue) \cup {c}
  BY AppendProps DEF RequestsInv
<1>2. ToSet(queue) \subseteq Clients
  BY SeqElements DEF RequestsInv
<1>3. QED
  BY <1>1, <1>2 DEF RequestsInv

\* ... when a thread takes one from there, ...
LEMMA TakeKeeps ==
    ASSUME RequestsInv, Take
    PROVE  RequestsInv'
<1> DEFINE h == Head(queue)
<1>1. queue # <<>> /\ working' = working \cup {h} /\ queue' = Tail(queue)
      /\ Cardinality(working) < Workers /\ UNCHANGED <<task, left>>
  BY DEF Take
<1>2. /\ queue' \in Seq(Clients \ working) /\ IsInjective(queue')
      /\ h \in ToSet(queue) /\ ToSet(queue') = ToSet(queue) \ {h}
  BY <1>1, TailProps DEF RequestsInv
<1>3. ToSet(queue) \subseteq Clients \ working
  BY SeqElements DEF RequestsInv
<1>4. queue' \in Seq(Clients \ working')
  <2>1. ToSet(queue') \subseteq Clients \ working'
    BY <1>1, <1>2, <1>3
  <2>2. QED
    BY <1>2, <2>1, SeqOver
<1>5. IsFiniteSet(working') /\ Cardinality(working') <= Workers
  <2>1. IsFiniteSet(working) /\ Cardinality(working) \in Nat
    BY FS_CardinalityType DEF RequestsInv
  <2>2. /\ IsFiniteSet(working \cup {h})
        /\ Cardinality(working \cup {h})
             = IF h \in working THEN Cardinality(working)
               ELSE Cardinality(working) + 1
    BY <2>1, FS_AddElement
  <2>3. QED
    BY <1>1, <2>1, <2>2, WorkersAssumption
<1>6. QED
  BY <1>1, <1>2, <1>3, <1>4, <1>5 DEF RequestsInv

\* ... and when a chunk was passed on.
LEMMA ReleasedKeeps ==
    ASSUME RequestsInv, NEW c \in Clients, working' = working \ {c},
           UNCHANGED <<task, left, queue>>
    PROVE  RequestsInv'
<1>1. ToSet(queue) \subseteq Clients \ working
  BY SeqElements DEF RequestsInv
<1>2. queue \in Seq(Clients \ working')
  <2>1. ToSet(queue) \subseteq Clients \ working'
    BY <1>1
  <2>2. QED
    BY <2>1, SeqOver DEF RequestsInv
<1>3. IsFiniteSet(working') /\ Cardinality(working') <= Workers
  BY WorkingFewer
<1>4. QED
  BY <1>2, <1>3 DEF RequestsInv

\* The connections when one is closed, and when one is opened.
LEMMA ClosedKeeps ==
    ASSUME StreamsInv, NEW c, Closed(c), UNCHANGED core
    PROVE  StreamsInv'
<1>1. /\ streams' \in Seq(opened) /\ IsInjective(streams')
      /\ ToSet(streams') = ToSet(streams) \ {c}
  BY RemoveFirstProperties DEF StreamsInv, Closed
<1>2. streams' \in Seq(opened')
  <2>1. ToSet(streams') \subseteq opened'
    BY <1>1, SeqElements DEF StreamsInv, Closed
  <2>2. QED
    BY <1>1, <2>1, SeqOver
<1>3. QED
  BY <1>1, <1>2 DEF StreamsInv, Closed

\* A response opens a connection to the core that was not there.
LEMMA ConnectKeeps ==
    ASSUME StreamsInv, NEW c \in Clients, Connect(c)
    PROVE  StreamsInv'
<1>1. /\ c \notin opened /\ opened' = opened \cup {c}
      /\ streams' = <<c>> \o streams /\ UNCHANGED <<chunks, core>>
  BY DEF Connect
<1>2. c \notin ToSet(streams) /\ ToSet(streams) \subseteq opened'
  BY <1>1, SeqElements DEF StreamsInv
<1>3. streams \in Seq(opened') /\ IsInjective(streams)
  BY <1>2, SeqOver DEF StreamsInv
<1>4. /\ streams' \in Seq(opened') /\ IsInjective(streams')
      /\ ToSet(streams') = ToSet(streams) \cup {c}
  BY <1>1, <1>2, <1>3, ConsProps
<1>5. QED
  BY <1>1, <1>4 DEF StreamsInv

\* The lock when other tasks move on, ...
LEMMA LockUntouched ==
    ASSUME LockInv, UNCHANGED reboot,
           \A c \in inside \cup spawning : c \in working' /\ task'[c] = task[c]
    PROVE  LockInv'
BY DEF LockInv, reboot

\* ... when one of them is done, ...
LEMMA OthersFinish ==
    ASSUME RequestsInv, LockInv, NEW c \in Clients, Finished(c),
           UNCHANGED reboot, task[c] # "reboot"
    PROVE  LockInv'
<1>1. ASSUME NEW d \in inside \cup spawning
      PROVE  d \in working' /\ task'[d] = task[d]
  <2>1. d \in working /\ d \in Clients /\ d # c
    BY DEF LockInv, RequestsInv
  <2>2. QED
    BY <2>1 DEF Finished, RequestsInv
<1>2. QED
  BY <1>1, LockUntouched

\* ... and in the steps of the reboot command.
LEMMA RebootKeeps ==
    ASSUME RequestsInv, LockInv, NEW c \in Clients,
           \/ EnterLock(c) \/ Conflict(c) \/ Schedule(c)
           \/ \E works \in BOOLEAN : Spawn(c, works)
    PROVE  RequestsInv' /\ LockInv'
<1>1. CASE EnterLock(c)
  <2>1. RequestsInv'
    BY <1>1 DEF EnterLock, RequestsInv, requests
  <2>2. UNCHANGED <<task, working, spawning, reboot_scheduled, spawned, shells>>
    BY <1>1 DEF EnterLock, requests
  <2>3. inside = {} /\ inside' = {c} /\ checked = {}
    BY <1>1 DEF EnterLock, Free, LockInv
  <2>4. checked' \subseteq {c} /\ (checked' # {} => ~reboot_scheduled)
    BY <1>1, <2>3 DEF EnterLock
  <2>5. c \in working /\ task[c] = "reboot" /\ c \notin spawning
    BY <1>1 DEF EnterLock, Rebooting
  <2>6. QED
    BY <2>1, <2>2, <2>3, <2>4, <2>5 DEF LockInv
<1>2. CASE Conflict(c)
  <2>1. RequestsInv'
    BY <1>2, FinishedKeeps DEF Conflict
  <2>2. inside = {c} /\ inside' = {} /\ checked = {}
    BY <1>2 DEF Conflict, LockInv
  <2>3. UNCHANGED <<checked, spawning, reboot_scheduled, spawned, shells>>
    BY <1>2 DEF Conflict
  <2>4. \A d \in spawning : d \in working' /\ task'[d] = "reboot"
    BY <1>2, <2>2 DEF Conflict, Finished, LockInv, RequestsInv
  <2>5. QED
    BY <2>1, <2>2, <2>3, <2>4 DEF LockInv
<1>3. CASE Schedule(c)
  <2>1. RequestsInv'
    BY <1>3 DEF Schedule, RequestsInv, requests
  <2>2. inside = {c} /\ checked = {c} /\ spawning = {} /\ spawned = 0
    BY <1>3 DEF Schedule, LockInv
  <2>3. inside' = {} /\ checked' = {} /\ spawning' = {c} /\ reboot_scheduled'
    BY <1>3, <2>2 DEF Schedule
  <2>4. UNCHANGED <<task, working, spawned, shells>>
    BY <1>3 DEF Schedule, requests
  <2>5. reboot_scheduled' \in BOOLEAN
    BY <1>3 DEF Schedule
  <2>6. QED
    BY <2>1, <2>2, <2>3, <2>4, <2>5 DEF LockInv
<1>4. ASSUME NEW works \in BOOLEAN, Spawn(c, works)
      PROVE  RequestsInv' /\ LockInv'
  <2>1. RequestsInv'
    BY <1>4, FinishedKeeps DEF Spawn
  <2>2. spawning = {c} /\ spawning' = {} /\ spawned = 0 /\ reboot_scheduled
    BY <1>4 DEF Spawn, LockInv
  <2>3. spawned' \in 0..1 /\ shells' \in Nat
    BY <1>4, <2>2 DEF Spawn, LockInv
  <2>4. UNCHANGED <<inside, checked, reboot_scheduled>>
    BY <1>4 DEF Spawn
  <2>5. \A d \in inside : d \in working' /\ task'[d] = "reboot"
    BY <1>4, <2>2 DEF Spawn, Finished, LockInv, RequestsInv
  <2>6. QED
    BY <2>1, <2>2, <2>3, <2>4, <2>5 DEF LockInv
<1>5. QED
  BY <1>1, <1>2, <1>3, <1>4

\* A gateway that starts has nothing to do, and nobody in the lock.
LEMMA AnewKeeps ==
    ASSUME GatewayInv, StartsAnew, core' \in BOOLEAN, shells' \in Nat,
           crashes' \in 0..MaxCrashes
    PROVE  GatewayInv'
<1>1. RequestsInv'
  <2>1. working' = {} /\ Cardinality({}) = 0 /\ IsFiniteSet({})
    BY FS_EmptySet DEF StartsAnew
  <2>2. ToSet(<<>>) = {}
    BY DEF ToSet
  <2>3. QED
    BY <2>1, <2>2, WorkersAssumption
    DEF StartsAnew, RequestsInv, IsInjective, Kinds
<1>2. StreamsInv'
  BY DEF StartsAnew, StreamsInv, IsInjective
<1>3. LockInv'
  <2>1. reboot_scheduled' \in BOOLEAN /\ ~reboot_scheduled'
    BY Zenon DEF StartsAnew
  <2>2. QED
    BY <2>1 DEF StartsAnew, LockInv
<1>4. QED
  BY <1>1, <1>2, <1>3 DEF GatewayInv

\* The steps of a client, and of the thread that works for it.
LEMMA ClientKeeps ==
    ASSUME GatewayInv, NEW c \in Clients,
           \/ \E kind \in Asks(c) : Ask(c, kind)
           \/ GoesAway(c) \/ NextChunk(c) \/ EnterLock(c) \/ Thread(c)
    PROVE  GatewayInv'
<1> USE DEF GatewayInv
<1>1. ASSUME NEW kind \in Asks(c), Ask(c, kind) PROVE GatewayInv'
  <2>1. kind \in Kinds /\ kind # "none"
    BY AsksAssumption DEF Kinds
  <2>2. c \notin working \cup ToSet(queue)
    BY <1>1 DEF Ask, RequestsInv
  <2>3. RequestsInv'
    BY <1>1, <2>1, <2>2, QueuedKeeps DEF Ask, RequestsInv
  <2>4. StreamsInv' /\ crashes' = crashes
    BY <1>1 DEF Ask, StreamsInv, upstream
  <2>5. c \notin inside \cup spawning
    BY <1>1 DEF Ask, LockInv
  <2>6. \A d \in inside \cup spawning : d \in working' /\ task'[d] = task[d]
    BY <1>1, <2>5 DEF Ask, LockInv, RequestsInv
  <2>7. UNCHANGED reboot
    BY <1>1 DEF Ask, reboot
  <2>8. QED
    BY <2>3, <2>4, <2>6, <2>7, LockUntouched
<1>2. CASE GoesAway(c)
  <2>1. UNCHANGED <<core, reboot, crashes>>
    BY <1>2 DEF GoesAway
  <2>2. CASE Finished(c) /\ Closed(c) /\ task[c] = "stream"
    BY <2>1, <2>2, FinishedKeeps, ClosedKeeps, OthersFinish
  <2>3. CASE /\ left' = left \cup {c}
             /\ UNCHANGED <<task, queue, working, opened, streams, chunks>>
    <3>1. RequestsInv' /\ StreamsInv'
      BY <2>1, <2>3 DEF RequestsInv, StreamsInv
    <3>2. LockInv'
      BY <2>1, <2>3, LockUntouched DEF LockInv
    <3>3. QED
      BY <2>1, <3>1, <3>2
  <2>4. QED
    BY <1>2, <2>2, <2>3 DEF GoesAway
<1>3. CASE NextChunk(c)
  <2>1. UNCHANGED <<task, left, working, upstream, reboot, crashes>>
    BY <1>3 DEF NextChunk
  <2>2. RequestsInv'
    BY <1>3, <2>1, QueuedKeeps DEF NextChunk, RequestsInv
  <2>3. StreamsInv'
    BY <2>1 DEF StreamsInv, upstream
  <2>4. LockInv'
    BY <2>1, LockUntouched DEF LockInv
  <2>5. QED
    BY <2>1, <2>2, <2>3, <2>4
<1>4. CASE Answer(c)
  <2>1. Finished(c) /\ task[c] = "quick" /\ UNCHANGED <<upstream, reboot, crashes>>
    BY <1>4 DEF Answer
  <2>2. StreamsInv'
    BY <2>1 DEF StreamsInv, upstream
  <2>3. QED
    BY <2>1, <2>2, FinishedKeeps, OthersFinish
<1>5. CASE Connect(c)
  <2>1. UNCHANGED <<requests, reboot, crashes>>
    BY <1>5 DEF Connect
  <2>2. RequestsInv'
    BY <2>1 DEF RequestsInv, requests
  <2>3. LockInv'
    BY <2>1, LockUntouched DEF LockInv, requests
  <2>4. QED
    BY <1>5, <2>1, <2>2, <2>3, ConnectKeeps
<1>6. CASE UpstreamEnds(c) \/ Timeout(c)
  <2>1. /\ Finished(c) /\ Closed(c) /\ task[c] # "reboot"
        /\ UNCHANGED <<core, reboot, crashes>>
    BY <1>6 DEF UpstreamEnds, Timeout, Relaying, Relays
  <2>2. QED
    BY <2>1, FinishedKeeps, ClosedKeeps, OthersFinish
<1>7. CASE Receive(c)
  <2>1. UNCHANGED <<core, reboot, crashes>> /\ task[c] # "reboot"
    BY <1>7 DEF Receive, Relaying, Relays
  <2>2. CASE Finished(c) /\ Closed(c)
    BY <2>1, <2>2, FinishedKeeps, ClosedKeeps, OthersFinish
  <2>3. CASE /\ working' = working \ {c} /\ chunks' = chunks \ {c}
             /\ UNCHANGED <<task, left, queue, opened, streams>>
    <3>1. RequestsInv'
      BY <2>3, ReleasedKeeps
    <3>2. StreamsInv'
      BY <2>1, <2>3 DEF StreamsInv
    <3>3. LockInv'
      BY <2>1, <2>3, LockUntouched DEF LockInv
    <3>4. QED
      BY <2>1, <3>1, <3>2, <3>3
  <2>4. QED
    BY <1>7, <2>2, <2>3 DEF Receive
<1>8. CASE \/ EnterLock(c) \/ Conflict(c) \/ Schedule(c)
           \/ \E works \in BOOLEAN : Spawn(c, works)
  <2>1. UNCHANGED <<upstream, crashes>>
    BY <1>8 DEF EnterLock, Conflict, Schedule, Spawn
  <2>2. StreamsInv'
    BY <2>1 DEF StreamsInv, upstream
  <2>3. QED
    BY <1>8, <2>1, <2>2, RebootKeeps
<1>9. QED
  BY <1>1, <1>2, <1>3, <1>4, <1>5, <1>6, <1>7, <1>8 DEF Thread

\* Every step of a request, a stream and a reboot keeps the invariant.
LEMMA GatewayStep == GatewayInv /\ [GatewayNext]_gatewayVars => GatewayInv'
<1> SUFFICES ASSUME GatewayInv, [GatewayNext]_gatewayVars PROVE GatewayInv'
  OBVIOUS
<1> USE DEF GatewayInv
<1>1. CASE Take
  <2>1. StreamsInv' /\ crashes' = crashes
    BY <1>1 DEF Take, StreamsInv, upstream
  <2>2. LockInv'
    BY <1>1, LockUntouched DEF Take, LockInv
  <2>3. QED
    BY <1>1, <2>1, <2>2, TakeKeeps
<1>2. CASE CoreSends
  <2>1. UNCHANGED <<requests, opened, streams, core, reboot, crashes>>
    BY <1>2 DEF CoreSends
  <2>2. chunks' \subseteq ToSet(streams)
    BY <1>2 DEF CoreSends, StreamsInv, ToSet
  <2>3. RequestsInv' /\ StreamsInv'
    BY <2>1, <2>2 DEF RequestsInv, StreamsInv, requests
  <2>4. LockInv'
    BY <2>1, LockUntouched DEF LockInv, requests
  <2>5. QED
    BY <2>1, <2>3, <2>4
<1>3. CASE Reboot
  BY <1>3, AnewKeeps DEF Reboot
<1>4. CASE ShellFails
  <2>1. /\ shells' \in Nat
        /\ UNCHANGED <<requests, upstream, inside, checked, reboot_scheduled,
                       spawning, spawned, crashes>>
    BY <1>4 DEF ShellFails, LockInv
  <2>2. QED
    BY <2>1 DEF RequestsInv, StreamsInv, LockInv, requests, upstream
<1>5. CASE GatewayCrash
  BY <1>5, AnewKeeps, CrashesAssumption DEF GatewayCrash, StreamsInv, LockInv
<1>6. CASE CoreCrash \/ CoreStart
  <2>1. UNCHANGED <<requests, opened, reboot>> /\ crashes' \in 0..MaxCrashes
    BY <1>6, CrashesAssumption DEF CoreCrash, CoreStart
  <2>2. RequestsInv'
    BY <2>1 DEF RequestsInv, requests
  <2>3. LockInv'
    BY <2>1, LockUntouched DEF LockInv, requests
  <2>4. core' \in BOOLEAN
    BY <1>6, Zenon DEF CoreCrash, CoreStart
  <2>5. StreamsInv'
    <3>1. CASE CoreCrash
      BY <2>1, <2>4, <3>1 DEF CoreCrash, StreamsInv, IsInjective
    <3>2. CASE CoreStart
      BY <2>1, <2>4, <3>2 DEF CoreStart, StreamsInv
    <3>3. QED
      BY <1>6, <3>1, <3>2
  <2>6. QED
    BY <2>1, <2>2, <2>3, <2>5
<1>7. CASE UNCHANGED gatewayVars
  BY <1>7 DEF gatewayVars, requests, upstream, reboot, RequestsInv, StreamsInv,
              LockInv
<1>8. QED
  BY <1>1, <1>2, <1>3, <1>4, <1>5, <1>6, <1>7, ClientKeeps DEF GatewayNext

\* The gateway starts with no request, no stream and an open lock.
LEMMA GatewayStarts == GatewayInit => GatewayInv
<1> SUFFICES ASSUME GatewayInit PROVE GatewayInv
  OBVIOUS
<1>1. RequestsInv
  <2>1. working = {} /\ Cardinality({}) = 0 /\ IsFiniteSet({})
    BY FS_EmptySet DEF GatewayInit
  <2>2. ToSet(<<>>) = {}
    BY DEF ToSet
  <2>3. QED
    BY <2>1, <2>2, WorkersAssumption
    DEF GatewayInit, RequestsInv, IsInjective, Kinds
<1>2. StreamsInv
  BY DEF GatewayInit, StreamsInv, IsInjective
<1>3. LockInv
  <2>1. reboot_scheduled \in BOOLEAN /\ ~reboot_scheduled
    BY Zenon DEF GatewayInit
  <2>2. QED
    BY <2>1 DEF GatewayInit, LockInv
<1>4. QED
  BY <1>1, <1>2, <1>3, CrashesAssumption DEF GatewayInv, GatewayInit

\* The requests, the streams and the reboot lock of the gateway, at every step.
THEOREM GatewayInductive == GatewaySpec => []GatewayInv
BY GatewayStarts, GatewayStep, PTL DEF GatewaySpec

\* No more threads work than the pool has, nobody waits for one who has one,
\* and every connection to the core belongs to a response that is open.
THEOREM GatewayTypesOK == GatewaySpec => []GatewayTypeOK
<1>1. GatewayInv => GatewayTypeOK
  <2> SUFFICES ASSUME GatewayInv PROVE GatewayTypeOK
    OBVIOUS
  <2>1. spawned \in Nat
    BY DEF GatewayInv, LockInv
  <2>2. QED
    BY <2>1 DEF GatewayInv, RequestsInv, StreamsInv, LockInv, GatewayTypeOK
<1>2. QED
  BY <1>1, GatewayInductive, PTL

\* However many threads get the reboot command at once, one run of the
\* gateway starts one shell.
THEOREM OneRebootOnly == GatewaySpec => []OneReboot
<1>1. GatewayInv => OneReboot
  BY DEF GatewayInv, LockInv, OneReboot
<1>2. QED
  BY <1>1, GatewayInductive, PTL

----------------------------------------------------------------------------
(* The processor's share.                                                  *)

\* No counter has fallen from reading a to reading b: neither the idle time
\* nor the rest of the total.
Later(a, b) ==
    /\ a["idle"] <= b["idle"]
    /\ a["total"] - a["idle"] <= b["total"] - b["idle"]

\* What a call finds that follows one which met no other: what that one read.
Undisturbed(t) ==
    /\ Later(base, read[t])
    /\ \A w \in Words :
         /\ stage[t][w] = "load" => previous[w] = base[w]
         /\ stage[t][w] \in {"store", "done"} => got[t][w] = base[w]

CpuInv ==
    /\ CpuTypeOK
    /\ Later(Zero, proc) /\ Later(base, proc)
    /\ \A t \in Threads :
         (stage[t]["total"] = "none") <=> (stage[t]["idle"] = "none")
    /\ \A t \in Running : Later(read[t], proc)
    /\ \A t \in Running : ~overlapped[t] =>
         /\ Running = {t}
         /\ \A w \in Words : stage[t][w] = "done" => previous[w] = read[t][w]
         /\ settled => Undisturbed(t)
    /\ settled /\ Running = {} => previous = base

\* A difference of two unsigned words: again one, and the plain difference
\* where there is one.
LEMMA MinusWord ==
    ASSUME NEW a \in 0..MaxTotal, NEW b \in 0..MaxTotal
    PROVE  /\ Minus(a, b) \in 0..(Word - 1)
           /\ b <= a => Minus(a, b) = a - b
BY WordAssumption DEF Minus

\* The share that is answered fits a word and is never of nothing.
LEMMA UsageType ==
    ASSUME CpuTypeOK, NEW t \in Threads
    PROVE  /\ Usage(t).busy \in 0..(Word - 1)
           /\ Usage(t).of \in 1..(Word - 1)
<1> DEFINE total == Minus(read[t]["total"], got[t]["total"])
           idle  == Minus(read[t]["idle"], got[t]["idle"])
<1>1. total \in 0..(Word - 1) /\ idle \in 0..(Word - 1)
  BY MinusWord DEF CpuTypeOK, Reading, Words
<1>2. None.busy = 0 /\ None.of = 1
  BY DEF None
<1>3. CASE got[t]["total"] = 0 \/ total = 0 \/ idle > total
  BY <1>2, <1>3, WordAssumption DEF Usage
<1>4. CASE ~(got[t]["total"] = 0 \/ total = 0 \/ idle > total)
  <2>1. Usage(t) = [of |-> total, busy |-> total - idle]
    BY <1>4 DEF Usage
  <2>2. Usage(t).of = total /\ Usage(t).busy = total - idle
    BY <2>1
  <2>3. total \in 1..(Word - 1) /\ total - idle \in 0..(Word - 1)
    BY <1>1, <1>4, WordAssumption
  <2>4. QED
    BY <2>2, <2>3
<1>5. QED
  BY <1>3, <1>4

\* No call has been made.
LEMMA CpuInitInv == CpuInit => CpuInv
<1> SUFFICES ASSUME CpuInit PROVE CpuInv
  OBVIOUS
<1> USE WordAssumption DEF CpuInit, Zero, Reading, Words
<1>1. CpuTypeOK
  BY DEF CpuTypeOK, None
<1>2. Running = {}
  BY DEF Running
<1>3. QED
  BY <1>1, <1>2 DEF CpuInv, Later

\* The counters of /proc/stat only grow, so every word keeps its range.
LEMMA CpuTypeStep ==
    CpuTypeOK /\ Later(Zero, proc) /\ [CpuNext]_cpuVars => CpuTypeOK'
<1> SUFFICES ASSUME CpuTypeOK, Later(Zero, proc), [CpuNext]_cpuVars
             PROVE  CpuTypeOK'
  OBVIOUS
<1> USE DEF CpuTypeOK, Reading, Words
<1>1. CASE \E i \in {0, 1} : Tick(i)
  BY <1>1, WordAssumption DEF Tick, Later, Zero
<1>2. ASSUME NEW t \in Threads, ReadStat(t) PROVE CpuTypeOK'
  BY <1>2 DEF ReadStat
<1>3. ASSUME NEW t \in Threads, Return(t) PROVE CpuTypeOK'
  <2>1. answer'.busy \in 0..(Word - 1) /\ answer'.of \in 1..(Word - 1)
    BY <1>3, UsageType DEF Return
  <2>2. base' \in Reading /\ read' \in [Threads -> Reading]
        /\ got' \in [Threads -> Reading]
    BY <1>3, WordAssumption DEF Return, Zero
  <2>3. settled' \in BOOLEAN /\ overlapped' \in [Threads -> BOOLEAN]
        /\ stage' \in [Threads -> [Words -> {"none", "load", "store", "done"}]]
    BY <1>3 DEF Return
  <2>4. UNCHANGED <<proc, previous>>
    BY <1>3 DEF Return
  <2>5. QED
    BY <2>1, <2>2, <2>3, <2>4
<1>4. ASSUME NEW t \in Threads, NEW w \in Words, Load(t, w)
      PROVE  CpuTypeOK'
  BY <1>4 DEF Load
<1>5. ASSUME NEW t \in Threads, NEW w \in Words, Store(t, w)
      PROVE  CpuTypeOK'
  BY <1>5 DEF Store
<1>6. CASE UNCHANGED cpuVars
  BY <1>6 DEF cpuVars
<1>7. QED
  BY <1>1, <1>2, <1>3, <1>4, <1>5, <1>6 DEF CpuNext

\* One lemma per kind of step: CpuInv is kept.
LEMMA TickStep ==
    ASSUME CpuInv, CpuTypeOK', NEW i \in {0, 1}, Tick(i) PROVE CpuInv'
<1> USE DEF CpuTypeOK, Reading, Words
<1>1. Running' = Running
  BY DEF Tick, Running
<1>2. /\ proc'["idle"] = proc["idle"] + i
      /\ proc'["total"] = proc["total"] + 1
  BY DEF Tick, CpuInv
<1>3. \A t \in Threads : Undisturbed(t) => Undisturbed(t)'
  BY DEF Tick, Undisturbed, Later
<1>4. ASSUME NEW r \in Reading, Later(r, proc) PROVE Later(r, proc')
  BY <1>2, <1>4 DEF Later, CpuInv
<1>5. Zero \in Reading
  BY WordAssumption DEF Zero
<1>6. /\ Later(Zero, proc)' /\ Later(base, proc)'
      /\ \A t \in Running : Later(read[t], proc)'
  <2>1. base' = base /\ read' = read /\ Zero' = Zero
    BY DEF Tick, Zero
  <2>2. Later(Zero, proc') /\ Later(base, proc')
    BY <1>4, <1>5 DEF CpuInv
  <2>3. \A t \in Running : Later(read[t], proc')
    BY <1>4 DEF CpuInv, Running
  <2>4. QED
    BY <2>1, <2>2, <2>3 DEF Later
<1>7. UNCHANGED <<previous, read, stage, overlapped, settled, base>>
  BY DEF Tick
<1>8. ASSUME NEW t \in Running, ~overlapped[t]
      PROVE  /\ Running = {t}
             /\ \A w \in Words :
                  stage'[t][w] = "done" => previous'[w] = read'[t][w]
             /\ settled => Undisturbed(t)'
  BY <1>3, <1>7, <1>8 DEF CpuInv, Running
<1>9. \A t \in Threads :
         (stage'[t]["total"] = "none") <=> (stage'[t]["idle"] = "none")
  BY <1>7 DEF CpuInv
<1>10. settled /\ Running = {} => previous = base
  BY DEF CpuInv
<1>11. QED
  BY <1>1, <1>6, <1>7, <1>8, <1>9, <1>10 DEF CpuInv

\* A call begins, alone or while others run.
LEMMA ReadStatStep ==
    ASSUME CpuInv, CpuTypeOK', NEW t \in Threads, ReadStat(t)
    PROVE  CpuInv'
<1> USE DEF CpuTypeOK, Reading, Words
<1>1. Running' = Running \cup {t}
  BY DEF ReadStat, Running
<1>2. \A u \in Threads :
         (stage'[u]["total"] = "none") <=> (stage'[u]["idle"] = "none")
  BY DEF ReadStat, CpuInv
<1>3. Later(Zero, proc)' /\ Later(base, proc)'
      /\ \A u \in Running' : Later(read[u], proc)'
  BY <1>1 DEF ReadStat, CpuInv, Later, Zero, Running
<1>4. CASE Running = {}
  <2>1. settled => Undisturbed(t)'
    BY <1>4 DEF ReadStat, CpuInv, Undisturbed, Later
  <2>2. \A w \in Words : stage'[t][w] # "done"
    BY DEF ReadStat
  <2>3. settled' = settled
    BY DEF ReadStat
  <2>4. QED
    BY <1>1, <1>2, <1>3, <1>4, <2>1, <2>2, <2>3 DEF CpuInv
<1>5. CASE Running # {}
  <2>1. \A u \in Running' : overlapped'[u]
    BY <1>1, <1>5 DEF ReadStat, Running
  <2>2. QED
    BY <1>1, <1>2, <1>3, <2>1 DEF CpuInv
<1>6. QED
  BY <1>4, <1>5

\* A call takes one of the two static words.
LEMMA LoadStep ==
    ASSUME CpuInv, CpuTypeOK', NEW t \in Threads, NEW w \in Words, Load(t, w)
    PROVE  CpuInv'
<1> USE DEF CpuTypeOK, Reading, Words
<1>1. Running' = Running /\ t \in Running
  BY DEF Load, Running, CpuInv
<1>2. \A u \in Threads :
         (stage'[u]["total"] = "none") <=> (stage'[u]["idle"] = "none")
  BY DEF Load, CpuInv
<1>3. Later(Zero, proc)' /\ Later(base, proc)'
      /\ \A u \in Running : Later(read[u], proc)'
  BY DEF Load, CpuInv, Later, Zero
<1>4. ASSUME NEW u \in Running, ~overlapped[u]
      PROVE  /\ \A v \in Words :
                  stage'[u][v] = "done" => previous'[v] = read'[u][v]
             /\ settled => Undisturbed(u)'
  <2>1. u = t
    BY <1>1, <1>4 DEF CpuInv
  <2>2. \A v \in Words : stage'[u][v] = "done" => previous'[v] = read'[u][v]
    BY <1>4, <2>1 DEF CpuInv, Load, Running
  <2>3. settled => Undisturbed(u)'
    BY <1>4, <2>1 DEF CpuInv, Load, Running, Undisturbed, Later
  <2>4. QED
    BY <2>2, <2>3
<1>5. overlapped' = overlapped /\ settled' = settled
  BY DEF Load
<1>6. QED
  BY <1>1, <1>2, <1>3, <1>4, <1>5 DEF CpuInv

\* A call leaves one of its two readings there.
LEMMA StoreStep ==
    ASSUME CpuInv, CpuTypeOK', NEW t \in Threads, NEW w \in Words, Store(t, w)
    PROVE  CpuInv'
<1> USE DEF CpuTypeOK, Reading, Words
<1>1. Running' = Running /\ t \in Running
  BY DEF Store, Running, CpuInv
<1>2. \A u \in Threads :
         (stage'[u]["total"] = "none") <=> (stage'[u]["idle"] = "none")
  BY DEF Store, CpuInv
<1>3. Later(Zero, proc)' /\ Later(base, proc)'
      /\ \A u \in Running : Later(read[u], proc)'
  BY DEF Store, CpuInv, Later, Zero
<1>4. ASSUME NEW u \in Running, ~overlapped[u]
      PROVE  /\ \A v \in Words :
                  stage'[u][v] = "done" => previous'[v] = read'[u][v]
             /\ settled => Undisturbed(u)'
  <2>1. u = t
    BY <1>1, <1>4 DEF CpuInv
  <2>2. previous' = [previous EXCEPT ![w] = read[t][w]]
    BY DEF Store, Kept
  <2>3. \A v \in Words : stage'[u][v] = "done" => previous'[v] = read'[u][v]
    BY <1>4, <2>1, <2>2 DEF CpuInv, Store, Running
  <2>4. settled => Undisturbed(u)'
    BY <1>4, <2>1, <2>2 DEF CpuInv, Store, Running, Undisturbed, Later
  <2>5. QED
    BY <2>3, <2>4
<1>5. overlapped' = overlapped /\ settled' = settled
  BY DEF Store
<1>6. QED
  BY <1>1, <1>2, <1>3, <1>4, <1>5 DEF CpuInv

\* A call ends.
LEMMA ReturnStep ==
    ASSUME CpuInv, CpuTypeOK', NEW t \in Threads, Return(t)
    PROVE  CpuInv'
<1> USE DEF CpuTypeOK, Reading, Words
<1>1. Running' = Running \ {t} /\ t \in Running
  BY DEF Return, Running
<1>2. \A u \in Threads :
         (stage'[u]["total"] = "none") <=> (stage'[u]["idle"] = "none")
  BY DEF Return, CpuInv
<1>3. Later(Zero, proc)' /\ Later(base, proc)'
      /\ \A u \in Running' : Later(read[u], proc)'
  BY <1>1 DEF Return, CpuInv, Later, Zero, Running
<1>4. CASE overlapped[t]
  <2>1. ~settled'
    BY <1>4 DEF Return
  <2>2. ASSUME NEW u \in Running', ~overlapped'[u] PROVE FALSE
    BY <1>1, <1>4, <2>2 DEF CpuInv, Return, Running
  <2>3. QED
    BY <1>2, <1>3, <2>1, <2>2 DEF CpuInv
<1>5. CASE ~overlapped[t]
  <2>1. Running' = {}
    BY <1>1, <1>5 DEF CpuInv
  <2>2. base' = read[t] /\ previous' = previous
    BY <1>5 DEF Return
  <2>3. \A w \in Words : previous[w] = read[t][w]
    BY <1>1, <1>5 DEF CpuInv, Return
  <2>4. previous' = base'
    BY <2>2, <2>3
  <2>5. QED
    BY <1>2, <1>3, <2>1, <2>4 DEF CpuInv
<1>6. QED
  BY <1>4, <1>5

\* All steps of the calls and of the kernel.
LEMMA CpuStep == CpuInv /\ [CpuNext]_cpuVars => CpuInv'
<1> SUFFICES ASSUME CpuInv, [CpuNext]_cpuVars PROVE CpuInv'
  OBVIOUS
<1>1. CpuTypeOK'
  BY CpuTypeStep DEF CpuInv
<1>2. CASE UNCHANGED cpuVars
  BY <1>2, <1>1 DEF cpuVars, CpuInv, Later, Zero, Running, Undisturbed
<1>3. CASE CpuNext
  BY <1>1, <1>3, TickStep, ReadStatStep, LoadStep, StoreStep, ReturnStep
  DEF CpuNext
<1>4. QED
  BY <1>2, <1>3

\* The telemetry's type invariant: the answer is always a share, however the
\* calls overlap.
THEOREM CpuTypesOK == CpuSpec => []CpuTypeOK
<1>1. CpuInit => CpuInv
  BY CpuInitInv
<1>2. CpuInv /\ [CpuNext]_cpuVars => CpuInv'
  BY CpuStep
<1>3. CpuInv => CpuTypeOK
  BY DEF CpuInv
<1>4. QED
  BY <1>1, <1>2, <1>3, PTL DEF CpuSpec

\* A call that meets no other one, after one that met none either, answers
\* with the busy share of the time between them.
THEOREM LoneCallExact == CpuSpec => LoneCallsExact
<1>1. ASSUME CpuInv, NEW t \in Threads, Return(t), ~overlapped[t], settled
      PROVE  answer' = Busy(base, read[t])
  <2> USE <1>1 DEF CpuTypeOK, Reading, Words
  <2>1. t \in Running
    BY DEF Return, Running
  <2>2. Later(base, read[t])
    BY <2>1 DEF CpuInv, Undisturbed
  <2>3. got[t]["total"] = base["total"] /\ got[t]["idle"] = base["idle"]
    BY <2>1 DEF CpuInv, Return, Undisturbed
  <2>4. /\ base["total"] \in 0..MaxTotal /\ base["idle"] \in 0..MaxTotal
        /\ read[t]["total"] \in 0..MaxTotal /\ read[t]["idle"] \in 0..MaxTotal
    BY DEF CpuInv
  <2>5. /\ base["total"] <= read[t]["total"] /\ base["idle"] <= read[t]["idle"]
        /\ read[t]["idle"] - base["idle"] <= read[t]["total"] - base["total"]
    BY <2>2, <2>4 DEF Later
  <2>6. /\ Minus(read[t]["total"], got[t]["total"])
             = read[t]["total"] - base["total"]
        /\ Minus(read[t]["idle"], got[t]["idle"])
             = read[t]["idle"] - base["idle"]
    BY <2>3, <2>4, <2>5, MinusWord
  <2>7. Usage(t) =
          IF base["total"] = 0 \/ read[t]["total"] - base["total"] = 0 THEN None
          ELSE [of   |-> read[t]["total"] - base["total"],
                busy |-> (read[t]["total"] - base["total"])
                           - (read[t]["idle"] - base["idle"])]
    BY <2>3, <2>4, <2>5, <2>6 DEF Usage
  <2>8. /\ (read[t]["total"] - base["total"]) - (read[t]["idle"] - base["idle"])
             = (read[t]["total"] - read[t]["idle"])
                 - (base["total"] - base["idle"])
        /\ read[t]["total"] - base["total"] = 0
             <=> base["total"] = read[t]["total"]
    BY <2>4
  <2>9. Usage(t) = Busy(base, read[t])
    <3>1. CASE base["total"] \in {0, read[t]["total"]}
      <4>1. Usage(t) = None
        BY <3>1, <2>7, <2>8
      <4>2. QED
        BY <3>1, <4>1 DEF Busy
    <3>2. CASE base["total"] \notin {0, read[t]["total"]}
      <4>1. Usage(t) =
              [of   |-> read[t]["total"] - base["total"],
               busy |-> (read[t]["total"] - read[t]["idle"])
                          - (base["total"] - base["idle"])]
        BY <3>2, <2>7, <2>8
      <4>2. QED
        BY <3>2, <4>1 DEF Busy
    <3>3. QED
      BY <3>1, <3>2
  <2>10. QED
    BY <2>9 DEF Return
<1>2. CpuInv /\ [CpuNext]_cpuVars
        => [\A t \in Threads : Return(t) /\ ~overlapped[t] /\ settled
              => answer' = Busy(base, read[t])]_cpuVars
  BY <1>1
<1>3. QED
  BY <1>2, CpuInitInv, CpuStep, PTL DEF CpuSpec, LoneCallsExact
=============================================================================
