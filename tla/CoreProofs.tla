----------------------------- MODULE CoreProofs -----------------------------
(***************************************************************************)
(* The core's main process and its MQTT client.                            *)
(*                                                                         *)
(* CoreProcess for every number of buffers: none is lost on its way        *)
(* between the driver and the core, and an orderly end releases            *)
(* everything, the name of the segment included.                           *)
(*                                                                         *)
(* MqttClient for any library calls that fail and any number of starts:    *)
(* no status is overtaken by an earlier will, and the flag that two        *)
(* threads write is not ahead of the connection.                           *)
(***************************************************************************)
EXTENDS CoreProcess, MqttClient, TLAPS

\* The parts of application_init and the steps before the buffers.
InitSteps == {"config", "log", "web", "segment", "history", "signals",
              "email", "mqtt", "open"}
EndSteps  == {"camera_stop", "mqtt_cleanup", "web_server_stop",
              "email_cleanup", "history_shutdown", "shm_destroy",
              "email_again", "config_unload", "log_close"}

\* Whose the buffers are, step by step.
BufferInv ==
    /\ pc \in InitSteps \cup {"format", "rate", "request"}
         => \A b \in Buffer : owner[b] = "none"
    /\ pc = "map"
         => \E n \in Nat : /\ n < granted
                           /\ \A b \in Buffer :
                                 owner[b] = IF b <= n THEN "driver" ELSE "none"
    /\ pc \in {"stream", "loop", "capture", "poll", "camera_stop"}
         => \A b \in Buffer :
              IF b <= granted THEN owner[b] \in {"driver", "filled"}
                              ELSE owner[b] = "none"
    /\ pc = "work"
         => \A b \in Buffer : owner[b] # "none" <=> b <= granted

\* What is released by the time a step of application_shutdown is reached.
Released(s) ==
    CASE s = "mqtt_cleanup"     -> {"camera"}
      [] s = "web_server_stop"  -> {"camera", "client"}
      [] s = "email_cleanup"    -> {"camera", "client", "server"}
      [] s = "history_shutdown" -> {"camera", "client", "server", "curl"}
      [] s = "shm_destroy"      -> {"camera", "client", "server", "curl"}
      [] s = "email_again"      -> Resources \ {"config", "log"}
      [] s = "config_unload"    -> Resources \ {"config", "log"}
      [] s = "log_close"        -> Resources \ {"log"}
      [] OTHER                  -> {}

EndInv ==
    /\ held \cap Released(pc) = {}
    /\ pc \in {"email_again", "config_unload", "log_close"} => ~named
    /\ OrderlyEndIsClean

IInv == TypeOK /\ BufferInv /\ EndInv

----------------------------------------------------------------------------
LEMMA Domains ==
    /\ DOMAIN Gives = InitSteps /\ DOMAIN Then = InitSteps
    /\ DOMAIN Onward = EndSteps
BY DEF Gives, Then, Onward, InitSteps, EndSteps

LEMMA InitOrder ==
    ASSUME NEW s \in InitSteps
    PROVE  Then[s] \in InitSteps \cup {"format"} /\ Gives[s] \subseteq Resources
BY DEF Then, Gives, InitSteps, Resources

LEMMA EndOrder ==
    ASSUME NEW s \in EndSteps
    PROVE  /\ Onward[s] \in EndSteps \cup {"down"} /\ Onward[s] # "camera_stop"
           /\ Onward[s] = "down" <=> s = "log_close"
           /\ s # "log_close"
                => Released(Onward[s]) = Released(s) \cup Releases(s)
           /\ s = "log_close" => Resources = Released(s) \cup Releases(s)
           /\ Onward[s] \in {"email_again", "config_unload", "log_close"}
                <=> s \in {"shm_destroy", "email_again", "config_unload"}
           /\ "segment" \in Releases(s) <=> s = "shm_destroy"
<1>1. CASE s \in {"camera_stop", "mqtt_cleanup", "web_server_stop"}
  BY <1>1 DEF Onward, EndSteps, Released, Releases, Resources
<1>2. CASE s \in {"email_cleanup", "history_shutdown", "shm_destroy"}
  BY <1>2 DEF Onward, EndSteps, Released, Releases, Resources
<1>3. CASE s \in {"email_again", "config_unload", "log_close"}
  BY <1>3 DEF Onward, EndSteps, Released, Releases, Resources
<1> QED BY <1>1, <1>2, <1>3 DEF EndSteps

LEMMA InitInv == Init => IInv
<1> SUFFICES ASSUME Init PROVE IInv OBVIOUS
<1>1. running \in BOOLEAN /\ handlers \in BOOLEAN /\ named \in BOOLEAN
      /\ orderly \in BOOLEAN /\ ~orderly
  BY Zenon DEF Init
<1>2. TypeOK
  BY <1>1, BufferCountAssumption DEF Init, TypeOK, NoBuffers
<1>3. BufferInv
  BY DEF Init, BufferInv, InitSteps
<1>4. held = {}
  BY DEF Init
<1>5. EndInv
  BY <1>1, <1>4 DEF Init, EndInv, OrderlyEndIsClean
<1> QED BY <1>2, <1>3, <1>5 DEF IInv

----------------------------------------------------------------------------
(* Each step, by the part of the invariant.                                *)

LEMMA TypeStep == TypeOK /\ [Next]_vars => TypeOK'
<1> SUFFICES ASSUME TypeOK, [Next]_vars PROVE TypeOK' OBVIOUS
<1> USE BufferCountAssumption, Domains DEF TypeOK
<1> DEFINE Steps == {"down"} \cup InitSteps \cup CameraSteps \cup LoopSteps
                      \cup EndSteps
           Flags == /\ running' \in BOOLEAN /\ handlers' \in BOOLEAN
                    /\ named' \in BOOLEAN /\ orderly' \in BOOLEAN
<1>1. CASE InitStep
  <2>1. Flags
    BY <1>1, Zenon DEF InitStep
  <2>2. pc' \in Steps /\ held' \subseteq Resources
    BY <1>1, InitOrder DEF InitStep, CameraSteps
  <2> QED BY <1>1, <2>1, <2>2 DEF InitStep, buffers
<1>2. CASE InitFails \/ TooFewBuffers \/ MapFails \/ SignalKills \/ Crash
  <2>1. Flags
    BY <1>2, Zenon DEF InitFails, TooFewBuffers, MapFails, SignalKills, Crash,
                       Ends
  <2>2. pc' = "down" /\ UNCHANGED <<held, granted, owner, camera>>
    BY <1>2 DEF InitFails, TooFewBuffers, MapFails, SignalKills, Crash, Ends,
                buffers
  <2> QED BY <2>1, <2>2
<1>3. CASE SetFormat \/ SetRate \/ StreamOn \/ LoopHead
  <2>1. Flags
    BY <1>3, Zenon DEF SetFormat, SetRate, StreamOn, LoopHead
  <2>2. pc' \in Steps /\ UNCHANGED <<held, granted, owner, camera>>
    BY <1>3 DEF SetFormat, SetRate, StreamOn, LoopHead, buffers, CameraSteps,
                LoopSteps, EndSteps
  <2> QED BY <2>1, <2>2
<1>4. ASSUME NEW n \in 2..BufferCount, RequestBuffers(n) PROVE TypeOK'
  <2>1. Flags
    BY <1>4, Zenon DEF RequestBuffers
  <2> QED BY <1>4, <2>1 DEF RequestBuffers, CameraSteps
<1>5. ASSUME NEW b \in Buffer, MapBuffer(b) PROVE TypeOK'
  <2>1. Flags
    BY <1>5, Zenon DEF MapBuffer
  <2> QED BY <1>5, <2>1 DEF MapBuffer, CameraSteps
<1>6. ASSUME NEW b \in Buffer, Dequeue(b) PROVE TypeOK'
  <2>1. Flags
    BY <1>6, Zenon DEF Dequeue
  <2> QED BY <1>6, <2>1 DEF Dequeue, LoopSteps
<1>7. ASSUME NEW e \in BOOLEAN, Enqueue(e) PROVE TypeOK'
  <2>1. Flags
    BY <1>7, Zenon DEF Enqueue
  <2> QED BY <1>7, <2>1 DEF Enqueue, Requeued, LoopSteps
<1>8. CASE PollAndReport
  <2>1. Flags
    BY <1>8, Zenon DEF PollAndReport, StillRunning
  <2> QED BY <1>8, <2>1 DEF PollAndReport, LoopSteps, buffers
<1>9. CASE Shutdown
  <2>1. Flags
    BY <1>9, Zenon DEF Shutdown
  <2>2. pc' \in Steps
    BY <1>9, EndOrder DEF Shutdown
  <2> QED BY <1>9, <2>1, <2>2 DEF Shutdown, NoBuffers
<1>10. CASE Start
  <2>1. Flags
    BY <1>10, Zenon DEF Start
  <2> QED BY <1>10, <2>1 DEF Start, NoBuffers, InitSteps
<1>11. CASE SignalHandler
  <2>1. Flags
    BY <1>11, Zenon DEF SignalHandler
  <2> QED BY <1>11, <2>1 DEF SignalHandler, buffers
<1>12. ASSUME NEW b \in Buffer, Fill(b) PROVE TypeOK'
  <2>1. Flags
    BY <1>12, Zenon DEF Fill, process
  <2> QED BY <1>12, <2>1 DEF Fill, process
<1>13. ASSUME NEW c \in {"live", "stalled", "gone"}, CameraBecomes(c)
       PROVE  TypeOK'
  <2>1. Flags
    BY <1>13, Zenon DEF CameraBecomes, process
  <2> QED BY <1>13, <2>1 DEF CameraBecomes, process, buffers
<1>14. CASE UNCHANGED vars
  BY <1>14 DEF vars, process, buffers
<1> QED
  BY <1>1, <1>2, <1>3, <1>4, <1>5, <1>6, <1>7, <1>8, <1>9, <1>10, <1>11,
     <1>12, <1>13, <1>14 DEF Next, CoreStep

LEMMA BufferStep == TypeOK /\ BufferInv /\ [Next]_vars => BufferInv'
<1> SUFFICES ASSUME TypeOK, BufferInv, [Next]_vars PROVE BufferInv' OBVIOUS
<1> USE BufferCountAssumption, Domains DEF TypeOK, BufferInv
<1>1. CASE InitStep
  BY <1>1, InitOrder DEF InitStep, buffers, InitSteps
<1>2. CASE InitFails \/ TooFewBuffers \/ MapFails \/ SignalKills \/ Crash
  <2>1. pc' = "down"
    BY <1>2 DEF InitFails, TooFewBuffers, MapFails, SignalKills, Crash, Ends
  <2> QED BY <2>1 DEF InitSteps
<1>3. CASE SetFormat \/ SetRate
  BY <1>3 DEF SetFormat, SetRate, buffers, InitSteps
<1>4. CASE StreamOn \/ LoopHead \/ PollAndReport
  BY <1>4 DEF StreamOn, LoopHead, PollAndReport, buffers, InitSteps
<1>5. ASSUME NEW n \in 2..BufferCount, RequestBuffers(n) PROVE BufferInv'
  <2>1. /\ pc' = "map" /\ granted' = n /\ 0 < n
        /\ \A b \in Buffer : owner'[b] = "none"
    BY <1>5 DEF RequestBuffers
  <2>2. \A b \in Buffer : owner'[b] = IF b <= 0 THEN "driver" ELSE "none"
    BY <2>1 DEF Buffer
  <2> QED BY <2>1, <2>2 DEF InitSteps
<1>6. ASSUME NEW b \in Buffer, MapBuffer(b) PROVE BufferInv'
  <2>1. PICK n \in Nat : /\ n < granted
                         /\ \A c \in Buffer :
                               owner[c] = IF c <= n THEN "driver" ELSE "none"
    BY <1>6 DEF MapBuffer
  <2>2. b = n + 1
    <3>1. b \in Nat /\ n < b
      BY <1>6, <2>1 DEF MapBuffer, Buffer
    <3>2. b > n + 1 => n + 1 \in 1..(b - 1) /\ n + 1 \in Buffer
      BY <3>1 DEF Buffer
    <3>3. n + 1 \in Buffer => owner[n + 1] = "none"
      BY <2>1
    <3> QED BY <1>6, <3>1, <3>2, <3>3 DEF MapBuffer
  <2>3. \A c \in Buffer : owner'[c] = IF c <= n + 1 THEN "driver" ELSE "none"
    BY <1>6, <2>1, <2>2 DEF MapBuffer, Buffer
  <2>4. b <= granted /\ granted' = granted
        /\ pc' = IF b = granted THEN "stream" ELSE "map"
    BY <1>6 DEF MapBuffer
  <2>5. CASE b = granted
    BY <2>2, <2>3, <2>4, <2>5 DEF InitSteps, Buffer
  <2>6. CASE b # granted
    <3>1. n + 1 \in Nat /\ n + 1 < granted
      BY <2>2, <2>4, <2>6
    <3> QED BY <2>3, <2>4, <2>6, <3>1 DEF InitSteps
  <2> QED BY <2>5, <2>6
<1>7. ASSUME NEW b \in Buffer, Dequeue(b) PROVE BufferInv'
  <2>1. pc' = "work" /\ granted' = granted
        /\ owner' = [owner EXCEPT ![b] = "core"]
    BY <1>7 DEF Dequeue
  <2>2. \A c \in Buffer : owner[c] # "none" <=> c <= granted
    BY <1>7 DEF Dequeue
  <2>3. owner[b] # "none"
    BY <1>7 DEF Dequeue
  <2> QED BY <2>1, <2>2, <2>3 DEF InitSteps
<1>8. ASSUME NEW e \in BOOLEAN, Enqueue(e) PROVE BufferInv'
  BY <1>8 DEF Enqueue, Requeued, InitSteps
<1>9. CASE Shutdown
  <2>1. pc' \notin InitSteps \cup {"format", "rate", "request", "map", "stream",
                                   "loop", "capture", "poll", "camera_stop",
                                   "work"}
    BY <1>9, EndOrder DEF Shutdown, InitSteps, EndSteps
  <2> QED BY <2>1
<1>10. CASE Start
  BY <1>10 DEF Start, NoBuffers, InitSteps
<1>11. CASE \/ SignalHandler
            \/ \E c \in {"live", "stalled", "gone"} : CameraBecomes(c)
  BY <1>11 DEF SignalHandler, CameraBecomes, process, buffers
<1>12. ASSUME NEW b \in Buffer, Fill(b) PROVE BufferInv'
  BY <1>12 DEF Fill, process, LoopSteps, InitSteps
<1>13. CASE UNCHANGED vars
  BY <1>13 DEF vars, process, buffers
<1> QED
  BY <1>1, <1>2, <1>3, <1>4, <1>5, <1>6, <1>7, <1>8, <1>9, <1>10, <1>11,
     <1>12, <1>13 DEF Next, CoreStep

LEMMA EndStep == TypeOK /\ EndInv /\ [Next]_vars => EndInv'
<1> SUFFICES ASSUME TypeOK, EndInv, [Next]_vars PROVE EndInv' OBVIOUS
<1> USE Domains DEF EndInv, OrderlyEndIsClean
<1>1. CASE Shutdown
  <2>1. /\ pc \in EndSteps /\ pc' = Onward[pc]
        /\ held' = held \ Releases(pc) /\ orderly' = (pc = "log_close")
        /\ named' = (named /\ "segment" \notin Releases(pc))
    BY <1>1 DEF Shutdown
  <2>2. held' \cap (Released(pc) \cup Releases(pc)) = {}
    BY <2>1
  <2>3. held' \subseteq Resources
    BY <2>1 DEF TypeOK
  <2>4. CASE pc = "log_close"
    <3>1. pc' = "down" /\ held' = {}
      BY <2>1, <2>2, <2>3, <2>4, EndOrder
    <3>2. ~named
      BY <2>4
    <3>3. ~named'
      BY <2>1, <3>2, Zenon
    <3> QED BY <3>1, <3>3
  <2>5. CASE pc # "log_close"
    <3>1. held' \cap Released(pc') = {} /\ pc' # "down"
      BY <2>1, <2>2, <2>5, EndOrder
    <3>2. ASSUME pc' \in {"email_again", "config_unload", "log_close"}
          PROVE  ~named'
      <4>1. pc \in {"shm_destroy", "email_again", "config_unload"}
        BY <2>1, <3>2, EndOrder
      <4>2. "segment" \in Releases(pc) \/ ~named
        BY <2>1, <4>1, EndOrder
      <4> QED BY <2>1, <4>2, Zenon
    <3> QED BY <3>1, <3>2
  <2> QED BY <2>4, <2>5
<1>2. CASE InitFails \/ TooFewBuffers \/ MapFails \/ SignalKills \/ Crash
  <2>1. pc' = "down" /\ ~orderly'
    BY <1>2, Zenon DEF InitFails, TooFewBuffers, MapFails, SignalKills, Crash,
                       Ends
  <2> QED BY <2>1 DEF Released
<1>3. CASE Start \/ InitStep
  <2>1. pc' \in InitSteps \cup {"format"}
    BY <1>3, InitOrder DEF Start, InitStep, InitSteps
  <2> QED BY <2>1 DEF Released, InitSteps
<1>4. CASE \/ SetFormat \/ SetRate \/ StreamOn \/ LoopHead \/ PollAndReport
           \/ \E n \in 2..BufferCount : RequestBuffers(n)
           \/ \E b \in Buffer : MapBuffer(b) \/ Dequeue(b)
           \/ \E e \in BOOLEAN : Enqueue(e)
  <2>1. pc' \in CameraSteps \cup LoopSteps \cup {"camera_stop"}
    BY <1>4 DEF SetFormat, SetRate, StreamOn, LoopHead, PollAndReport,
                RequestBuffers, MapBuffer, Dequeue, Enqueue, CameraSteps,
                LoopSteps
  <2> QED BY <2>1 DEF Released, CameraSteps, LoopSteps
<1>5. CASE \/ SignalHandler \/ UNCHANGED vars
           \/ \E b \in Buffer : Fill(b)
           \/ \E c \in {"live", "stalled", "gone"} : CameraBecomes(c)
  <2>1. UNCHANGED <<pc, held, named, orderly>>
    BY <1>5 DEF SignalHandler, Fill, CameraBecomes, vars, process
  <2>2. named' = named /\ orderly' = orderly
    BY <2>1
  <2> QED BY <2>1, <2>2
<1> QED BY <1>1, <1>2, <1>3, <1>4, <1>5 DEF Next, CoreStep

----------------------------------------------------------------------------
\* The invariant holds throughout.
THEOREM Inductive == Spec => []IInv
<1>1. IInv /\ [Next]_vars => IInv'
  BY TypeStep, BufferStep, EndStep DEF IInv
<1> QED BY InitInv, <1>1, PTL DEF Spec

\* Every variable keeps its type.
THEOREM TypeCorrect == Spec => []TypeOK
<1>1. IInv => TypeOK BY DEF IInv
<1> QED BY <1>1, Inductive, PTL

\* No buffer of the camera is ever lost: whenever the core waits for a frame,
\* each one granted is with the driver.
THEOREM NoBufferLost == Spec => []BuffersConserved
<1>1. IInv => BuffersConserved
  BY DEF IInv, BufferInv, BuffersConserved
<1> QED BY <1>1, Inductive, PTL

\* An orderly end leaves nothing behind.
THEOREM NothingLeft == Spec => []OrderlyEndIsClean
<1>1. IInv => OrderlyEndIsClean BY DEF IInv, EndInv
<1> QED BY <1>1, Inductive, PTL

----------------------------------------------------------------------------
(* The MQTT client.                                                        *)

\* Where the main thread is against the network thread: there is none before
\* mosquitto_loop_start nor after mosquitto_loop_stop.
ThreadInv ==
    /\ mt \in {"down", "aborted", "init", "stop"} => nt = "off"
    /\ mt = "loop" => nt = "idle"

\* The flag is up only between mqtt_on_connect and mqtt_on_disconnect, or it
\* is left over from a thread that mqtt_cleanup has stopped.
FlagInv == connected => nt \in {"told", "up", "lost"} \/ mt = "stop"

\* A connection that stands has its session, which has the will.
SessionInv ==
    link = "ok" =>
        session = "will" /\ (nt \in {"acked", "told", "up"} \/ mt = "stop")

MqttInv == MqttTypeOK /\ ThreadInv /\ FlagInv /\ SessionInv /\ OnlineShown

\* Before the core is started nothing is connected.
LEMMA MqttInitInv == MqttInit => MqttInv
<1> SUFFICES ASSUME MqttInit PROVE MqttInv
  OBVIOUS
<1>1. 0 \in 0..MaxStarts BY MaxStartsAssumption
<1>2. ~connected /\ link = "none" /\ mt = "down" /\ nt = "off" BY DEF MqttInit
<1>3. MqttTypeOK BY <1>1, Zenon DEF MqttInit, MqttTypeOK
<1>4. ThreadInv /\ FlagInv /\ SessionInv /\ OnlineShown
  BY <1>2 DEF ThreadInv, FlagInv, SessionInv, OnlineShown
<1> QED BY <1>3, <1>4 DEF MqttInv

\* Steps of the main thread.
LEMMA MainStep ==
  ASSUME MqttInv, CoreStarts \/ MainThread \/ LoopStop \/ CoreDies
  PROVE  MqttInv'
<1> USE MaxStartsAssumption
    DEF MqttInv, MqttTypeOK, ThreadInv, FlagInv, SessionInv, OnlineShown, main,
        broker
<1>1. CASE CoreStarts BY <1>1 DEF CoreStarts
<1>2. CASE InitWithout \/ InitRefused BY <1>2 DEF InitWithout, InitRefused
<1>3. CASE LoopStart BY <1>3 DEF LoopStart
<1>4. CASE ConnectAsync \/ ConnectAsyncFails
  BY <1>4 DEF ConnectAsync, ConnectAsyncFails
<1>5. CASE NotConnected BY <1>5 DEF NotConnected
<1>6. CASE LoopStop BY <1>6 DEF LoopStop
<1>7. CASE Disconnect BY <1>7 DEF Disconnect
<1>8. CASE CoreDies BY <1>8 DEF CoreDies
<1> QED
  BY <1>1, <1>2, <1>3, <1>4, <1>5, <1>6, <1>7, <1>8 DEF MainThread

\* Steps of the network thread, of the network and of the broker.
LEMMA NetworkStep ==
  ASSUME MqttInv, NetworkThread \/ Refused \/ Break \/ BrokerNotices
  PROVE  MqttInv'
<1> USE DEF MqttInv, MqttTypeOK, ThreadInv, FlagInv, SessionInv, OnlineShown,
            main, broker
<1>1. CASE Connect BY <1>1 DEF Connect, Session, LastWill
<1>2. CASE Refused BY <1>2 DEF Refused
<1>3. CASE OnConnect BY <1>3 DEF OnConnect
<1>4. CASE OnlineArrives BY <1>4 DEF OnlineArrives, Online
<1>5. CASE OnlineFails BY <1>5 DEF OnlineFails
<1>6. CASE NoticeLost BY <1>6 DEF NoticeLost
<1>7. CASE OnDisconnect BY <1>7 DEF OnDisconnect, AfterDisconnect
<1>8. CASE Break BY <1>8 DEF Break
<1>9. CASE BrokerNotices BY <1>9 DEF BrokerNotices, LastWill
<1> QED
  BY <1>1, <1>2, <1>3, <1>4, <1>5, <1>6, <1>7, <1>8, <1>9 DEF NetworkThread

\* The invariant holds throughout.
THEOREM MqttInductive == MqttSpec => []MqttInv
<1>1. MqttInv /\ [MqttNext]_mqttVars => MqttInv'
  <2> SUFFICES ASSUME MqttInv, [MqttNext]_mqttVars PROVE MqttInv'
    OBVIOUS
  <2>1. CASE UNCHANGED mqttVars
    BY <2>1 DEF mqttVars, main, broker, MqttInv, MqttTypeOK, ThreadInv, FlagInv,
                SessionInv, OnlineShown
  <2> QED BY <2>1, MainStep, NetworkStep DEF MqttNext
<1> QED BY MqttInitInv, <1>1, PTL DEF MqttSpec

\* Every variable keeps its type.
THEOREM MqttTypeCorrect == MqttSpec => []MqttTypeOK
<1>1. MqttInv => MqttTypeOK BY DEF MqttInv
<1> QED BY <1>1, MqttInductive, PTL

\* No will of an earlier session overtakes the status of the new one.
THEOREM StatusIsShown == MqttSpec => []OnlineShown
<1>1. MqttInv => OnlineShown BY DEF MqttInv
<1> QED BY <1>1, MqttInductive, PTL

\* The flag does not run ahead of the network thread.
THEOREM FlagIsBehind == MqttSpec => []FlagNotAhead
<1>1. MqttInv => FlagNotAhead BY DEF MqttInv, FlagInv, FlagNotAhead
<1> QED BY <1>1, MqttInductive, PTL
=============================================================================
