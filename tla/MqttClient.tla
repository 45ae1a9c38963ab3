----------------------------- MODULE MqttClient -----------------------------
(***************************************************************************)
(* The MQTT client of the core: mqtt_init, the callbacks that libmosquitto *)
(* makes from its network thread, and mqtt_cleanup, against a broker that  *)
(* keeps the retained status message and the client's last will.           *)
(*                                                                         *)
(* libmosquitto, the network and the broker are modelled from how the code *)
(* uses them: the thread connects again by itself, a connection may break  *)
(* at any time, which each side notices in its own time, and the broker    *)
(* publishes the will of a session that ends without a DISCONNECT, also    *)
(* when the same client connects anew.                                     *)
(***************************************************************************)
EXTENDS Integers

CONSTANTS
    Fallible,  \* the library calls that may fail
    MaxStarts  \* bound: starts of the core in a behaviour

Calls == {"lib_init", "new", "auth", "will_set", "loop_start", "connect_async",
          "publish"}

ASSUME FallibleAssumption == Fallible \subseteq Calls
ASSUME MaxStartsAssumption == MaxStarts \in Nat

VARIABLES
    \* The main thread.
    mt,         \* "down", "init", "loop", "failed", "run", "stop", "aborted"
    starts,     \* starts so far
    client,     \* mqtt_client is not NULL
    \* Written by both threads.
    connected,  \* mqtt_connected
    \* The network thread.
    nt,         \* "off", "idle", "try", "acked", "told", "up", "lost"
    \* The connection and the broker.
    link,       \* "none", "ok" or "broken"
    session,    \* "none", "will" or "bare", a session without a will
    retained,   \* the retained status: "none", "online" or "offline"
    \* History variables.
    farewell,   \* the last session ended by a DISCONNECT
    announced   \* the last connection made had its status published

main   == <<mt, starts, client>>
broker == <<session, retained, farewell, announced>>
mqttVars   == <<main, connected, nt, link, broker>>

MqttTypeOK ==
    /\ mt \in {"down", "init", "loop", "failed", "run", "stop", "aborted"}
    /\ starts \in 0..MaxStarts
    /\ client \in BOOLEAN /\ connected \in BOOLEAN
    /\ nt \in {"off", "idle", "try", "acked", "told", "up", "lost"}
    /\ link \in {"none", "ok", "broken"}
    /\ session \in {"none", "will", "bare"}
    /\ retained \in {"none", "online", "offline"}
    /\ farewell \in BOOLEAN /\ announced \in BOOLEAN

MqttInit ==
    /\ mt = "down" /\ starts = 0 /\ client = FALSE
    /\ connected = FALSE /\ nt = "off" /\ link = "none"
    /\ session = "none" /\ retained = "none" /\ farewell = TRUE
    /\ announced = FALSE

----------------------------------------------------------------------------
(* The main thread.                                                        *)

\* The core starts and gets to mqtt_init.
CoreStarts ==
    /\ mt \in {"down", "aborted"} /\ starts < MaxStarts
    /\ starts' = starts + 1
    /\ mt' = "init"
    /\ UNCHANGED <<client, connected, nt, link, broker>>

\* "MQTT is optional": without a library, a client, a will or a thread the
\* core goes on, with no client.
InitWithout ==
    /\ mt = "init"
    /\ {"lib_init", "new", "will_set", "loop_start"} \cap Fallible # {}
    /\ mt' = "run"
    /\ UNCHANGED <<starts, client, connected, nt, link, broker>>

\* A user name or password that is refused is an error of mqtt_init, and
\* application_init gives up.
InitRefused ==
    /\ mt = "init" /\ "auth" \in Fallible
    /\ mt' = "aborted"
    /\ UNCHANGED <<starts, client, connected, nt, link, broker>>

\* The client is made and given its will, and the thread started.
LoopStart ==
    /\ mt = "init"
    /\ mt' = "loop" /\ client' = TRUE /\ nt' = "idle"
    /\ UNCHANGED <<starts, connected, link, broker>>

\* The first connection is requested, without waiting for it ...
ConnectAsync ==
    /\ mt = "loop"
    /\ mt' = "run" /\ nt' = "try"
    /\ UNCHANGED <<starts, client, connected, link, broker>>

\* ... or that fails at once, and only the thread tries again ...
ConnectAsyncFails ==
    /\ mt = "loop" /\ "connect_async" \in Fallible
    /\ mt' = "failed" /\ nt' = "try"
    /\ UNCHANGED <<starts, client, connected, link, broker>>

\* ... after which the main thread writes what it takes for the state.
NotConnected ==
    /\ mt = "failed"
    /\ mt' = "run" /\ connected' = FALSE
    /\ UNCHANGED <<starts, client, nt, link, broker>>

\* mqtt_cleanup cancels the thread, wherever it is, ...
LoopStop ==
    /\ mt = "run"
    /\ mt' = "stop" /\ nt' = "off"
    /\ UNCHANGED <<starts, client, connected, link, broker>>

\* ... disconnects, if the connection still stands, and destroys the client.
Disconnect ==
    /\ mt = "stop"
    /\ IF client /\ link = "ok"
       THEN session' = "none" /\ farewell' = TRUE
       ELSE UNCHANGED <<session, farewell>>
    /\ mt' = "down" /\ client' = FALSE /\ connected' = FALSE /\ link' = "none"
    /\ UNCHANGED <<starts, nt, retained, announced>>

\* The process dies; its session stays until the broker notices.
CoreDies ==
    /\ mt \notin {"down", "aborted"}
    /\ mt' = "down" /\ client' = FALSE /\ connected' = FALSE
    /\ nt' = "off" /\ link' = "none"
    /\ UNCHANGED <<starts, broker>>

----------------------------------------------------------------------------
(* The network thread.                                                     *)

\* Defect: the client connects without having been given a will.
WithoutWill == "bare"

\* The session that a connection opens: mosquitto_will_set came before.
Session == "will"

\* What the broker makes of the status when a session is cut off.
LastWill == IF session = "will" THEN "offline" ELSE retained

\* The broker accepts; a session it still has of this client is cut off.
Connect ==
    /\ nt = "try"
    /\ nt' = "acked" /\ link' = "ok"
    /\ session' = Session /\ farewell' = FALSE
    /\ retained' = LastWill
    /\ UNCHANGED <<main, connected, announced>>

\* The broker refuses: mqtt_on_connect with rc # 0; the thread tries again.
Refused ==
    /\ nt = "try"
    /\ connected' = FALSE
    /\ UNCHANGED <<main, nt, link, broker>>

\* mqtt_on_connect: the flag, ...
OnConnect ==
    /\ nt = "acked"
    /\ connected' = TRUE /\ nt' = "told"
    /\ UNCHANGED <<main, link, broker>>

\* Defect: the status published without the retain flag.
NotRetained == retained

\* Defect: another word in the message.
Misspelt == "on"

Online == "online"

\* ... and the status, which the broker retains ...
OnlineArrives ==
    /\ nt = "told" /\ link = "ok"
    /\ retained' = Online /\ nt' = "up" /\ announced' = TRUE
    /\ UNCHANGED <<main, connected, link, session, farewell>>

\* ... or which cannot be published; an error message is all.
OnlineFails ==
    /\ nt = "told" /\ "publish" \in Fallible
    /\ nt' = "up" /\ announced' = FALSE
    /\ UNCHANGED <<main, connected, link, session, retained, farewell>>

\* The thread notices that the connection is broken ...
NoticeLost ==
    /\ nt \in {"acked", "told", "up"} /\ link = "broken"
    /\ nt' = "lost" /\ link' = "none"
    /\ UNCHANGED <<main, connected, broker>>

\* Defect: the flag left as it is.
StillConnected == connected

AfterDisconnect == FALSE

\* ... and calls mqtt_on_disconnect.
OnDisconnect ==
    /\ nt = "lost"
    /\ connected' = AfterDisconnect /\ nt' = "try"
    /\ UNCHANGED <<main, link, broker>>

----------------------------------------------------------------------------
(* The network and the broker.                                             *)

Break ==
    /\ link = "ok"
    /\ link' = "broken"
    /\ UNCHANGED <<main, connected, nt, broker>>

\* A closed connection or a keepalive that fails to come.
BrokerNotices ==
    /\ session # "none" /\ link # "ok"
    /\ session' = "none" /\ retained' = LastWill
    /\ UNCHANGED <<main, connected, nt, link, farewell, announced>>

MainThread ==
    \/ InitWithout \/ InitRefused \/ LoopStart \/ ConnectAsync
    \/ ConnectAsyncFails \/ NotConnected \/ Disconnect

NetworkThread ==
    \/ Connect \/ OnConnect \/ OnlineArrives \/ OnlineFails
    \/ NoticeLost \/ OnDisconnect

MqttNext ==
    \/ CoreStarts \/ MainThread \/ LoopStop \/ CoreDies
    \/ NetworkThread \/ Refused \/ Break \/ BrokerNotices

MqttSpec == MqttInit /\ [][MqttNext]_mqttVars

\* Both threads run on, and the broker notices in the end.  That the core is
\* started, stopped or killed, and that a connection breaks, is not promised.
MqttFairSpec ==
    MqttSpec /\ WF_mqttVars(MainThread) /\ WF_mqttVars(NetworkThread)
         /\ WF_mqttVars(BrokerNotices)

----------------------------------------------------------------------------
(* Properties.                                                             *)

\* A standing connection that the client has announced is announced: no will
\* of an earlier session overtakes the new one's status.
OnlineShown ==
    nt = "up" /\ link = "ok" /\ announced =>
        retained = "online" /\ session = "will"

\* "The broker will publish the LWT offline message automatically if this
\* client disappears unexpectedly": a core that is gone for good without
\* having said so is not shown as online for good.
GoneMeansOffline ==
    <>[](mt \in {"down", "aborted"} /\ ~farewell) => <>[](retained # "online")

\* The flag that two threads write never runs ahead: the main loop publishes
\* only on a connection that the network thread has reported and not given up.
FlagNotAhead == connected /\ mt = "run" => nt \in {"told", "up", "lost"}

\* "Return MQTT connection state", of mqtt_is_connected: a lasting connection
\* is one that the main loop publishes on.
ConnectionIsUsed == <>[](nt = "up" /\ mt = "run") => <>[]connected
=============================================================================
