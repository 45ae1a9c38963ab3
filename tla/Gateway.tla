------------------------------ MODULE Gateway ------------------------------
(***************************************************************************)
(* The FastAPI gateway: requests wait for one of its worker threads; a     *)
(* handler that passes on the core's stream keeps its thread until a chunk *)
(* comes or ten seconds are over; a reboot is scheduled under a lock.      *)
(*                                                                         *)
(* The handlers are plain functions, which FastAPI runs in a pool of       *)
(* Workers threads, the first come first.  Of a streaming response each    *)
(* single chunk is fetched in that pool, and the thread is kept even if    *)
(* the client has gone meanwhile.                                          *)
(***************************************************************************)
EXTENDS Integers, Sequences, SequencesExt, FiniteSets

CONSTANTS
    Clients,    \* of the gateway
    Asks(_),    \* what a client may ask for
    Workers,    \* threads in the pool
    MaxCrashes  \* bound: crashes of the gateway, and of the core

\* "quick" is every request that is answered by the library alone.
Kinds == {"quick", "reboot", "snapshot", "stream"}
Relays == {"snapshot", "stream"}

ASSUME AsksAssumption == \A c \in Clients : Asks(c) \subseteq Kinds
ASSUME WorkersAssumption == Workers \in Nat \ {0}
ASSUME CrashesAssumption == MaxCrashes \in Nat

VARIABLES
    task,      \* per client: what the gateway has to do for it
    left,      \* clients that have gone before it was done
    queue,     \* clients whose task waits for a thread
    working,   \* clients whose task has one
    opened,    \* clients whose task has asked the core for its stream
    streams,   \* the core's connections for them, the newest first
    chunks,    \* connections with a chunk that was not read yet
    core,      \* the core accepts connections
    inside,    \* tasks that hold reboot_lock
    checked,   \* those of them that found reboot_scheduled FALSE
    reboot_scheduled,
    spawning,  \* tasks between the lock and Popen
    shells,    \* shells that sleep before they reboot
    crashes,
    spawned    \* history: shells started by this run of the gateway

requests == <<task, left, queue, working>>
upstream == <<opened, streams, chunks, core>>
reboot   == <<inside, checked, reboot_scheduled, spawning, shells, spawned>>
gatewayVars == <<requests, upstream, reboot, crashes>>

GatewayTypeOK ==
    /\ task \in [Clients -> Kinds \cup {"none"}]
    /\ left \subseteq Clients /\ working \subseteq Clients
    /\ Cardinality(working) <= Workers
    /\ opened \subseteq Clients /\ chunks \subseteq ToSet(streams)
    /\ streams \in Seq(opened) /\ IsInjective(streams)
    /\ queue \in Seq(Clients \ working) /\ IsInjective(queue)
    /\ core \in BOOLEAN /\ reboot_scheduled \in BOOLEAN
    /\ checked \subseteq inside /\ inside \cup spawning \subseteq working
    /\ shells \in Nat /\ spawned \in Nat /\ crashes \in 0..MaxCrashes

\* The gateway as it starts.
StartsAnew ==
    /\ task' = [c \in Clients |-> "none"] /\ left' = {}
    /\ queue' = <<>> /\ working' = {}
    /\ opened' = {} /\ streams' = <<>> /\ chunks' = {}
    /\ inside' = {} /\ checked' = {} /\ reboot_scheduled' = FALSE
    /\ spawning' = {} /\ spawned' = 0

GatewayInit ==
    /\ task = [c \in Clients |-> "none"] /\ left = {}
    /\ queue = <<>> /\ working = {}
    /\ opened = {} /\ streams = <<>> /\ chunks = {} /\ core = TRUE
    /\ inside = {} /\ checked = {} /\ reboot_scheduled = FALSE
    /\ spawning = {} /\ shells = 0 /\ spawned = 0 /\ crashes = 0

----------------------------------------------------------------------------
(* Requests and threads.                                                   *)

Ask(c, kind) ==
    /\ task[c] = "none"
    /\ task' = [task EXCEPT ![c] = kind]
    /\ queue' = Append(queue, c)
    /\ UNCHANGED <<left, working, upstream, reboot, crashes>>

Take ==
    /\ queue # <<>> /\ Cardinality(working) < Workers
    /\ working' = working \cup {Head(queue)} /\ queue' = Tail(queue)
    /\ UNCHANGED <<task, left, upstream, reboot, crashes>>

\* Defect: the response of the core is not closed.
Leaked(c) == UNCHANGED <<opened, streams, chunks>>

\* Defect: it is only forgotten.
Forgotten(c) == opened' = opened \ {c} /\ UNCHANGED <<streams, chunks>>

\* response.close().
Closed(c) ==
    /\ opened' = opened \ {c} /\ chunks' = chunks \ {c}
    /\ streams' = RemoveFirst(streams, c)

\* Nothing is left to do for c.
Finished(c) ==
    /\ task' = [task EXCEPT ![c] = "none"] /\ left' = left \ {c}
    /\ working' = working \ {c}
    /\ queue' = RemoveFirst(queue, c)

\* A client goes away.  A response that is streamed ends with it, unless a
\* thread is at work on it; every other handler goes on.
GoesAway(c) ==
    /\ task[c] # "none" /\ c \notin left
    /\ IF task[c] = "stream" /\ c \notin working
         THEN Finished(c) /\ Closed(c)
         ELSE /\ left' = left \cup {c}
              /\ UNCHANGED <<task, queue, working, opened, streams, chunks>>
    /\ UNCHANGED <<core, reboot, crashes>>

Answer(c) ==
    /\ c \in working /\ task[c] = "quick"
    /\ Finished(c)
    /\ UNCHANGED <<upstream, reboot, crashes>>

----------------------------------------------------------------------------
(* The stream, and the snapshot, which is one frame of it.                 *)

Relaying(c) == c \in working /\ task[c] \in Relays

\* requests.get; the web server puts the newest connection first.
Connect(c) ==
    /\ Relaying(c) /\ c \notin opened /\ core
    /\ opened' = opened \cup {c} /\ streams' = <<c>> \o streams
    /\ UNCHANGED <<requests, chunks, core, reboot, crashes>>

\* No core, or its connection was lost: the response ends.
UpstreamEnds(c) ==
    /\ Relaying(c) /\ c \notin ToSet(streams)
    /\ c \in opened \/ ~core
    /\ Finished(c) /\ Closed(c)
    /\ UNCHANGED <<core, reboot, crashes>>

\* A chunk is there: the snapshot is complete, the stream goes to the client
\* first and asks for its next chunk afterwards.
Receive(c) ==
    /\ Relaying(c) /\ c \in chunks
    /\ IF task[c] = "snapshot" \/ c \in left
         THEN Finished(c) /\ Closed(c)
         ELSE /\ working' = working \ {c} /\ chunks' = chunks \ {c}
              /\ UNCHANGED <<task, left, queue, opened, streams>>
    /\ UNCHANGED <<core, reboot, crashes>>

\* The client has read its chunk.
NextChunk(c) ==
    /\ task[c] = "stream" /\ c \notin working \cup ToSet(queue)
    /\ queue' = Append(queue, c)
    /\ UNCHANGED <<task, left, working, upstream, reboot, crashes>>

\* Defect: no timeout is given.
Forever(c) == FALSE

\* Ten seconds without a byte.
TimedOut(c) == c \in ToSet(streams) \ chunks

Timeout(c) ==
    /\ Relaying(c) /\ TimedOut(c)
    /\ Finished(c) /\ Closed(c)
    /\ UNCHANGED <<core, reboot, crashes>>

\* The core has a frame for the newest connection that is not behind.
CoreSends ==
    /\ \E i \in DOMAIN streams :
         /\ streams[i] \notin chunks
         /\ \A j \in 1..(i - 1) : streams[j] \in chunks
         /\ chunks' = chunks \cup {streams[i]}
    /\ UNCHANGED <<requests, opened, streams, core, reboot, crashes>>

----------------------------------------------------------------------------
(* The reboot command.                                                     *)

Rebooting(c) == c \in working /\ task[c] = "reboot" /\ c \notin spawning

\* Defect: no lock.
NoLock(c) == TRUE

Free(c) == inside = {}

\* with reboot_lock, and the test in it.
EnterLock(c) ==
    /\ Rebooting(c) /\ c \notin inside /\ Free(c)
    /\ inside' = inside \cup {c}
    /\ checked' = IF reboot_scheduled THEN checked ELSE checked \cup {c}
    /\ UNCHANGED <<requests, upstream, reboot_scheduled, spawning, shells,
                   spawned, crashes>>

\* 409, "Reboot already scheduled".
Conflict(c) ==
    /\ c \in inside \ checked
    /\ inside' = inside \ {c}
    /\ Finished(c)
    /\ UNCHANGED <<upstream, checked, reboot_scheduled, spawning, shells,
                   spawned, crashes>>

Schedule(c) ==
    /\ c \in checked
    /\ reboot_scheduled' = TRUE
    /\ inside' = inside \ {c} /\ checked' = checked \ {c}
    /\ spawning' = spawning \cup {c}
    /\ UNCHANGED <<requests, upstream, shells, spawned, crashes>>

\* Popen starts the shell, or it cannot: the request fails, the flag stays.
Spawn(c, works) ==
    /\ c \in spawning
    /\ spawning' = spawning \ {c} /\ Finished(c)
    /\ IF works THEN shells' = shells + 1 /\ spawned' = spawned + 1
                ELSE UNCHANGED <<shells, spawned>>
    /\ UNCHANGED <<upstream, inside, checked, reboot_scheduled, crashes>>

\* Two seconds later: the machine starts anew.
Reboot ==
    /\ shells > 0
    /\ shells' = 0 /\ core' = TRUE /\ StartsAnew
    /\ UNCHANGED crashes

\* systemctl refuses.
ShellFails ==
    /\ shells > 0
    /\ shells' = shells - 1
    /\ UNCHANGED <<requests, upstream, inside, checked, reboot_scheduled,
                   spawning, spawned, crashes>>

----------------------------------------------------------------------------
(* Crashes.                                                                *)

\* The gateway dies and is started again; its shells live in a session of
\* their own.
GatewayCrash ==
    /\ crashes < MaxCrashes
    /\ crashes' = crashes + 1
    /\ StartsAnew
    /\ UNCHANGED <<core, shells>>

CoreCrash ==
    /\ core /\ crashes < MaxCrashes
    /\ crashes' = crashes + 1
    /\ core' = FALSE /\ streams' = <<>> /\ chunks' = {}
    /\ UNCHANGED <<requests, opened, reboot>>

CoreStart ==
    /\ ~core
    /\ core' = TRUE
    /\ UNCHANGED <<requests, opened, streams, chunks, reboot, crashes>>

\* What the thread that works for c does next.
Thread(c) ==
    \/ Answer(c) \/ Connect(c) \/ UpstreamEnds(c) \/ Receive(c) \/ Timeout(c)
    \/ Conflict(c) \/ Schedule(c) \/ \E works \in BOOLEAN : Spawn(c, works)

GatewayNext ==
    \/ Take \/ CoreSends \/ Reboot \/ ShellFails
    \/ GatewayCrash \/ CoreCrash \/ CoreStart
    \/ \E c \in Clients :
         \/ \E kind \in Asks(c) : Ask(c, kind)
         \/ GoesAway(c) \/ NextChunk(c) \/ EnterLock(c) \/ Thread(c)

GatewaySpec == GatewayInit /\ [][GatewayNext]_gatewayVars

\* Threads run on, the pool hands them out, and who waits for a lock that is
\* free again and again gets it.  No frame is promised, nor that a client
\* reads or leaves.
GatewayFairness ==
    /\ WF_gatewayVars(Take)
    /\ \A c \in Clients : WF_gatewayVars(Thread(c)) /\ SF_gatewayVars(EnterLock(c))

GatewayFairSpec == GatewaySpec /\ GatewayFairness

----------------------------------------------------------------------------
(* Properties.                                                             *)

\* "Prevent duplicate reboot scheduling": however many threads get the
\* command at once, one run of the gateway starts one shell.
OneReboot == spawned <= 1

\* Every command is answered, though the threads of the pool be taken by
\* viewers to whom a stalled or starved stream brings nothing.
CommandsAnswered ==
    \A c \in Clients :
        task[c] \in {"quick", "reboot"} ~> task[c] = "none"

\* When all clients have gone, so have the threads and the connections to the
\* core that were theirs.
NothingLeaks ==
    <>[](\A c \in Clients : task[c] = "none" \/ c \in left)
        => <>[](working = {} /\ streams = <<>>)

\* "Reboot already scheduled", as the answer to a refused command has it.
ConflictIsTrue ==
    [][\A c \in Clients : Conflict(c) => shells > 0 \/ spawning # {}]_gatewayVars
=============================================================================
