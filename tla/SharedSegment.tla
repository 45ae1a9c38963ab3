--------------------------- MODULE SharedSegment ---------------------------
(***************************************************************************)
(* The life of the POSIX shared memory segment: the name under /dev/shm,   *)
(* the objects it stood for, and who has which of them mapped: the core    *)
(* processes, of which a second may be started by hand, the vision         *)
(* process, and the requests of the gateway, which map the segment anew    *)
(* each.  Of its contents only guard_mode is kept.                         *)
(***************************************************************************)
EXTENDS Integers, FiniteSets

CONSTANTS
    Cores,     \* core processes that may run, or run into each other
    Requests,  \* worker threads of the gateway
    Nobody,    \* the holder of a free port
    MaxObjects \* bound: objects made in all

ASSUME MaxObjectsAssumption == MaxObjects \in Nat
ASSUME NobodyAssumption == Nobody \notin Cores

VARIABLES
    core,     \* of each core process, its step
    mapped,   \* of each core process, its object: 0 is none
    port,     \* the core process that listens on port 8080, or Nobody
    name,     \* the object under /dev/shm/guard_system: 0 is none
    made,     \* objects made so far
    sized,    \* objects that ftruncate gave their size
    guard,    \* guard_mode of each object
    vision,   \* the vision process: its step and its object
    request,  \* of each worker thread: its step, command and object
    unlinked  \* history variable: shm_destroy has run

segment == <<name, made, sized, guard, unlinked>>
cores   == <<core, mapped, port>>
others  == <<vision, request>>
vars    == <<cores, segment, others>>

Object  == 1..MaxObjects
Setters == {"guard_on", "guard_off"}
Getters == {"guard_mode", "person_count"}
Command == Setters \cup Getters

\* Steps at which a core process listens on its ports, and at which it has an
\* object open.
Listening == {"open", "size", "map", "zero", "disarm", "init", "serve"}
Attached  == {"size", "map", "zero", "disarm", "init", "serve", "stopped"}

TypeOK ==
    /\ core \in [Cores -> {"down", "listen"} \cup Listening \cup Attached]
    /\ mapped \in [Cores -> 0..MaxObjects]
    /\ \A c \in Cores : core[c] \in Attached => mapped[c] \in 1..made
    /\ port \in Cores \cup {Nobody}
    /\ made \in 0..MaxObjects /\ name \in 0..made
    /\ sized \subseteq Object
    /\ guard \in [Object -> BOOLEAN]
    /\ vision \in [pc : {"down", "opened", "attached"}, seg : 0..made]
    /\ request \in [Requests -> [pc : {"idle", "opened", "mapped", "killed"},
                                 cmd : Command, seg : 0..made]]
    /\ unlinked \in BOOLEAN

Idle == [pc |-> "idle", cmd |-> "guard_mode", seg |-> 0]

Init ==
    /\ core = [c \in Cores |-> "down"] /\ mapped = [c \in Cores |-> 0]
    /\ port = Nobody /\ name = 0 /\ made = 0 /\ sized = {}
    /\ guard = [o \in Object |-> FALSE]
    /\ vision = [pc |-> "down", seg |-> 0]
    /\ request = [r \in Requests |-> Idle]
    /\ unlinked = FALSE

----------------------------------------------------------------------------
(* A core process.                                                         *)

Goes(c, from, to) == core[c] = from /\ core' = [core EXCEPT ![c] = to]

Start(c) ==
    /\ Goes(c, "down", "listen")
    /\ UNCHANGED <<mapped, port, segment, others>>

\* Defect: a listener that shares its ports.
AnyTime == TRUE

\* Of two processes bind lets one have the port.
PortFree == port = Nobody

\* web_server_init, before shm_init.
WebServerInit(c) ==
    /\ PortFree
    /\ Goes(c, "listen", "open") /\ port' = c
    /\ UNCHANGED <<mapped, segment, others>>

\* The ports are taken, or there is no certificate: main returns 1.
WebServerFails(c) ==
    /\ Goes(c, "listen", "down")
    /\ UNCHANGED <<mapped, port, segment, others>>

\* Defect: shm_open without O_CREAT, its result not looked at.
WithoutCreate == name

\* Defect: the name unlinked before shm_open, for a fresh object.
AlwaysFresh == made + 1

\* shm_open with O_CREAT and without O_EXCL: the object the name stands for,
\* whoever left it, or a new one of no size.
Opened == IF name = 0 THEN made + 1 ELSE name

ShmOpen(c) ==
    /\ Opened <= MaxObjects
    /\ Goes(c, "open", "size")
    /\ mapped' = [mapped EXCEPT ![c] = Opened]
    /\ name' = Opened
    /\ made' = IF Opened > made THEN Opened ELSE made
    /\ UNCHANGED <<port, sized, guard, unlinked, others>>

Ftruncate(c) ==
    /\ Goes(c, "size", "map")
    /\ sized' = sized \cup {mapped[c]}
    /\ UNCHANGED <<mapped, port, name, made, guard, unlinked, others>>

Mmap(c) ==
    /\ Goes(c, "map", "zero")
    /\ UNCHANGED <<mapped, port, segment, others>>

Memset(c) ==
    /\ Goes(c, "zero", "disarm")
    /\ guard' = [guard EXCEPT ![mapped[c]] = FALSE]
    /\ UNCHANGED <<mapped, port, name, made, sized, unlinked, others>>

\* The store of guard_mode that follows the memset.
Disarm(c) ==
    /\ Goes(c, "disarm", "init")
    /\ guard' = [guard EXCEPT ![mapped[c]] = FALSE]
    /\ UNCHANGED <<mapped, port, name, made, sized, unlinked, others>>

\* The parts after shm_init: history, e-mail, MQTT and the camera.
Initialised(c) ==
    /\ Goes(c, "init", "serve")
    /\ UNCHANGED <<mapped, port, segment, others>>

\* The end of a process that did not get to shm_destroy: a crash, or a part of
\* application_init that fails.  The name stays.
Gone(c) ==
    /\ core[c] # "down"
    /\ core' = [core EXCEPT ![c] = "down"]
    /\ mapped' = [mapped EXCEPT ![c] = 0]
    /\ port' = IF port = c THEN Nobody ELSE port
    /\ UNCHANGED <<segment, others>>

\* application_shutdown as far as web_server_stop.
WebServerStop(c) ==
    /\ Goes(c, "serve", "stopped") /\ port' = Nobody
    /\ UNCHANGED <<mapped, segment, others>>

\* shm_destroy, and the end: shm_unlink removes the name, whatever object it
\* stands for.
ShmDestroy(c) ==
    /\ Goes(c, "stopped", "down")
    /\ mapped' = [mapped EXCEPT ![c] = 0]
    /\ name' = 0 /\ unlinked' = TRUE
    /\ UNCHANGED <<port, made, sized, guard, others>>

----------------------------------------------------------------------------
(* The vision process, which opens the segment once.                       *)

VisionOpen ==
    /\ vision.pc = "down" /\ name # 0
    /\ vision' = [pc |-> "opened", seg |-> name]
    /\ UNCHANGED <<cores, segment, request>>

\* mmap of the whole object, which Python refuses for an empty one.
VisionMap ==
    /\ vision.pc = "opened"
    /\ vision' = IF vision.seg \in sized
                 THEN [vision EXCEPT !.pc = "attached"]
                 ELSE [pc |-> "down", seg |-> 0]
    /\ UNCHANGED <<cores, segment, request>>

VisionEnds ==
    /\ vision.pc # "down"
    /\ vision' = [pc |-> "down", seg |-> 0]
    /\ UNCHANGED <<cores, segment, request>>

----------------------------------------------------------------------------
(* The gateway: guard_api_set_guard_mode, guard_api_get_guard_mode and      *)
(* guard_api_get_person_count in its worker threads.                        *)

RequestOpen(r, cmd) ==
    /\ request[r].pc = "idle" /\ name # 0
    /\ request' = [request EXCEPT ![r] =
                       [pc |-> "opened", cmd |-> cmd, seg |-> name]]
    /\ UNCHANGED <<cores, segment, vision>>

\* mmap does not look at the object's size.
RequestMap(r) ==
    /\ request[r].pc = "opened"
    /\ request' = [request EXCEPT ![r].pc = "mapped"]
    /\ UNCHANGED <<cores, segment, vision>>

RequestMapFails(r) ==
    /\ request[r].pc = "opened"
    /\ request' = [request EXCEPT ![r] = Idle]
    /\ UNCHANGED <<cores, segment, vision>>

\* The access, which has to lie in the object; then the munmap and the answer.
Answered(r, commands) ==
    /\ request[r].pc = "mapped" /\ request[r].seg \in sized
    /\ request[r].cmd \in commands
    /\ request' = [request EXCEPT ![r] = Idle]

SetGuardMode(r) ==
    /\ Answered(r, Setters)
    /\ guard' = [guard EXCEPT ![request[r].seg] = request[r].cmd = "guard_on"]
    /\ UNCHANGED <<cores, name, made, sized, unlinked, vision>>

\* guard_mode or person_count is read.
Get(r) ==
    /\ Answered(r, Getters)
    /\ UNCHANGED <<cores, segment, vision>>

\* An access beyond the end of the object is SIGBUS, for the whole process.
RequestKills(r) ==
    /\ request[r].pc = "mapped" /\ request[r].seg \notin sized
    /\ request' = [q \in Requests |-> [request[q] EXCEPT !.pc = "killed"]]
    /\ UNCHANGED <<cores, segment, vision>>

GatewayStart ==
    /\ \E r \in Requests : request[r].pc = "killed"
    /\ request' = [r \in Requests |-> Idle]
    /\ UNCHANGED <<cores, segment, vision>>

----------------------------------------------------------------------------
CoreNext(c) ==
    \/ Start(c) \/ WebServerInit(c) \/ WebServerFails(c) \/ ShmOpen(c)
    \/ Ftruncate(c) \/ Mmap(c) \/ Memset(c) \/ Disarm(c) \/ Initialised(c)
    \/ Gone(c) \/ WebServerStop(c) \/ ShmDestroy(c)

VisionNext == VisionOpen \/ VisionMap \/ VisionEnds

RequestNext(r) ==
    \/ \E cmd \in Command : RequestOpen(r, cmd)
    \/ RequestMap(r) \/ RequestMapFails(r) \/ SetGuardMode(r) \/ Get(r)
    \/ RequestKills(r)

Next ==
    \/ \E c \in Cores : CoreNext(c)
    \/ VisionNext
    \/ \E r \in Requests : RequestNext(r)
    \/ GatewayStart

Spec == Init /\ [][Next]_vars

----------------------------------------------------------------------------
(* Properties.                                                             *)

\* The guard of a core that serves is only disarmed by a command: a second
\* core started beside it ends at the ports, before it gets to the memset.
OnlyCommandsDisarm ==
    [][\A c \in Cores :
          core[c] = "serve" /\ guard[mapped[c]] /\ ~guard'[mapped[c]] =>
              \E r \in Requests :
                  request[r].cmd = "guard_off" /\ request'[r] # request[r]]_vars

\* Crashes and restarts alone separate nobody: without an orderly stop every
\* process that has a segment has the one under the name.
CrashesSeparateNobody ==
    ~unlinked =>
        /\ \A c \in Cores : core[c] \in Attached => mapped[c] = name
        /\ vision.pc # "down" => vision.seg = name
        /\ \A r \in Requests :
              request[r].pc \in {"opened", "mapped"} => request[r].seg = name

\* Restarts after crashes kill no request: once a core has given an object its
\* size, and until one is stopped in order, no access of the gateway ends in
\* SIGBUS.
CrashRestartsKillNobody ==
    [][(\E r \in Requests : RequestKills(r)) => unlinked \/ sized = {}]_vars

\* "Shares frames and runtime state between C and Python": the segment that
\* vision reads is the one the core writes.
VisionSeesTheCore ==
    \A c \in Cores :
        core[c] = "serve" /\ vision.pc = "attached" => vision.seg = mapped[c]

\* "Returns 0 success, -1 failure": a call to the library returns.
CallsReturn == \A r \in Requests : request[r].pc # "killed"
=============================================================================
