---------------------------- MODULE CoreProcess ----------------------------
(***************************************************************************)
(* The life of the core process: application_init with its parts in their  *)
(* order, the main loop around camera_capture, SIGTERM, and                *)
(* application_shutdown, with the camera's buffers, of which the driver    *)
(* owns those it may fill and the core the one it works on.                *)
(*                                                                         *)
(* xioctl repeats a request that fails, whatever the error, so that a      *)
(* request that cannot succeed is one that never ends.                     *)
(***************************************************************************)
EXTENDS Integers, FiniteSets

CONSTANTS
    BufferCount,  \* BUFFER_COUNT
    FixedRate     \* the driver refuses VIDIOC_S_PARM

ASSUME BufferCountAssumption == BufferCount \in Nat \ {0}
ASSUME FixedRateAssumption == FixedRate \in BOOLEAN

Buffer == 1..BufferCount

VARIABLES
    pc,        \* the step of the program, "down" if there is no process
    running,   \* running
    handlers,  \* the signal handlers are set
    held,      \* what was acquired and not released
    granted,   \* buffers the driver granted
    owner,     \* of each buffer: "none", "driver", "filled" or "core"
    camera,    \* "live", "stalled", or "gone", when every request fails
    named,     \* /dev/shm has the segment's name
    orderly    \* history variable: the last process ended by main's return 0

process == <<pc, running, handlers, held>>
buffers == <<granted, owner>>
vars    == <<process, buffers, camera, named, orderly>>

\* application_init up to the opening of the device: what each step acquires
\* and which comes next.
Gives == [config  |-> {"config"},  log     |-> {"log"},
          web     |-> {"server"},  segment |-> {"segment"},
          history |-> {},          signals |-> {},
          email   |-> {"curl"},    mqtt    |-> {"client"},
          open    |-> {"camera"}]
Then  == [config  |-> "log",       log     |-> "web",
          web     |-> "segment",   segment |-> "history",
          history |-> "signals",   signals |-> "email",
          email   |-> "mqtt",      mqtt    |-> "open",
          open    |-> "format"]

\* Defect: the way out without shm_destroy.
NotDestroyed(s) ==
    CASE s = "camera_stop" -> {"camera"} [] s = "mqtt_cleanup" -> {"client"}
      [] s = "web_server_stop" -> {"server"}
      [] s = "config_unload" -> {"config"}
      [] s = "email_cleanup" -> {"curl"} [] s = "log_close" -> {"log"}
      [] OTHER -> {}

\* What each step of application_shutdown releases; email_cleanup, which is
\* called twice, releases once.
Releases(s) ==
    CASE s = "camera_stop"      -> {"camera"}
      [] s = "mqtt_cleanup"     -> {"client"}
      [] s = "web_server_stop"  -> {"server"}
      [] s = "email_cleanup"    -> {"curl"}
      [] s = "history_shutdown" -> {}
      [] s = "shm_destroy"      -> {"segment"}
      [] s = "email_again"      -> {"curl"}
      [] s = "config_unload"    -> {"config"}
      [] s = "log_close"        -> {"log"}

\* Its steps, and which comes next.
Onward == [camera_stop     |-> "mqtt_cleanup",
           mqtt_cleanup    |-> "web_server_stop",
           web_server_stop |-> "email_cleanup",
           email_cleanup   |-> "history_shutdown",
           history_shutdown |-> "shm_destroy",
           shm_destroy     |-> "email_again",
           email_again     |-> "config_unload",
           config_unload   |-> "log_close",
           log_close       |-> "down"]

CameraSteps == {"format", "rate", "request", "map", "stream"}
LoopSteps   == {"loop", "capture", "work", "poll"}
Resources   == {"config", "log", "server", "segment", "curl", "client",
                "camera"}

TypeOK ==
    /\ pc \in {"down"} \cup DOMAIN Gives \cup CameraSteps \cup LoopSteps
              \cup DOMAIN Onward
    /\ running \in BOOLEAN /\ handlers \in BOOLEAN
    /\ held \subseteq Resources
    /\ granted \in 0..BufferCount
    /\ owner \in [Buffer -> {"none", "driver", "filled", "core"}]
    /\ camera \in {"live", "stalled", "gone"}
    /\ named \in BOOLEAN /\ orderly \in BOOLEAN

NoBuffers == [b \in Buffer |-> "none"]

Init ==
    /\ pc = "down" /\ running = TRUE /\ handlers = FALSE /\ held = {}
    /\ granted = 0 /\ owner = NoBuffers /\ camera \in {"live", "stalled"}
    /\ named = FALSE /\ orderly = FALSE

\* An ioctl that succeeds: an other one is repeated.
Ioctl == camera # "gone"

----------------------------------------------------------------------------
(* application_init.                                                       *)

\* The supervisor starts the process.
Start ==
    /\ pc = "down"
    /\ pc' = "config" /\ running' = TRUE /\ handlers' = FALSE /\ held' = {}
    /\ granted' = 0 /\ owner' = NoBuffers /\ orderly' = FALSE
    /\ UNCHANGED <<camera, named>>

\* The process ends otherwise than by main's return 0: what it held is the
\* kernel's, except for the name of the segment.
Ends ==
    /\ pc' = "down" /\ orderly' = FALSE
    /\ UNCHANGED <<running, handlers, held, buffers, camera>>

\* E-mail that is disabled and MQTT that is not to be had acquire nothing.
InitStep ==
    /\ pc \in DOMAIN Gives
    /\ pc = "open" => Ioctl
    /\ pc' = Then[pc]
    /\ \/ held' = held \cup Gives[pc]
       \/ pc \in {"email", "mqtt"} /\ held' = held
    /\ handlers' = (handlers \/ pc = "signals")
    /\ named' = (named \/ pc = "segment")
    /\ UNCHANGED <<running, buffers, camera, orderly>>

\* A part fails, and main returns 1 without undoing the parts before it.
\* shm_init may have made the name before it failed.
InitFails ==
    /\ pc \in {"config", "log", "web", "segment", "email", "mqtt", "open"}
    /\ Ends
    /\ named' \in {named, named \/ pc = "segment"}

SetFormat ==
    /\ pc = "format" /\ Ioctl
    /\ pc' = "rate"
    /\ UNCHANGED <<running, handlers, held, buffers, camera, named, orderly>>

\* VIDIOC_S_PARM, whose failure the code means to bear.
SetRate ==
    /\ pc = "rate" /\ Ioctl /\ ~FixedRate
    /\ pc' = "request"
    /\ UNCHANGED <<running, handlers, held, buffers, camera, named, orderly>>

\* Defect: one buffer more than the driver granted.
OneTooMany(n) ==
    /\ pc = "request" /\ Ioctl /\ n >= 2
    /\ pc' = "map" /\ granted' = n + 1
    /\ UNCHANGED <<running, handlers, held, owner, camera, named, orderly>>

\* VIDIOC_REQBUFS: the driver grants n buffers, of which the core needs two.
RequestBuffers(n) ==
    /\ pc = "request" /\ Ioctl /\ n >= 2
    /\ pc' = "map" /\ granted' = n
    /\ UNCHANGED <<running, handlers, held, owner, camera, named, orderly>>

TooFewBuffers ==
    /\ pc = "request" /\ Ioctl
    /\ Ends
    /\ UNCHANGED named

\* VIDIOC_QUERYBUF, mmap and VIDIOC_QBUF of the next buffer.
MapBuffer(b) ==
    /\ pc = "map" /\ Ioctl
    /\ b <= granted /\ owner[b] = "none"
    /\ \A c \in 1..(b - 1) : owner[c] # "none"
    /\ owner' = [owner EXCEPT ![b] = "driver"]
    /\ pc' = IF b = granted THEN "stream" ELSE "map"
    /\ UNCHANGED <<running, handlers, held, granted, camera, named, orderly>>

MapFails ==
    /\ pc = "map" /\ Ioctl
    /\ Ends
    /\ UNCHANGED named

\* VIDIOC_STREAMON and the header of the segment.
StreamOn ==
    /\ pc = "stream" /\ Ioctl
    /\ pc' = "loop"
    /\ UNCHANGED <<running, handlers, held, buffers, camera, named, orderly>>

----------------------------------------------------------------------------
(* application_run.                                                        *)

LoopHead ==
    /\ pc = "loop"
    /\ pc' = IF running THEN "capture" ELSE "camera_stop"
    /\ UNCHANGED <<running, handlers, held, buffers, camera, named, orderly>>

\* VIDIOC_DQBUF waits for a buffer that was filled.
Dequeue(b) ==
    /\ pc = "capture" /\ Ioctl /\ owner[b] = "filled"
    /\ owner' = [owner EXCEPT ![b] = "core"]
    /\ pc' = "work"
    /\ UNCHANGED <<running, handlers, held, granted, camera, named, orderly>>

\* Defect: the buffer kept when no JPEG could be made of it.
OnlyEncoded(encoded) ==
    [b \in Buffer |-> IF encoded /\ owner[b] = "core" THEN "driver"
                                                      ELSE owner[b]]

\* The buffer worked on goes back to the driver, JPEG or not.
Requeued(encoded) ==
    [b \in Buffer |-> IF owner[b] = "core" THEN "driver" ELSE owner[b]]

\* The frame's way through camera_capture to VIDIOC_QBUF.
Enqueue(encoded) ==
    /\ pc = "work" /\ Ioctl
    /\ owner' = Requeued(encoded)
    /\ pc' = "poll"
    /\ UNCHANGED <<running, handlers, held, granted, camera, named, orderly>>

\* Defect: a loop that begins by setting running.
Rerun == TRUE

StillRunning == running

\* web_server_poll, and what is done once per second.
PollAndReport ==
    /\ pc = "poll"
    /\ pc' = "loop" /\ running' = StillRunning
    /\ UNCHANGED <<handlers, held, buffers, camera, named, orderly>>

----------------------------------------------------------------------------
(* application_shutdown, and the end.                                      *)

Shutdown ==
    /\ pc \in DOMAIN Onward
    /\ pc = "camera_stop" => Ioctl
    /\ held' = held \ Releases(pc)
    /\ named' = (named /\ "segment" \notin Releases(pc))
    /\ owner' = IF pc = "camera_stop" THEN NoBuffers ELSE owner
    /\ pc' = Onward[pc]
    /\ orderly' = (pc = "log_close")
    /\ UNCHANGED <<running, handlers, granted, camera>>

\* SIGTERM or SIGINT, before and after the handlers are set.
SignalKills ==
    /\ pc # "down" /\ ~handlers
    /\ Ends
    /\ UNCHANGED named

SignalHandler ==
    /\ pc # "down" /\ handlers
    /\ running' = FALSE
    /\ UNCHANGED <<pc, handlers, held, buffers, camera, named, orderly>>

Crash ==
    /\ pc # "down"
    /\ Ends
    /\ UNCHANGED named

----------------------------------------------------------------------------
(* The camera and its driver.                                              *)

Fill(b) ==
    /\ camera = "live" /\ pc \in LoopSteps \cup {"camera_stop"}
    /\ owner[b] = "driver"
    /\ owner' = [owner EXCEPT ![b] = "filled"]
    /\ UNCHANGED <<process, granted, camera, named, orderly>>

CameraBecomes(c) ==
    /\ camera' = c
    /\ UNCHANGED <<process, buffers, named, orderly>>

CoreStep ==
    \/ InitStep \/ InitFails \/ SetFormat \/ SetRate \/ TooFewBuffers
    \/ \E n \in 2..BufferCount : RequestBuffers(n)
    \/ \E b \in Buffer : MapBuffer(b) \/ Dequeue(b)
    \/ MapFails \/ StreamOn \/ LoopHead
    \/ \E e \in BOOLEAN : Enqueue(e)
    \/ PollAndReport \/ Shutdown

Next ==
    \/ CoreStep \/ Start \/ SignalKills \/ SignalHandler \/ Crash
    \/ \E b \in Buffer : Fill(b)
    \/ \E c \in {"live", "stalled", "gone"} : CameraBecomes(c)

Spec == Init /\ [][Next]_vars

\* The process runs on, a supervisor starts it, and a live camera fills the
\* buffers it is given.
FairSpec ==
    Spec /\ WF_vars(CoreStep) /\ WF_vars(Start)
         /\ WF_vars(\E b \in Buffer : Fill(b))

----------------------------------------------------------------------------
(* Properties.                                                             *)

\* The core waits for a frame only while every buffer it was granted is with
\* the driver, to be filled or filled: none was lost on the way.
BuffersConserved ==
    pc \in {"loop", "capture", "poll"} =>
        \A b \in Buffer : owner[b] \in {"driver", "filled"} <=> b <= granted

\* An orderly end leaves nothing behind, the segment's name included.
OrderlyEndIsClean == pc = "down" /\ orderly => held = {} /\ ~named

\* As long as the camera delivers and nobody stops the core, frames go on.
FramesGoOn ==
    <>[](pc \in LoopSteps /\ camera = "live" /\ running) => []<>(pc = "work")

\* SIGTERM ends the core, whatever part of its start or of its loop it comes
\* in, if the camera delivers.
StopsWhenAsked ==
    <>[](camera = "live") => (~running /\ pc # "down" ~> pc = "down")

\* "Not fatal", of VIDIOC_S_PARM: with a camera that answers, the start goes
\* on without it.
RateIsNotFatal == <>[](camera = "live") => (pc = "rate" ~> pc # "rate")

\* README.md: "Recovers from process crashes and camera stalls".  A core that
\* waits for a frame of a stalled camera does not wait for ever.
StallEnds == <>[](camera = "stalled") => (pc = "capture" ~> pc # "capture")
=============================================================================
