# Guard System: a TLA+ verification development

This directory models the Guard System of this repository in TLA+: a C process
(the *core*) that captures camera frames, serves them, sends alerts and
publishes telemetry; a Python process (*vision*) that detects persons in the
frames; and a Python gateway that calls a C library. They share one POSIX
shared memory segment and no lock. TLC checks every model on small instances
and TLAPS proves every safety property that a run checks, for all values of the
constants that the named assumptions allow.

Paths below are relative to the repository's root. "the segment" is
`/dev/shm/guard_system`, the `telemetry_t` of
`include/shared_memory/shared_memory.h`.

## 1. Inventory of the system

| Part | Code | State it keeps | Operations | Talks to |
| --- | --- | --- | --- | --- |
| Core process | `src/main.c`, `src/application/application.c` | `running`, what each part holds | init in order, main loop, shutdown in order, SIGTERM | every C part, by calls |
| Camera | `src/camera/camera.c` | V4L2 buffers, last JPEG and its `frame_id` | `camera_init`, `camera_capture`, `camera_stop` | driver, segment, e-mail |
| Segment | `src/shared_memory/shared_memory.c` | name, object, contents | `shm_init`, `shm_destroy` | core, vision, gateway |
| Frame exchange | camera.c to `python/vision/shared_memory.py` | `frame_sequence` and the frame | bracketed writes, optimistic reads | core writes, vision reads |
| Detection exchange | shared_memory.py to camera.c | `detection_sequence`, boxes, two counts | the same the other way round | vision writes, core reads |
| Vision process | `python/vision/main.py`, `detector.py`, `config.py` | last sequence, counters | the loop around `read_frame` and `set_detections` | segment |
| Web server | `src/web/web_server.c` | connections, `last_sent_frame_id` | `http_handler`, `web_server_poll` | camera (last JPEG), viewers |
| History | `src/history/history.c` | five records, a file | `history_add`, `history_get` | core writes, gateway reads the file |
| E-mail | `src/email/email.c`, camera.c | `last_email_alert` | `email_send_alert` | SMTP server, blocking |
| MQTT | `src/mqtt/mqtt.c` | `mqtt_client`, `mqtt_connected` | init, two callbacks, publish, cleanup | libmosquitto's thread, broker |
| Guard library | `src/api/guard_api.c`, `src/utils/utils.c` | maps the segment per call; two statics of the CPU usage | guard mode, person count, telemetry | segment, `/proc` |
| Gateway | `python/api/main.py` | pool of worker threads, `reboot_scheduled` | REST endpoints, passing on the stream | guard library, core's web server |
| Overlay, JPEG | `src/camera/overlay.c`, camera.c | none | pixel computations | boxes of the detector |
| Configuration, logger | `src/common` | settings, log file | look-ups, output | - |

What is hard here is not in any one function: three processes share memory
without a lock and are restarted one by one; the core does everything,
blocking calls included, in one thread; libmosquitto calls back from a second
one; the history file is read by one process while another rewrites it.
`PROJECT.json` lists each such hazard with its line and the properties for it.

What makes each part correct:

- *exchanges*: what a reader accepts is one frame, or one result, and not
  pieces of two; what was written last is seen in the end;
- *segment*: all processes share the same object; only a command changes the
  guard mode of a core that runs;
- *history*: the most recent records, in order, and no step back in time;
- *stream*: bounded memory per viewer, no frame twice, slow viewers skipped,
  every viewer served;
- *alert path*: a person who stays is reported whatever failed before, nobody
  is reported who was not seen, alerts are apart by the debounce time;
- *gateway*: every command answered, one reboot at most, nothing left of clients
  that have gone; an answer on the CPU usage that is exact again after a race;
- *overlay*: no byte written outside the frame, every person framed and named;
- *MQTT*: retained status true in the end, flag true in the end, start of the
  core not in danger;
- *core*: no camera buffer lost, nothing left behind, SIGTERM obeyed.

## 2. Modules

| Module | Models | Proofs |
| --- | --- | --- |
| `SharedRegister` | abstract: a register that is written at once and read at once | |
| `FrameExchange` | camera to vision, store by store; implements `SharedRegister` | `FrameExchangeProofs` |
| `DetectionExchange` | vision to camera, store by store; implements `SharedRegister` | `DetectionExchangeProofs` |
| `SharedSegment` | name and objects, who has which mapped, guard mode, requests | `SharedSegmentProofs` |
| `History` | window, file, readers | `HistoryProofs` |
| `WebStream` | viewers, send buffers, the marker of the last frame sent | `WebProofs` |
| `EmailAlert` | debounce against time, clock and server | in `AlertPathProofs` |
| `AlertPath` | composes vision's results, the snapshot, the restarts and `EmailAlert`; implements `EmailAlert` | `AlertPathProofs` |
| `MqttClient` | main thread, network thread, broker | `CoreProofs` |
| `CoreProcess` | start, loop, end, signals, camera buffers | `CoreProofs` |
| `Gateway` | worker threads, stream and snapshot passed on, reboot | `WebProofs` |
| `CpuUsage` | the statics of `utils_get_cpu_usage` under threads | `WebProofs` |
| `Overlay` | from the detector's corners to the bytes of the picture | `OverlayProofs` |

Each `MC...` module extends a component's module (or its proofs, so that the
inductive invariant can be checked too: `INVARIANT IInv` in the `.cfg`) and
gives it its instance. Where one proof module is about several
components, their `TypeOK`, `Init`, `Next` and `Spec` have names of their own
(`GatewaySpec`, `CpuSpec`, `MqttSpec`). Definitions
headed *Defect* are not part of a specification: each is what a plausible
mistake would make of the definition after it, and shows that a property
would notice.

### SharedRegister

Its state is the item published last and what the last read returned.
`Publish`, `Read`, `Restart` (nothing is published) and `Forget` (a read that
gave up) are its only steps. Both exchanges map to it. A read that the code
accepts but that is not clean, as the sections on the two exchanges say, maps to
`Forget`.

### FrameExchange

`camera_capture` stores an odd sequence, the pixels, the size and an even
sequence; `shm_init` zeroes and `camera_init` stores the geometry and resets
the sequence. Each is a set of pending stores (`todo`, and `cells` for the
pixels in `Chunks` pieces), carried out one at a time. They are plain stores,
and the board is an AArch64: those of one call become visible in any order that
keeps the two to `frame_sequence` apart (`MayStore`). `Rank` is the order of the
program, and `Ahead` says that a store is visible before one that precedes it
there. `read_frame` is one action per load, in the order of the Python code, and
`main` takes the frame as new or ignores it (`TakeFrame`, `IgnoreFrame`); what
it does with a new one (every `interval`-th is analysed, or none while detection
is disabled) is `TakeFrame` of `DetectionExchange`. The core and vision crash
between any two of these and are started again. A frame is its number; `latest`
and `taken`, and the flags that tell whether an attempt met neither a memset nor
a store ahead of another (`clean`, `seenClean`, `takenClean`), are history
variables.

### DetectionExchange

`set_detections` is one action per store, `set_person_count` another;
`camera_get_detections` is one action per load with its attempts, `GiveUp`
included. `struct.pack_into` zeroes a field before it packs the number's bytes,
the lowest first. For `detection_sequence` this matters, because 0 is even: a
store of it is the zero (`ZeroOdd`, `ZeroEven`), any of the lower bytes
(`OddBytes`, `EvenBytes`, with `LowBytes[n]` for what they stand for), and the
number (`WriteOdd`, `WriteEven`). The count and the boxes are plain stores as
well: between the first and the last of `set_detections` they become visible in
any order, before the odd sequence or after the even one too (`pending`,
`Ahead`). The sequence has an upper limit (`MaxSeq`, odd as 2^32 - 1 is) above
which `struct.pack_into` raises, after it has zeroed the field, and vision ends
(`Overflow`).

So a core that reads 0 before its copy, and 0 again in the middle of a later
store, accepts boxes of two results, without any restart (`NeverTorn`,
`MCDetectionTorn.cfg`). `WholeSnapshot` is about the snapshots that the
sequence does answer for (`Clean`): under a number other than 0 and stored whole,
no store ahead of another and vision alive during the attempt (`spoiled`: the
next vision may start from a 0 left behind and come back to the number), and no
memset over the write (`mixed`, `fresh`). For the others, `AlertPath` and
`Overlay` have what is promised all the same.

### SharedSegment

Objects are numbered; the name stands for one of them or none. `shm_init` is
its four calls and the store of `guard_mode`, so that a process may meet an
object that has no size yet, or is half set up. `ShmDestroy` removes the name
whatever it stands for. Vision opens the segment once; each request of the
gateway opens it anew (`RequestOpen`, `RequestMap`, then `SetGuardMode`, or `Get`
for the guard mode and the person count). An access beyond the end of an object
is SIGBUS for the whole gateway (`RequestKills`). A
second core may be started beside the first one: `web_server_init` comes before
`shm_init`, and only one process gets the port.

### History

The window holds `Max` places (five in the code). `HistoryAdd` is the shift or
the append followed by the whole of `history_save`'s first half: the file is
truncated; `HistorySave` or `HistorySaveFails` is the rest, so that a crash or a
reader may come in between. `ReadCount` counts places, as `fread` does, blank
ones included.

### WebStream

`web_server_poll` goes over the connections, the newest first, and the model
has one step per connection. `send` is what waits in a connection's buffer, in
units of which `Limit` stands for the 100000 bytes of the code. Frame numbers
are kept modulo `Wrap`, as only their equality matters.

### EmailAlert

Time passes in ticks, the wall clock may be set once to any value, and `age` is
what `difftime` would give. `SendBegins` and its ends are separate steps, as the
send blocks the loop and takes time; it can fail although the mail arrived, or
return before it begins (`NotSent`).

### AlertPath

Adds to `EmailAlert` where its persons come from. What `DetectionExchange` has
in single stores and loads is here whether vision is `storing` a result, and one
variable, `link`: the sequence is even, odd, or "open", that is, a memset met the
result that is being stored. While vision stores, a snapshot may show the count
of before, or that of the result (`Either`: the sequence passes through 0, and
its stores are visible in any order), or be given up and show nobody
(`GivenUp`). When vision has died in the middle of a store the sequence is odd,
and every snapshot is given up until it is back, or it is the 0 of a store that
was cut, and either count stands. Otherwise a snapshot shows what was published.
That such abstractions are right is an argument from `DetectionExchange`: a clean
snapshot is the last result, and every load of the count, clean or not, finds
that of the last result, of the one that is being stored or was when vision died,
or 0. The core's crash
and start zero the segment; `cause` is a history variable: vision may have
reported a person to this run of the core.

### MqttClient

The main thread goes through `mqtt_init` call by call; libmosquitto's thread
connects, calls back and loses connections; the broker keeps session, will and
retained status, and notices a dead connection in its own time. `Fallible` names
the library calls that may fail. `farewell` and `announced` are history
variables.

### CoreProcess

`pc` goes through the parts of `application_init` in their order, the steps of
`camera_init`, the loop and `application_shutdown`. `Ioctl` is enabled only
while the camera answers, because `xioctl` repeats every failing request.
Each buffer is the driver's, filled, or the core's.

### Gateway

FastAPI runs plain handlers in a pool of threads, first come first served, and
fetches each chunk of a streaming response in the same pool. A request is a
task that waits in `queue` or has a thread (`working`). `Connect`, `Receive`,
`Timeout` and `UpstreamEnds` are the handler's ways through `requests.get`, with
its ten seconds; a chunk stands for a frame. `CoreSends` gives a frame to the
newest connection that is not behind, as `WebStream` found that the core does,
so that the others starve and only their timeouts free their threads. The
reboot command is the lock, the test, the flag and `Popen`, which may fail;
shells outlive the gateway.

### CpuUsage

A call reads the kernel's counters, loads and stores each of the two static
words in any order the compiler may choose, and subtracts modulo 2^w. Threads
interleave at will. `base` and `settled` are history variables.

### Overlay

The picture is a function from bytes to who wrote them, and `set_pixel` its
only writer. Boxes come from corners the network may give, clamped as the detector
does, in frames of either size. Each number of a box in a snapshot may be that
of another box, or 0, because a memset, or a store under a sequence that is
passing through 0, can come in between (`Boxes`). `overlay_draw_detections`
clamps them again to the size of now. One pattern stands for all characters, so that the
texts are places and lengths. The outline that `PersonsFramed` asks for is
defined from the pixels of box and frame, not from the arithmetic of the code.
`PersonsFramed` says as much as the code keeps: later boxes and labels are
drawn over earlier ones, so that an outline stays complete but may change from
bright to dark, and a label loses what a later outline crosses; and a label may
leave the picture at the right or below, but its name begins inside it. For that
there must be room for the first line of a label in the frame
(`LabelAssumption`), and its first character must set its first dot, as the
code's pattern of `P` does (`GlyphAssumption`).

## 3. Runs

| Run | Instance | What it shows |
| --- | --- | --- |
| `frame_exchange` | 2 pieces per buffer, 2 geometries, 2 frames, 2 starts of the core, its stores in any order, vision crashing at will | `NoTornFrame`, `IgnoredIsTaken`, refinement of `SharedRegister`, `LatestFrameTaken`, `WritingEnds` |
| `detection_exchange` | 2 slots, results of 1 or 3 persons, 2 results, 2 attempts, 2 starts, vision's stores in any order, sequences up to 3 of two bytes (of one bit, and the rest) | `WholeSnapshot`, refinement of `SharedRegister`, `LastResultSeen`, `CountsSettle` |
| `shared_segment` | 2 cores, 2 worker threads, vision, 2 objects | `CrashesSeparateNobody`, `OnlyCommandsDisarm`, `CrashRestartsKillNobody` |
| `history` | window of 3, 6 additions, 3 starts | `RecordsInOrder`, `RunIsRecent`, `NeverGoesBack` |
| `web_stream` | 3 viewers, frames of 2 sizes, limit 2 | types, `BacklogBounded`, `FrameSentOnce`, `SlowViewersSkipped` |
| `alert_path` | debounce of 2 ticks, 1 clock change, 1 crash of the core, vision crashing at will | `NoFalseAlarm`, `AlertsApart`, `PersonReported`, `QuietAgain`, `FramesGoOn` |
| `mqtt` | 3 starts, every call failing | `OnlineShown`, `GoneMeansOffline`, `FlagNotAhead` |
| `core_process` | 3 buffers, every part failing | `BuffersConserved`, `OrderlyEndIsClean`, `FramesGoOn`, `StopsWhenAsked` |
| `gateway` | 3 clients, 2 threads, 1 crash | types, `OneReboot`, `CommandsAnswered`, `NothingLeaks` |
| `cpu_usage` | 2 threads, words of 3 bits, a kernel that counts to 3 | no answer out of range, `LoneCallsExact` |
| `overlay` | frames of 6x5 and 3x4, any 2 boxes of numbers made of corners at -1, 0, 3 and 7, 2 status texts | no byte outside the frame, `PersonsFramed`, `NothingElseDrawn` |
| `web_stream_starved` | 2 viewers | violated: `EveryViewerServed` |

A type invariant that TLAPS proves is part of a run only where it says more than
types: of connections, threads and bytes.

Why the bounds are enough: a torn frame needs two pieces and two frames; a
restart needs two starts; one more geometry than one makes a stale size
possible. Three persons in two slots meets the cut at ten, and one person the
zeroes after the last box. A window of three has a first, a middle and a last place, and
six additions fill it twice. Two of three viewers can be slow at once. Two
objects are one that was unlinked and its successor. A debounce of two ticks
has a time before, at and after it, and a clock can be set over all of it. Two
clients can hold both threads while the third has a command. Two threads meet
in every order of their loads and stores, and words of three bits underflow as
those of 64 do. The frames are large enough for a box with an inside, for boxes that
leave either frame to the right or below, for boxes at column 3 that miss the
frame of three columns (`SkipBox`), and for labels above and inside a box. With
sequences up to 3 a first result ends under 2 and the second overflows; the
byte that stands for a number other than the one that was there or is to come is
the 1 on the way to 3. The proofs, where there
are some, do not depend on these bounds.

`CHECK_DEADLOCK FALSE` stands where a bound ends the behaviour (frames, starts,
additions); the other models go on for ever and are checked for deadlock.

### Where the code does other than a document says

The run `web_stream_starved` shows it for the stream: **one viewer starves
another** (`EveryViewerServed`). One `last_sent_frame_id` serves all
connections, so the newest takes every frame.

More of the kind can be seen with the configurations that no run of
`PROJECT.json` uses; each stops at a counterexample (those with `CONSTRAINT
InProgramOrder` leave out the steps after a store that is ahead of another):

| Configuration (module) | Property | Behaviour |
| --- | --- | --- |
| `MCFrameWeak` (`MCFrameExchange`) | `NeverTorn` | plain stores in another order: a half-copied frame under an even sequence, in the first run of the core |
| `MCFrameRestart` (`MCFrameExchange`) | `NeverTorn` | `shm_init` zeroes the sequence under a reader, and the new core can bring it back to the number the reader saw: a torn frame, with all stores in program order |
| `MCFrameIgnored` (`MCFrameExchange`) | `IgnoresOnlyTheSame` | after a restart a new frame has the number of the old one and is ignored, with all stores in program order |
| `MCDetectionTorn` (`MCDetectionExchange`) | `NeverTorn` | the core reads 0, copies while vision stores boxes, and reads 0 again in the middle of a store of the sequence: mixed boxes are accepted, with all stores in program order and in the first run of the core |
| `MCDetectionRestart` (`MCDetectionExchange`) | `EvenMeansStable` | the memset makes the sequence even under vision's writes |
| `MCHistoryRecentKept` (`MCHistory`) | `RecentKept` | after a restart blank places count as records: real ones are pushed out while blank ones stay |
| `MCHistoryNeverEmptied` (`MCHistory`) | `NeverEmptied` | a reader, or a crash, between `fopen` and the write finds no history |
| `MCEmailMailsApart` (`MCAlertPath`) | `AtMostOne` | a mail whose answer was lost is sent again with the next frame |
| `MCMqttFlagRace` (`MCMqttClient`) | `ConnectionIsUsed` | after a failed `mosquitto_connect_async` the main thread clears `mqtt_connected`, which the network thread may have set already: the connection is never used |
| `MCGatewayConflict` (`MCGateway`) | `ConflictIsTrue` | `Popen` fails after the flag was set: later reboots are refused as "already scheduled" |
| `MCSegmentOrphan` (`MCSharedSegment`) | `VisionSeesTheCore` | after an orderly stop vision keeps the unlinked object, unless it is restarted as well |
| `MCSegmentKilled` (`MCSharedSegment`) | `CallsReturn` | an access to an object before `ftruncate` is SIGBUS |
| `MCCoreRate` (`MCCoreProcess`) | `RateIsNotFatal` | `xioctl` has no test for EINTR and repeats a refused `VIDIOC_S_PARM` for ever; the "Not fatal" branch is never reached |
| `MCCoreStall` (`MCCoreProcess`) | `StallEnds` | a stalled camera blocks `VIDIOC_DQBUF`; the watchdog README.md speaks of is not in the repository |

Seen on the way, and part of the models without a property of their own: a user
name that libmosquitto refuses ends the start of the core although "MQTT is
optional" (`InitRefused`); after a restart `history_get` counts blank places;
while vision is down the core goes on alerting on its last result (the
hypothesis of `QuietAgain`). Below the models' level: the overlay's font has no
glyph for `F` and `-`, so that "FPS:" and the date lose characters, and the
confidence is written across the upper edge of its box.

## 4. Fairness

Safety runs need none. Where a run checks liveness:

- `FrameExchange`, `DetectionExchange`: weak fairness of the core's and of
  vision's steps. Both loop without blocking on each other (`time.sleep` is a
  delay, not a condition), and a supervisor starts what is down. Crashes are
  never promised nor limited by fairness; a property that needs them to end
  says so (`<>[](rpc # "off")`).
- `WebStream`: weak fairness of the loop, strong fairness of a frame that
  encodes: it may fail often, but not always from some time on.
- `AlertPath`: weak fairness of both loops, of time and of what starts a
  process that is down; a send ends, because libcurl limits the time it waits
  for a connection (300 s) and for an SMTP answer (120 s) by default, and the
  code sets no other limit. Strong fairness of `SendBegins`, as memory for the
  message is not always short, and of snapshots of an even sequence: vision
  stores for microseconds between inferences of many milliseconds, and does not
  meet every snapshot. That the server works, that the guard stays armed and
  that vision runs on in the end are hypotheses of `PersonReported`.
- `MqttClient`: both threads run on, and the broker notices a dead
  connection (keepalive).
- `Gateway`: threads run on, the pool hands them out, and a thread that finds
  the lock free again and again gets it (strong fairness). No frame is promised,
  nor that a client reads or leaves: the timeouts have to do.
- `CoreProcess`: the process runs on, the supervisor starts it, and a camera
  that is live fills the buffers it has. `StopsWhenAsked` has "the camera is
  live in the end" as its hypothesis, as SIGTERM does not interrupt
  `VIDIOC_DQBUF` (`signal` restarts it, and so does `xioctl`).

## 5. Proofs

All proofs are checked by TLAPS; each shows an inductive invariant (`IInv`, or
a name like `GatewayInv` where a module is about several components) from
`Init`, one step per action, and takes its theorems from it. The named
assumptions on constants stand in the modules and are evaluated by TLC.

- **FrameExchangeProofs**, for the core's stores in any order that plain ones
  may become visible in. The invariant says which stores have happened when the
  sequence is odd or even and no store is ahead of another, and what a reader in
  the middle of a clean attempt may rely on while the sequence it saw is still
  there: the pieces it copied are of the frame published last. Without this part
  `NoTornFrame` is not inductive, as nothing would relate the copy to the
  sequence. What the attempts that are not clean can return is shown by the
  configurations above, not proved. Theorems: `TypeCorrect`, `FramesAreWhole`,
  `IgnoresTheSame`, `Inductive`, `ImplementsTheRegister`.
- **DetectionExchangeProofs**. The same in the other direction, for every
  `LowBytes` and every order of the pieces. While a writer is inside
  `set_detections` the sequence never exceeds the number its store in progress
  ends with (`Target`), and that number only grows; so an attempt that began
  under a number other than 0 and finds it again saw no store of the sequence in
  between. The pieces stored so far show the result, if no memset came in
  between (`WriterInv`), and an even sequence stands over a result that is
  published (`SegmentInv`). Theorems: `TypeCorrect`, `SnapshotsAreWhole`,
  `Inductive`, `ImplementsTheRegister` (the zero that opens the store of the even
  sequence publishes, as it is the first even number over the whole result).
- **SharedSegmentProofs**. A core that listens holds the port, so that two
  cores are never both between `web_server_init` and `web_server_stop`, where
  all stores of a core to the segment are; and who has an object open has
  one. Until an orderly stop, no object but the one under the name has a size.
  Theorems: `TypeCorrect`, `OneSegment`, `ServingStaysArmed`, `NobodyKilled`.
- **HistoryProofs**. Order of memory, file and last answer, and that each is at
  most as new as the one before. Theorems: `TypeCorrect`, `KeepsOrder`,
  `KeepsTheLast`, `AnswersGoForward`.
- **WebProofs**, about three components behind one another. It begins with
  lemmas about sequences without repetitions: what `RemoveFirst`, `Append`,
  `Tail` and an element put in front make of their elements.
  - `WebStream`: what waits for a viewer, and that the marker equals the
    newest frame once it was sent (`StreamInductive`, `NoBacklog`, `SentOnce`);
    that the walk over the list stays inside it while viewers come and go
    (`StreamTypesOK`).
  - `Gateway` (`GatewayInductive`): a client is in the queue, at work, or has
    nothing to be done, and never two of these, so that the pool's size bounds
    who works; a connection to the core belongs to an open response, so that
    closing one gives up the other; and the lock: one task is inside at most,
    whoever checked the flag found it down and nobody has set it since, and once
    it is up nobody passes. Without this last part `OneReboot` is not inductive,
    as a second task could be between its check and `Popen`. Theorems:
    `GatewayTypesOK`, `OneRebootOnly`.
  - `CpuUsage`: readings of `/proc/stat` are ordered, and a call that has met no
    other has left its own readings in the words it has stored and found those
    of the call before. Theorems: `CpuTypesOK` (a share of a number that is not
    zero, under any overlap), `LoneCallExact`.
- **AlertPathProofs**. Readings of the clock against true time, in the middle
  of a send too (`ClockIsTrue`, `BeginApart`, of `EmailAlert`); every step of
  the composition is one of `EmailAlert` or leaves it alone
  (`PathImplementsEmail`), so that `PathAlerts` follows without a second
  invariant; and where persons in a snapshot can come from: whatever is in the
  segment, or being stored, was reported to this core
  (`OnlyWithCause`, `PathTypeCorrect`).
- **CoreProofs**, about the core's two threads.
  - `CoreProcess`: whose the buffers are at each step, with "the first n are
    mapped" while `camera_init` maps them, and what has been released by the
    time a step of `application_shutdown` is reached. Theorems: `TypeCorrect`,
    `NoBufferLost`, `NothingLeft`.
  - `MqttClient` (`MqttInductive`): which thread exists when, that the flag is
    up only between the two callbacks, and that a connection that stands has its
    session with its will. Theorems: `MqttTypeCorrect`, `StatusIsShown`,
    `FlagIsBehind`.
- **OverlayProofs**, for every set of frame sizes, every corner the network may
  give, any number of boxes and any texts. Each pixel of the picture has a byte
  of its own in the frame (`LumaInFrame`, from the arithmetic of rows); so
  `set_pixel` writes what it is asked to and nothing else (`SetPixelsWrites`).
  A box clamped by the detector lies right of and below the origin
  (`BoxesPlaced`), what the core's clamping leaves of it is what can be seen of
  it (`SeenIs`), and its four lines are the outline of that (`OutlineIs`). The
  invariant `OverlayInv` is the three properties together, with "no box is done
  before the status is drawn". Theorems: `OverlayInductive`, `OverlayTypesOK`,
  `EveryoneFramed`, `RestUntouched`.

What is assumed of the constants is what the code has: sizes and limits that are
positive, at least one worker thread, words wide enough for what the kernel
counts, and for the overlay what is said above. `LowBytesAssumption` is the
arithmetic of n % 2^8, n % 2^16 and n % 2^24: no more than n, and of its parity.

Only model-checked: the thirteen liveness properties (`LatestFrameTaken`,
`WritingEnds`, `LastResultSeen`, `CountsSettle`, `SlowViewersSkipped`,
`PersonReported`, `QuietAgain`, `FramesGoOn` of the alert path and of the core,
`GoneMeansOffline`, `StopsWhenAsked`, `CommandsAnswered`, `NothingLeaks`): they
rest on fairness and on ENABLED, which this prover cannot reason about. That
`AlertPath`'s `vision` and `link` stand for the single stores of `DetectionExchange` is an
argument in words, from what is proved there.

## 6. What is not modelled, and why

- The JPEG and the detector's network: pure computations; they succeed, fail,
  or yield an arbitrary result. The shapes of the characters: one stands for
  all.
- Configuration, logger, pages: no state that another part depends on.
- Telemetry other than the CPU usage: values read and passed on. The kernel's
  idle counters, which may go back a little, only grow in `CpuUsage`.
- Requests of the gateway that only pass on what the library returns: one kind
  of request, `quick`.
- Mongoose, cJSON, libcurl, libmosquitto, the broker, the kernel: external; as
  much of them is modelled as the code under `src/` and `python/` relies on.
- The files `camera.c.save*`, `*.backup`, `python/vision/camera.py`,
  `jpeg_writer.py` and the `test*.py` scripts: not part of the running system.
- Systemd units and the software watchdog that `README.md` describes are not in
  the repository. Supervision is only "what is down may be started again".

A restart of the core disarms the guard, and its orderly stop leaves the
retained MQTT status at "online": both are what the code does, no document
says otherwise, and the models have them.

Not faithful to the byte or to the machine:

- A frame larger than `frame_yuyv` (a driver that changes the geometry upwards)
  is excluded, and `frame_sequence` does not wrap.
- The loads of an attempt, of `read_frame` and of `camera_get_detections`, are
  taken in program order, although they are plain loads too: an attempt whose
  loads are performed in another order is one more that no property is about.
- The stores of one call are visible before those of the next call begin;
  between two calls there are a camera frame or an inference.
- A box, and a piece of a frame, is loaded and stored at once, and so is a
  number that Python or C loads. The zero and the bytes of `struct.pack_into` are
  modelled where they pass for something else, in the sequence; a count or a
  coordinate that is zeroed on the way is one whose store is not visible yet, or
  the 0 that `AlertPath` and `Overlay` allow.
- A memset between two byte stores of one number counts as a memset over the
  write (`mixed`), with no number of mixed bytes.
- An attempt that ends under the lower bytes of an even number is not `Clean`:
  to accept it the core would have begun its copy under a sequence of that very
  number, at least 127 results earlier.

## 7. Plan

Done, in this order: `FrameExchange` and its register, `DetectionExchange`,
`History`, `WebStream`, `EmailAlert`, `MqttClient`, `CoreProcess`,
`SharedSegment`, `AlertPath`, `CpuUsage`, `Gateway`, `Overlay`, and proofs for
all of them.

What may follow: a finer link between `DetectionExchange` and `AlertPath`, as a
refinement mapping that is proved instead of the argument above; that every
viewer's connection belongs to one of the gateway's responses, in a composition
of `WebStream` and `Gateway`; the conversion of boxes in `set_detections`
(rounding and the 32-bit range); the loads of both readers in any order.
