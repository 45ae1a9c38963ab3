----------------------------- MODULE AlertPath -----------------------------
(***************************************************************************)
(* From the camera to the mail: vision stores what it has found into the   *)
(* segment, camera_capture takes a snapshot of it with every frame, and    *)
(* EmailAlert decides on an alert.  What DetectionExchange has in single   *)
(* stores and loads is here the parity of detection_sequence, seen by the  *)
(* snapshot, and whether the result that is stored shows persons.          *)
(*                                                                         *)
(* All parts have one segment: the core crashes and starts again, without  *)
(* the orderly stop that unlinks it (SharedSegment has that).              *)
(***************************************************************************)
EXTENDS EmailAlert

VARIABLES
    vision,     \* "down", "looking" for persons, or "storing" a result
    result,     \* the result that is being stored shows persons
    link,       \* detection_sequence: "even", "odd" (or, while a result is
                \* being stored, passing through 0), or "open": a memset has
                \* met the result that is being stored
    published,  \* detection_count in the segment is not 0
    cause       \* history: a result with persons may have reached this core

path     == <<vision, result, link, published, cause>>
pathVars == <<vars, path>>

PathTypeOK ==
    /\ TypeOK
    /\ vision \in {"down", "looking", "storing"}
    /\ link \in {"even", "odd", "open"}
    /\ result \in BOOLEAN /\ published \in BOOLEAN /\ cause \in BOOLEAN

PathInit ==
    /\ Init
    /\ vision = "down" /\ result = FALSE
    /\ link = "even" /\ published = FALSE /\ cause = FALSE

----------------------------------------------------------------------------
(* Vision.                                                                 *)

VisionStart ==
    /\ vision = "down"
    /\ vision' = "looking"
    /\ UNCHANGED <<vars, result, link, published, cause>>

\* It has analysed a frame, or found detection disabled and reports nobody;
\* set_detections makes the sequence odd.
StoreBegins(found) ==
    /\ vision = "looking"
    /\ vision' = "storing" /\ result' = found
    /\ link' = "odd" /\ cause' = (cause \/ found)
    /\ UNCHANGED <<vars, published>>

\* Defect: a result that shows nobody is not stored.
PersonsOnly == {published \/ result}

\* While a result is being stored, its count may be visible or not.
Either == {published, result}

\* The count of a result that a memset has met may be gone, or may follow.
Stored == IF link = "open" THEN Either ELSE {result}

StoreEnds ==
    /\ vision = "storing"
    /\ vision' = "looking" /\ result' = FALSE
    /\ link' = "even" /\ published' \in Stored
    /\ UNCHANGED <<vars, cause>>

\* It dies.  In the middle of a result it leaves the count as it is by then,
\* and the sequence odd, or 0 if that happens in a store of the sequence.
VisionCrash ==
    /\ vision # "down"
    /\ vision' = "down" /\ result' = FALSE
    /\ IF vision = "storing"
         THEN link' \in {"even", "odd"} /\ published' \in Either
         ELSE UNCHANGED <<link, published>>
    /\ UNCHANGED <<vars, cause>>

----------------------------------------------------------------------------
(* The core.                                                               *)

\* Defect: it is tried until the sequence is even.
TriedOn == {}

\* What camera_get_detections returns after ten attempts.
GivenUp == {FALSE}

\* While vision stores, the sequence passes through 0 twice, under which the
\* core accepts what it has copied.
Snapshots ==
    IF vision = "storing" THEN Either \cup GivenUp
    ELSE IF link = "odd" THEN GivenUp ELSE {published}

\* camera_capture has dequeued a frame, taken its snapshot, and made a JPEG.
Snapshot ==
    /\ \E p \in Snapshots : Frame(p)
    /\ UNCHANGED path

\* Defect: what the last core left in the segment stays.
Kept == published

Zeroed == FALSE

\* A new core zeroes the segment.  A vision that is storing goes on.
CoreStart ==
    /\ Start
    /\ published' = Zeroed
    /\ link' = IF vision = "storing" THEN "open" ELSE "even"
    /\ cause' = (vision = "storing" /\ result)
    /\ UNCHANGED <<vision, result>>

Vision ==
    StoreEnds \/ \E f \in BOOLEAN : StoreBegins(f)

PathNext ==
    \/ VisionStart \/ Vision \/ VisionCrash \/ Snapshot \/ CoreStart
    \/ /\ \/ Core \/ Tick \/ Crash
          \/ \E d \in Jumps : SetClock(d)
          \/ \E g \in BOOLEAN : SetGuardMode(g)
          \/ \E s \in {"up", "down", "mute"} : ServerBecomes(s)
       /\ UNCHANGED path

PathSpec == PathInit /\ [][PathNext]_pathVars

\* Time goes on; the camera delivers; both loops go on, and what is down is
\* started again, vision unless it goes on dying; a send comes to an end
\* (libcurl gives up on a silent SMTP server after two minutes); memory for a
\* message is not always short.
PathFairness ==
    /\ WF_pathVars(Tick /\ vars' # vars /\ UNCHANGED path)
    /\ WF_pathVars(Core /\ UNCHANGED path) /\ WF_pathVars(CoreStart)
    /\ SF_pathVars(SendBegins /\ UNCHANGED path)
    /\ WF_pathVars(Snapshot) /\ SF_pathVars(Snapshot /\ link = "even")
    /\ WF_pathVars(VisionStart) /\ WF_pathVars(Vision)

PathFairSpec == PathSpec /\ PathFairness

----------------------------------------------------------------------------
(* Properties.                                                             *)

\* No core sends an alert before vision has reported a person to it: neither
\* what it finds in the segment of its predecessor nor a snapshot it had to
\* give up is an alarm.
NoFalseAlarm == pc \in {"frame", "sending"} /\ persons => cause

Watching ==
    guard /\ server = "up" /\ vision # "down" /\ (vision = "storing" => result)

\* When vision runs on and finds persons, the guard is armed, the server
\* works, and not every snapshot falls into the microseconds of a store, the
\* recipient gets mail again and again: no snapshot given up, failed send,
\* debounce, clock set back, or crash of either process before, silences the
\* alerts for good.
PersonReported ==
    <>[]Watching /\ []<>(pc = "rest" /\ link = "even")
        => []<>(enabled => mailed = 0)

\* When vision runs on and finds nobody, the alerts end: no person of an
\* earlier result is reported for ever.  With vision down the core goes on
\* with the last result.
QuietAgain ==
    <>[](vision # "down" /\ ~result) => <>[](pc # "sending")

\* A frame is captured again and again, whatever the mail server does.
FramesGoOn == []<>(pc = "frame")
=============================================================================
