----------------------------- MODULE EmailAlert -----------------------------
(***************************************************************************)
(* The e-mail alerts of camera_capture: a frame that shows persons while   *)
(* the guard is armed starts an alert, unless one was sent less than       *)
(* Debounce seconds ago; the send blocks the main loop until the server    *)
(* has answered or libcurl gives up.                                       *)
(*                                                                         *)
(* The code compares two readings of the wall clock, which may be set at   *)
(* any time.  Times are kept as ages, seconds that passed since; an age of *)
(* Debounce stands for every greater one, and one of -Debounce for every   *)
(* smaller one, so that time goes on for ever in finitely many states.     *)
(***************************************************************************)
EXTENDS Integers

CONSTANTS
    Debounce,   \* EMAIL_DEBOUNCE_SECONDS
    Jumps,      \* by how much the wall clock may be set forward, or back
    MaxJumps,   \* bound: how often
    MaxCrashes  \* bound: crashes of the core in a behaviour

ASSUME DebounceAssumption == Debounce \in Nat \ {0}
ASSUME JumpsAssumption == Jumps \subseteq Int
ASSUME BoundsAssumption == MaxJumps \in Nat /\ MaxCrashes \in Nat

VARIABLES
    pc,       \* "down", "frame" before a frame's alert, "sending", or "rest"
    enabled,  \* email_enabled
    guard,    \* guard_mode in the segment
    persons,  \* this frame's snapshot shows persons
    alerted,  \* last_email_alert is not 0
    age,      \* age of last_email_alert by the wall clock
    sendAge,  \* age of email_now by the wall clock
    jumps,    \* how often the wall clock was set
    crashes,  \* crashes so far
    server,   \* "up", "down", or "mute": takes the mail, its answer is lost
    \* History variables, by true time.
    begun,    \* since the last alert that was reported as sent began
    sending,  \* since the send in progress began
    mailed    \* since a mail last reached the recipient

core  == <<pc, enabled, persons, alerted, age, sendAge>>
world == <<guard, jumps, crashes, server>>
truth == <<begun, sending, mailed>>
vars  == <<core, world, truth>>

Ages == -Debounce..Debounce
Past == 0..Debounce

\* An age, cut to those that are told apart.
Cut(a) == IF a > Debounce THEN Debounce
          ELSE IF a < -Debounce THEN -Debounce ELSE a

TypeOK ==
    /\ pc \in {"down", "frame", "sending", "rest"}
    /\ enabled \in BOOLEAN /\ guard \in BOOLEAN
    /\ persons \in BOOLEAN /\ alerted \in BOOLEAN
    /\ age \in Ages /\ sendAge \in Ages
    /\ jumps \in 0..MaxJumps /\ crashes \in 0..MaxCrashes
    /\ server \in {"up", "down", "mute"}
    /\ begun \in Past /\ sending \in Past /\ mailed \in Past

Init ==
    /\ pc = "rest" /\ enabled \in BOOLEAN /\ guard = FALSE /\ persons = FALSE
    /\ alerted = FALSE /\ age = Debounce /\ sendAge = 0
    /\ jumps = 0 /\ crashes = 0 /\ server = "up"
    /\ begun = Debounce /\ sending = 0 /\ mailed = Debounce

----------------------------------------------------------------------------
(* The core.                                                               *)

\* camera_capture has a snapshot and a JPEG.
Frame(p) ==
    /\ pc = "rest"
    /\ pc' = "frame" /\ persons' = p
    /\ UNCHANGED <<enabled, alerted, age, sendAge, world, truth>>

\* Defect: the time since the last alert not looked at.
AnyTime == TRUE

\* Defect: the first alert waits for one before it.
NeverFirst == alerted /\ age >= Debounce

Due == ~alerted \/ age >= Debounce

\* The conditions of camera_capture for an alert.
Alarm == persons /\ guard

NoAlert ==
    /\ pc = "frame"
    /\ ~(Alarm /\ Due)
    /\ pc' = "rest"
    /\ UNCHANGED <<enabled, persons, alerted, age, sendAge, world, truth>>

\* email_send_alert up to curl_easy_perform, which blocks.
SendBegins ==
    /\ pc = "frame" /\ Alarm /\ Due /\ enabled
    /\ pc' = "sending"
    /\ sendAge' = 0 /\ sending' = 0
    /\ UNCHANGED <<enabled, persons, alerted, age, world, begun, mailed>>

\* It returns before curl_easy_perform: a list or a part of the message could
\* not be allocated.  The next frame tries again.
NotSent ==
    /\ pc = "frame" /\ Alarm /\ Due /\ enabled
    /\ pc' = "rest"
    /\ UNCHANGED <<enabled, persons, alerted, age, sendAge, world, truth>>

\* With e-mail disabled it returns 0, which counts as sent.
SendDisabled ==
    /\ pc = "frame" /\ Alarm /\ Due /\ ~enabled
    /\ pc' = "rest"
    /\ alerted' = TRUE /\ age' = 0 /\ begun' = 0
    /\ UNCHANGED <<enabled, persons, sendAge, world, sending, mailed>>

\* Defect: the time taken rounded up.
AgeRounded == sendAge + 1

\* last_email_alert = email_now, the time before the send.
AgeWhenSent == sendAge

\* The server took the mail and said so.
SendSucceeds ==
    /\ pc = "sending" /\ server = "up"
    /\ pc' = "rest"
    /\ alerted' = TRUE /\ age' = AgeWhenSent
    /\ begun' = sending /\ mailed' = 0
    /\ UNCHANGED <<enabled, persons, sendAge, world, sending>>

\* It did not, or its answer was lost: the next frame tries again.
SendFails ==
    /\ pc = "sending" /\ server # "up"
    /\ pc' = "rest"
    /\ mailed' = IF server = "mute" THEN 0 ELSE mailed
    /\ UNCHANGED <<enabled, persons, alerted, age, sendAge, world, begun,
                   sending>>

----------------------------------------------------------------------------
(* The world.                                                              *)

\* A second goes by.  A send may take many of them.
Tick ==
    /\ age' = Cut(age + 1) /\ sendAge' = Cut(sendAge + 1)
    /\ begun' = Cut(begun + 1) /\ sending' = Cut(sending + 1)
    /\ mailed' = Cut(mailed + 1)
    /\ UNCHANGED <<pc, enabled, persons, alerted, world>>

\* NTP or a hand sets the wall clock.
SetClock(d) ==
    /\ jumps < MaxJumps
    /\ jumps' = jumps + 1
    /\ age' = Cut(age + d) /\ sendAge' = Cut(sendAge + d)
    /\ UNCHANGED <<pc, enabled, persons, alerted, guard, crashes, server,
                   truth>>

\* guard_api_set_guard_mode, called by the gateway.
SetGuardMode(g) ==
    /\ pc # "down"
    /\ guard' = g
    /\ UNCHANGED <<core, jumps, crashes, server, truth>>

ServerBecomes(s) ==
    /\ server' = s
    /\ UNCHANGED <<core, guard, jumps, crashes, truth>>

\* The core dies; its static variables are lost, the segment is not.
Crash ==
    /\ pc # "down" /\ crashes < MaxCrashes
    /\ crashes' = crashes + 1
    /\ pc' = "down"
    /\ UNCHANGED <<enabled, persons, alerted, age, sendAge, guard, jumps,
                   server, truth>>

\* The core starts: no alert yet, shm_init has disarmed the guard, and
\* email_init reads the configuration.
Start ==
    /\ pc = "down"
    /\ enabled' \in BOOLEAN
    /\ pc' = "rest" /\ alerted' = FALSE /\ guard' = FALSE
    /\ UNCHANGED <<persons, age, sendAge, jumps, crashes, server, truth>>

Core ==
    \/ NoAlert \/ SendBegins \/ NotSent \/ SendDisabled
    \/ SendSucceeds \/ SendFails

Next ==
    \/ Core \/ Tick \/ Crash \/ Start
    \/ \E p \in BOOLEAN : Frame(p)
    \/ \E d \in Jumps : SetClock(d)
    \/ \E g \in BOOLEAN : SetGuardMode(g)
    \/ \E s \in {"up", "down", "mute"} : ServerBecomes(s)

Spec == Init /\ [][Next]_vars

----------------------------------------------------------------------------
(* Properties.                                                             *)

\* "Send at most one email every 30 seconds", as far as the code has it:
\* while the clock is not set, an alert begins Debounce seconds after the
\* beginning of the last one reported as sent, within one run of the core.
AlertsApart ==
    [][SendBegins /\ alerted /\ jumps = 0 => begun >= Debounce]_vars

\* What the code counts from and what really passed agree, while the clock is
\* not set.
ClockTrue == jumps = 0 /\ alerted => age = begun

\* "Maximum one alert every 30 seconds", as the recipient would see it.
AtMostOne == [][(SendSucceeds \/ SendFails) /\ mailed' = 0
                    => mailed >= Debounce]_vars
=============================================================================
