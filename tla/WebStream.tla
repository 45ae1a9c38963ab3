----------------------------- MODULE WebStream -----------------------------
(***************************************************************************)
(* The live stream of the core's web server.  The main loop captures a     *)
(* camera frame, lets Mongoose handle the network for a while, and then    *)
(* offers the newest JPEG to every stream connection in turn.  What a      *)
(* viewer has not read yet waits in the connection's send buffer.          *)
(*                                                                         *)
(* Bytes are counted in units of which Limit makes 100000 bytes; a part's  *)
(* header is counted with its JPEG.  Viewers stands for all the clients    *)
(* there are, each with one connection.  In one poll a viewer reads all    *)
(* that waits for it or nothing; who reads slowly does now the one and now *)
(* the other.                                                              *)
(***************************************************************************)
EXTENDS Integers, Sequences, SequencesExt

CONSTANTS
    Viewers,  \* clients of /stream
    Limit,    \* send.len above which a connection is skipped
    Sizes,    \* sizes of a JPEG
    Wrap      \* frame_id counts modulo Wrap, 2^64 in the code

ASSUME LimitAssumption == Limit \in Nat
ASSUME SizesAssumption ==
    /\ Sizes \subseteq Nat \ {0}
    /\ \E s \in Sizes : \A t \in Sizes : t <= s
ASSUME WrapAssumption == Wrap \in Nat \ {0, 1}

VARIABLES
    pc,         \* "capture", "poll" or "serve": where the main loop is
    conns,      \* the stream connections, the newest first
    next,       \* the place in conns that is served next
    send,       \* send.len of each connection
    frame_id,
    last_sent,  \* last_sent_frame_id
    jpeg,       \* last_jpeg_size, 0 while there is no JPEG
    reading,    \* the viewers who are reading what they are sent
    served      \* history variable: the viewers sent the newest frame

vars == <<pc, conns, next, send, frame_id, last_sent, jpeg, reading, served>>

Connected == ToSet(conns)

Largest == CHOOSE s \in Sizes : \A t \in Sizes : t <= s

TypeOK ==
    /\ pc \in {"capture", "poll", "serve"}
    /\ conns \in Seq(Viewers) /\ IsInjective(conns)
    /\ next \in 1..(Len(conns) + 1)
    /\ send \in [Viewers -> Nat]
    /\ frame_id \in 0..(Wrap - 1)
    /\ last_sent \in 0..(Wrap - 1)
    /\ jpeg \in Sizes \cup {0}
    /\ reading \subseteq Viewers
    /\ served \subseteq Viewers

Init ==
    /\ pc = "capture" /\ conns = <<>> /\ next = 1
    /\ send = [v \in Viewers |-> 0]
    /\ frame_id = 0 /\ last_sent = 0 /\ jpeg = 0
    /\ reading = {} /\ served = {}

----------------------------------------------------------------------------
(* The main loop.                                                          *)

\* camera_capture made a JPEG: it replaces the last one.
Capture(s) ==
    /\ pc = "capture"
    /\ jpeg' = s
    /\ frame_id' = (frame_id + 1) % Wrap
    /\ served' = {}
    /\ pc' = "poll"
    /\ UNCHANGED <<conns, next, send, last_sent, reading>>

\* The frame could not be encoded: the last one stays.
CaptureFails ==
    /\ pc = "capture"
    /\ pc' = "poll"
    /\ UNCHANGED <<conns, next, send, frame_id, last_sent, jpeg, reading,
                   served>>

\* GET /stream: the connection is marked; Mongoose keeps the newest
\* connection at the head of its list.
Join(v) ==
    /\ pc = "poll" /\ v \notin Connected
    /\ conns' = <<v>> \o conns
    /\ send' = [send EXCEPT ![v] = 0]
    /\ UNCHANGED <<pc, next, frame_id, last_sent, jpeg, reading, served>>

\* The connection is closed, and with it goes its send buffer.
Leave(v) ==
    /\ pc = "poll" /\ v \in Connected
    /\ conns' = RemoveFirst(conns, v)
    /\ send' = [send EXCEPT ![v] = 0]
    /\ reading' = reading \ {v}
    /\ UNCHANGED <<pc, next, frame_id, last_sent, jpeg, served>>

\* A viewer begins or ceases to read.
Toggle(v) ==
    /\ pc = "poll" /\ v \in Connected
    /\ reading' = (reading \ {v}) \cup ({v} \ reading)
    /\ UNCHANGED <<pc, conns, next, send, frame_id, last_sent, jpeg, served>>

\* mg_mgr_poll: what waits for a viewer who reads leaves the send buffer.
Flushed(v) == IF v \in reading THEN 0 ELSE send[v]

WebServerPoll ==
    /\ pc = "poll"
    /\ send' = [v \in Viewers |-> Flushed(v)]
    /\ pc' = "serve" /\ next' = 1
    /\ UNCHANGED <<conns, frame_id, last_sent, jpeg, reading, served>>

\* Defect: the backlog not looked at.
AnyBacklog(v) == FALSE

\* "Do not build a backlog of old frames."
Backlogged(v) == send[v] > Limit

\* Defect: the comparison with the frame sent last forgotten.
AlwaysFresh == TRUE

Fresh == frame_id # last_sent

\* The connection is to be sent the newest frame.
Takes(v) == ~Backlogged(v) /\ Fresh /\ jpeg # 0

\* One turn of the loop over the connections: the frame is sent, and counts
\* as sent ...
ServeFrame ==
    /\ pc = "serve" /\ next <= Len(conns)
    /\ LET v == conns[next] IN
         /\ Takes(v)
         /\ send' = [send EXCEPT ![v] = @ + jpeg]
         /\ served' = served \cup {v}
    /\ last_sent' = frame_id
    /\ next' = next + 1
    /\ UNCHANGED <<pc, conns, frame_id, jpeg, reading>>

\* Defect: the loop left instead of continued.
EndOfList == Len(conns) + 1

\* Defect: the next connection passed over as well.
TwoOn == next + 2

AfterSkip == next + 1

\* ... or the connection is skipped.
SkipConnection ==
    /\ pc = "serve" /\ next <= Len(conns)
    /\ ~Takes(conns[next])
    /\ next' = AfterSkip
    /\ UNCHANGED <<pc, conns, send, frame_id, last_sent, jpeg, reading, served>>

ServeEnds ==
    /\ pc = "serve" /\ next > Len(conns)
    /\ pc' = "capture" /\ next' = 1
    /\ UNCHANGED <<conns, send, frame_id, last_sent, jpeg, reading, served>>

Environment == \E v \in Viewers : Join(v) \/ Leave(v) \/ Toggle(v)

Next ==
    \/ CaptureFails \/ WebServerPoll \/ ServeFrame \/ SkipConnection \/ ServeEnds
    \/ \E s \in Sizes : Capture(s)
    \/ Environment

Spec == Init /\ [][Next]_vars

\* The main loop runs on; the camera delivers and its frames can be encoded
\* again and again.
Fairness ==
    /\ WF_vars(WebServerPoll) /\ WF_vars(ServeFrame)
    /\ WF_vars(SkipConnection) /\ WF_vars(ServeEnds)
    /\ SF_vars(\E s \in Sizes : Capture(s))

FairSpec == Spec /\ Fairness

----------------------------------------------------------------------------
(* Properties.                                                             *)

\* README.md: "slow clients do not create an ever-growing backlog".  One
\* frame more than the limit is the most that ever waits for a viewer.
BacklogBounded == \A v \in Viewers : send[v] <= Limit + Largest

\* A frame is sent once: no viewer ever gets it again, and no connection is
\* sent a frame that the loop has sent already in an earlier turn.
FrameSentOnce ==
    [][\A v \in Viewers : send'[v] > send[v] => served = {}]_vars

\* A viewer who reads is not held up by others who do not, once no viewer
\* comes or goes any more: their backlog fills, they are skipped, and the
\* frames reach the one who reads.
SlowViewersSkipped ==
    \A V \in SUBSET Viewers : \A v \in V :
        <>[](Connected = V /\ reading = {v}) => []<>(v \in served)

\* "Live MJPEG stream": whoever stays and reads is sent frames for ever.
EveryViewerServed ==
    \A V \in SUBSET Viewers : \A v \in V :
        <>[](Connected = V /\ reading = V) => []<>(v \in served)
============================================================================
