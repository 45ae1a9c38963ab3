------------------------------ MODULE CpuUsage ------------------------------
(***************************************************************************)
(* utils_get_cpu_usage, as the gateway's worker threads call it: each call *)
(* reads the kernel's two counters, takes the difference to what the call  *)
(* before left in two static variables, and leaves its own reading there.  *)
(* No lock protects the pair.                                              *)
(*                                                                         *)
(* Which of the two words is loaded, or stored, first is up to the         *)
(* compiler; each word is loaded before it is stored.                      *)
(***************************************************************************)
EXTENDS Integers

CONSTANTS
    Threads,  \* worker threads that answer telemetry requests
    Word,     \* one more than the greatest uint64_t
    MaxTotal  \* bound: how far the kernel counts

ASSUME WordAssumption == Word \in Nat /\ MaxTotal \in 1..(Word - 1)

Words == {"total", "idle"}

VARIABLES
    proc,        \* the first line of /proc/stat, summed up
    previous,    \* previous_total and previous_idle
    read,        \* per thread: total and idle_total
    got,         \* per thread: what it loaded of previous
    stage,       \* per thread and word: "none", "load", "store" or "done"
    answer,      \* what the last call returned, as a fraction
    \* History variables.
    overlapped,  \* per thread: its call met another one
    settled,     \* the last call that ended had met none
    base         \* what that call read, if it had met none

cpuVars == <<proc, previous, read, got, stage, answer, overlapped, settled,
          base>>

Reading == [Words -> 0..MaxTotal]

CpuTypeOK ==
    /\ proc \in Reading /\ previous \in Reading /\ base \in Reading
    /\ read \in [Threads -> Reading] /\ got \in [Threads -> Reading]
    /\ stage \in [Threads -> [Words -> {"none", "load", "store", "done"}]]
    /\ answer.busy \in 0..(Word - 1) /\ answer.of \in 1..(Word - 1)
    /\ overlapped \in [Threads -> BOOLEAN] /\ settled \in BOOLEAN

Zero == [w \in Words |-> 0]
None == [of |-> 1, busy |-> 0]

CpuInit ==
    /\ proc \in {r \in Reading : r["total"] = 1 /\ r["idle"] <= 1}
    /\ previous = Zero /\ base = Zero
    /\ read = [t \in Threads |-> Zero] /\ got = read
    /\ stage = [t \in Threads |-> [w \in Words |-> "none"]]
    /\ answer = None
    /\ overlapped = [t \in Threads |-> FALSE] /\ settled = TRUE

----------------------------------------------------------------------------

Running == {t \in Threads : stage[t]["total"] # "none"}

\* One more unit of processor time, idle or not.
Tick(idle) ==
    /\ proc["total"] < MaxTotal
    /\ proc' = [proc EXCEPT !["total"] = @ + 1, !["idle"] = @ + idle]
    /\ UNCHANGED <<previous, read, got, stage, answer, overlapped, settled,
                   base>>

\* A call has read /proc/stat.  One that could not returns -1 and touches
\* nothing.
ReadStat(t) ==
    /\ t \notin Running
    /\ read' = [read EXCEPT ![t] = proc]
    /\ stage' = [stage EXCEPT ![t] = [w \in Words |-> "load"]]
    /\ overlapped' = [u \in Threads |->
                        IF u = t THEN Running # {}
                        ELSE overlapped[u] \/ u \in Running]
    /\ UNCHANGED <<proc, previous, got, answer, settled, base>>

Load(t, w) ==
    /\ stage[t][w] = "load"
    /\ got' = [got EXCEPT ![t][w] = previous[w]]
    /\ stage' = [stage EXCEPT ![t][w] = "store"]
    /\ UNCHANGED <<proc, previous, read, answer, overlapped, settled, base>>

\* Defect: previous_idle left as the first call set it.
OnlyTotal(t) == IF got[t]["total"] = 0 THEN Words ELSE {"total"}

Kept(t) == Words

Store(t, w) ==
    /\ stage[t][w] = "store"
    /\ previous' = IF w \in Kept(t)
                     THEN [previous EXCEPT ![w] = read[t][w]] ELSE previous
    /\ stage' = [stage EXCEPT ![t][w] = "done"]
    /\ UNCHANGED <<proc, read, got, answer, overlapped, settled, base>>

\* Defect: signed differences.
Difference(a, b) == a - b

\* Subtraction of uint64_t.
Minus(a, b) == (a - b) % Word

\* Nothing on the first call and without time in between; the busy share of
\* the difference otherwise, which is 0 when it comes out negative.
Usage(t) ==
    LET total_delta == Minus(read[t]["total"], got[t]["total"])
        idle_delta  == Minus(read[t]["idle"], got[t]["idle"])
    IN  IF got[t]["total"] = 0 \/ total_delta = 0 \/ idle_delta > total_delta
          THEN None
          ELSE [of |-> total_delta, busy |-> total_delta - idle_delta]

Return(t) ==
    /\ \A w \in Words : stage[t][w] = "done"
    /\ answer' = Usage(t)
    /\ stage' = [stage EXCEPT ![t] = [w \in Words |-> "none"]]
    /\ settled' = ~overlapped[t]
    /\ base' = IF settled' THEN read[t] ELSE Zero
    /\ read' = [read EXCEPT ![t] = Zero] /\ got' = [got EXCEPT ![t] = Zero]
    /\ overlapped' = [overlapped EXCEPT ![t] = FALSE]
    /\ UNCHANGED <<proc, previous>>

CpuNext ==
    \/ \E i \in {0, 1} : Tick(i)
    \/ \E t \in Threads :
         \/ ReadStat(t) \/ Return(t)
         \/ \E w \in Words : Load(t, w) \/ Store(t, w)

CpuSpec == CpuInit /\ [][CpuNext]_cpuVars

----------------------------------------------------------------------------
(* Properties.                                                             *)

\* The share that was busy between two readings.
Busy(a, b) ==
    IF a["total"] \in {0, b["total"]} THEN None
    ELSE [of   |-> b["total"] - a["total"],
          busy |-> (b["total"] - b["idle"]) - (a["total"] - a["idle"])]

\* A call that meets no other one, after a call that met none, answers with
\* the busy share of the time since: whatever calls that overlap have made of
\* the two words, one call alone sets them right.
LoneCallsExact ==
    [][\A t \in Threads : Return(t) /\ ~overlapped[t] /\ settled
         => answer' = Busy(base, read[t])]_cpuVars
=============================================================================
