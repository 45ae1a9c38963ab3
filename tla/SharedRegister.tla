--------------------------- MODULE SharedRegister ---------------------------
(***************************************************************************)
(* What each half of the shared segment promises to the process that reads *)
(* it: a register holding the newest complete item, a camera frame or the  *)
(* result of an inference.  Its writer publishes newer and newer items; a  *)
(* read returns, in one step, the item the register holds.  A restart of   *)
(* the core blanks the register, and nothing is promised of a read that    *)
(* overlaps it or that gave up.                                            *)
(***************************************************************************)
EXTENDS Integers

\* An item is its number, counted from the first start of the core.
Blank == 0

\* The value of a read that returned nothing, or nothing that the register
\* answers for.
Nothing == -2

VARIABLES
    latest,  \* the item the register holds
    seen     \* what the last read returned

vars == <<latest, seen>>

TypeOK == latest \in Nat /\ seen \in Nat \cup {Nothing}

Init == latest = Blank /\ seen = Nothing

Publish == /\ latest' \in Nat
           /\ latest' > latest
           /\ UNCHANGED seen

Read == seen' = latest /\ UNCHANGED latest

\* The core starts again: the register is blank.
Restart == latest' = Blank /\ seen' = Nothing

\* A read that overlapped a restart or gave up.
Forget == seen' = Nothing /\ UNCHANGED latest

Next == Publish \/ Read \/ Restart \/ Forget

Spec == Init /\ [][Next]_vars
=============================================================================
