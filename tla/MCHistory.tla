----------------------------- MODULE MCHistory -----------------------------
(* History and the invariant of its proofs, with a window of three records. *)
EXTENDS HistoryProofs
============================================================================
