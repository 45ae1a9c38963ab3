------------------------ MODULE MCDetectionExchange -----------------------
(* DetectionExchange and the invariant of its proofs, with two slots, one   *)
(* or three persons, and a sequence of two one-bit "bytes".                 *)
EXTENDS DetectionExchangeProofs

MCCounts == {1, 3}
MCLowBytes == [n \in 0..MaxSeq |-> {n % 2, n % 4}]

(* For the configurations that look for what a restart, or the 0 that each *)
(* store of the sequence passes through, can do alone.                      *)
InProgramOrder == ~Ahead
============================================================================
