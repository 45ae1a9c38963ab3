-------------------------- MODULE MCFrameExchange --------------------------
(* FrameExchange and the invariant of its proofs, with two geometries. *)
EXTENDS FrameExchangeProofs

MCGeometries == {1, 2}

(* For the configurations that look for what a restart alone can do. *)
InProgramOrder == ~Ahead
============================================================================
