--------------------------- MODULE MCCoreProcess ---------------------------
(* CoreProcess with three buffers. *)
EXTENDS CoreProcess
============================================================================
