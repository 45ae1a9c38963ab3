-------------------------- MODULE MCSharedSegment --------------------------
(* SharedSegment with its cores and worker threads interchangeable. *)
EXTENDS SharedSegmentProofs, TLC

Symmetry == Permutations(Cores) \cup Permutations(Requests)
============================================================================
