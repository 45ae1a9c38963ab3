----------------------------- MODULE MCCpuUsage -----------------------------
(* CpuUsage with two threads.                                               *)
EXTENDS CpuUsage, TLC

CONSTANTS t1, t2

MCThreads == {t1, t2}

Symmetry == Permutations(MCThreads)
=============================================================================
