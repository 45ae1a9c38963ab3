----------------------------- MODULE MCAlertPath -----------------------------
(* AlertPath with a debounce of two seconds.                                *)
EXTENDS AlertPath

MCJumps == {-2, 2}
=============================================================================
