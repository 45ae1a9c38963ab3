---------------------------- MODULE MCWebStream ----------------------------
(* WebStream with two or three viewers and JPEGs of two sizes.              *)
EXTENDS WebStream

MCSizes == {1, 2}
============================================================================
