------------------------------ MODULE MCGateway ------------------------------
(* Gateway with two threads; two clients who may take both of them, with a  *)
(* stream, a snapshot or the reboot command, and one with quick requests.   *)
EXTENDS Gateway

CONSTANTS c1, c2, c3

MCClients == {c1, c2, c3}

MCAsks(c) == CASE c = c1 -> {"reboot", "stream"}
               [] c = c2 -> {"reboot", "snapshot", "stream"}
               [] c = c3 -> {"quick"}
=============================================================================
