------------------------ MODULE MCRequestCoalescer -------------------------
(* Three clients of one key. *)
EXTENDS CoalescerProperties, TLC

CONSTANTS c1, c2, c3

MCClients == {c1, c2, c3}
=============================================================================
