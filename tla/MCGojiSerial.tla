--------------------------- MODULE MCGojiSerial ---------------------------
(* GojiSerial on a small instance. *)
EXTENDS GojiSerial, TLC

\* No expiry, one that is over at once, one second.
MCTTLs == {0, -1, 1}
===========================================================================
