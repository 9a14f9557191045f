---------------------------- MODULE MCGojiClaims ----------------------------
(* GojiClaims on a small instance. *)
EXTENDS GojiClaims, TLC
===========================================================================
