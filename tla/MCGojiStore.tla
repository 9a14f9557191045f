---------------------------- MODULE MCGojiStore ----------------------------
(* GojiStore on a small instance. *)
EXTENDS GojiStore, TLC

\* No expiry, one that is over at once, one second.
MCTTLs == {0, -1, 1}

Symmetry == Permutations(Keys) \cup Permutations(Values)
===========================================================================
