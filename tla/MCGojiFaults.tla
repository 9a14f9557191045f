---------------------------- MODULE MCGojiFaults ----------------------------
(* GojiFaults on a small instance. *)
EXTENDS GojiFaults, TLC

Symmetry == Permutations(Keys) \cup Permutations(Values)
===========================================================================
