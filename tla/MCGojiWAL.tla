----------------------------- MODULE MCGojiWAL -----------------------------
(* GojiWAL on a small instance. *)
EXTENDS GojiWAL, TLC

CONSTANTS k1, k2

\* Two keys to put, one of them to delete as well, and a put that is rejected.
MCTxOps == {[type |-> "PUT", key |-> k1], [type |-> "PUT", key |-> k2],
            [type |-> "DELETE", key |-> k1], [type |-> "PUT", key |-> EmptyKey]}
===========================================================================
