------------------------------ MODULE KVStore ------------------------------
(***************************************************************************)
(* What a GojiDB promises a caller that has it to itself: a dictionary     *)
(* whose entries may carry a second in which they lapse.  There are no     *)
(* files, no index, no compaction, no expiry goroutine and no restart in   *)
(* it: whatever the store does besides the operations below must not show. *)
(***************************************************************************)
EXTENDS Integers

CONSTANTS
  Keys, Values, None,
  Lives     \* lifetimes in seconds a put can ask for; 0 is over at once

VARIABLES
  kv,       \* key |-> [val, until] while it can be read, else None
  last,     \* the last write a caller asked for: some keys |-> what each is to hold
  clock

Lapsed(h, t) == h.until > 0 /\ t >= h.until

\* What a reader sees at time t of the dictionary d.
AsOf(d, t) == [k \in Keys |-> IF d[k] # None /\ Lapsed(d[k], t) THEN None ELSE d[k]]

KVInit == kv = [k \in Keys |-> None] /\ last = [k \in {} |-> None] /\ clock = 1

\* The keys of w get what w says, all of them at once, and no other key changes.
KVWrite(w) ==
  /\ last' = w
  /\ kv' = AsOf([k \in Keys |-> IF k \in DOMAIN w THEN w[k] ELSE kv[k]], clock)
  /\ UNCHANGED clock

KVPut(k, v, until) == KVWrite([x \in {k} |-> [val |-> v, until |-> until]])

KVBatchPut(items) == KVWrite([k \in DOMAIN items |-> [val |-> items[k], until |-> 0]])

KVDelete(k) == KVWrite([x \in {k} |-> None])

KVTick ==
  /\ clock' = clock + 1
  /\ kv' = AsOf(kv, clock')
  /\ UNCHANGED last

KVNext ==
  \/ \E k \in Keys, v \in Values, until \in {0} \cup {clock + n : n \in Lives} :
       KVPut(k, v, until)
  \/ \E S \in SUBSET Keys : \E items \in [S -> Values] : KVBatchPut(items)
  \/ \E k \in Keys : KVDelete(k)
  \/ KVTick

KVSpec == KVInit /\ [][KVNext]_<<kv, last, clock>>
===========================================================================
