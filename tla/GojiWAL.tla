------------------------------ MODULE GojiWAL ------------------------------
(***************************************************************************)
(* Transactions and the write-ahead log: transaction.go, wal.go, and the   *)
(* recovery NewGojiDB runs.  A Transaction collects operations; its Commit *)
(* logs them between BEGIN and COMMIT, applies them to the store one by    *)
(* one, and ends.  Each record and each operation takes its lock for       *)
(* itself, so commits interleave.  After a crash Recover groups the log by *)
(* TxID and applies every transaction that has a BEGIN and a COMMIT.       *)
(*                                                                         *)
(* The store is the dictionary db, which a crash leaves as it is: that is  *)
(* what GojiSerial establishes for the data files.  A transaction puts a   *)
(* value of its own, so db[k] says who wrote k last.  Recover looks at the *)
(* order of records inside a transaction only, so the log is kept as one   *)
(* sequence per TxID; records without a TxID, those of Put, Delete and     *)
(* Rollback and the last one of Commit, are read and dropped by it and are *)
(* left out.                                                               *)
(***************************************************************************)
EXTENDS Integers, Sequences, FiniteSets, FiniteSetsExt, Functions

CONSTANTS
  Keys,         \* keys the store accepts
  EmptyKey,     \* "", which a transaction takes and the store rejects
  Txs,          \* transaction IDs, and the value each one puts
  Direct,       \* the value of a Put outside every transaction
  None,         \* no value
  TxOps,        \* the operations callers put into transactions
  MaxOps,       \* bound: operations the transactions hold together
  MaxCommits,   \* bound: calls of Commit on one transaction
  MaxWrites,    \* bound: writes outside every transaction
  MaxCrashes    \* bound: crashes

Op == [type : {"PUT", "DELETE"}, key : Keys \cup {EmptyKey}]

ASSUME OpsAssumption == TxOps \subseteq Op
ASSUME KeysAssumption == EmptyKey \notin Keys
ASSUME TxsAssumption == IsFiniteSet(Txs)
ASSUME ValuesAssumption == Direct \notin Txs /\ None \notin Txs
ASSUME BoundsAssumption == {MaxOps, MaxCommits, MaxWrites, MaxCrashes} \subseteq Nat

VARIABLES
  syncWrites,   \* config.WALSyncWrites
  wal,          \* transaction |-> its records in the log
  flushed,      \* transaction |-> how many of them have left the buffer of w.writer
  torn,         \* the log file ends inside a record
  up,           \* what the process is doing: open, replaying, down, refused
  walLocked,    \* Recover holds w.mu
  db,           \* the store
  ops,          \* transaction |-> its operations
  phase,        \* transaction |-> where its goroutine is
  step,         \* transaction |-> how many records it logged or operations it applied
  todo,         \* transactions replayTransactions has yet to visit
  replay,       \* the one it is in and the positions of its operations yet to apply
  writes,       \* calls of Put and Delete so far
  crashes

vars == <<syncWrites, wal, flushed, torn, up, walLocked, db, ops, phase, step, todo, replay,
          writes, crashes>>
logVars == <<syncWrites, wal, flushed, torn>>
txVars == <<ops, phase, step>>
procVars == <<up, walLocked, todo, replay>>
bounds == <<writes, crashes>>
---------------------------------------------------------------------------
Mark(type) == [type |-> type, key |-> EmptyKey]

WALRecord == Op \cup {Mark("BEGIN"), Mark("COMMIT")}

\* beginFound && commitFound: a rollback record carries no TxID and is never found.
Complete(t) == Mark("BEGIN") \in Range(wal[t]) /\ Mark("COMMIT") \in Range(wal[t])

\* Mutant of OpsOf: replay knows no DELETE.
PutsOf(t) == {i \in DOMAIN wal[t] : wal[t][i].type = "PUT"}

\* Where replayTransactions finds operations in the records of t.
OpsOf(t) == {i \in DOMAIN wal[t] : wal[t][i].type \in {"PUT", "DELETE"}}

\* What operation op of t leaves in its key.
Left(op, t) == IF op.type = "PUT" THEN t ELSE None

\* The store after operation op of t, when it is not rejected.
Applied(op, t) ==
  IF op.key = EmptyKey THEN db ELSE [db EXCEPT ![op.key] = Left(op, t)]

\* WriteRecord: into the buffer, and on to the file at once under WALSyncWrites.
WriteRecord(t, r) ==
  /\ ~walLocked
  /\ wal' = [wal EXCEPT ![t] = Append(@, r)]
  /\ flushed' = IF syncWrites THEN [u \in Txs |-> Len(wal'[u])] ELSE flushed
  /\ UNCHANGED <<syncWrites, torn>>
---------------------------------------------------------------------------
Idle == [tx |-> None, left |-> {}]

Init ==
  /\ syncWrites \in BOOLEAN
  /\ wal = [t \in Txs |-> <<>>]
  /\ flushed = [t \in Txs |-> 0]
  /\ torn = FALSE
  /\ up = "open" /\ walLocked = FALSE
  /\ db = [k \in Keys |-> None]
  /\ ops = [t \in Txs |-> <<>>]
  /\ phase = [t \in Txs |-> "building"]
  /\ step = [t \in Txs |-> 0]
  /\ todo = {} /\ replay = Idle
  /\ writes = 0 /\ crashes = 0

Commits(t) == Cardinality({i \in DOMAIN wal[t] : wal[t][i] = Mark("BEGIN")})

\* Transaction.Put and Transaction.Delete; neither looks at the key.
AddOp(t, op) ==
  /\ up = "open" /\ phase[t] = "building"
  /\ Commits(t) < MaxCommits
  /\ MapThenSumSet(LAMBDA u : Len(ops[u]), Txs) < MaxOps
  /\ ops' = [ops EXCEPT ![t] = Append(@, op)]
  /\ UNCHANGED <<logVars, procVars, bounds, db, phase, step>>

Rollback(t) ==
  /\ up = "open" /\ phase[t] = "building"
  /\ ops' = [ops EXCEPT ![t] = <<>>]
  /\ UNCHANGED <<logVars, procVars, bounds, db, phase, step>>

BeginCommit(t) ==
  /\ up = "open" /\ phase[t] = "building"
  /\ Commits(t) < MaxCommits
  /\ phase' = [phase EXCEPT ![t] = "logging"]
  /\ UNCHANGED <<logVars, procVars, bounds, db, ops, step>>

\* Mutant of LastLogged: Commit applies as soon as the operations are logged.
OpsLogged(t) == step[t] = Len(ops[t])

LastLogged(t) == step[t] = Len(ops[t]) + 1

\* WriteTransaction, one record at a time.
LogRecord(t) ==
  /\ up = "open" /\ phase[t] = "logging"
  /\ WriteRecord(t, CASE step[t] = 0              -> Mark("BEGIN")
                      [] step[t] \in DOMAIN ops[t] -> ops[t][step[t]]
                      [] OTHER                     -> Mark("COMMIT"))
  /\ IF LastLogged(t)
     THEN step' = [step EXCEPT ![t] = 0] /\ phase' = [phase EXCEPT ![t] = "applying"]
     ELSE step' = [step EXCEPT ![t] = @ + 1] /\ UNCHANGED phase
  /\ UNCHANGED <<procVars, bounds, db, ops>>

\* Mutant of Rewound: a Commit starts where the one before it stopped.
NotRewound(t) == step

\* The loops of Commit start from the first operation each time.
Rewound(t) == [step EXCEPT ![t] = 0]

\* The loop of Commit: an operation goes to the store.  A rejected put ends Commit with
\* an error and leaves the operations in the transaction; a rejected delete is ignored.
ApplyOp(t) ==
  /\ up = "open" /\ phase[t] = "applying" /\ ~walLocked
  /\ step[t] < Len(ops[t])
  /\ LET op == ops[t][step[t] + 1]
         rejected == op.type = "PUT" /\ op.key = EmptyKey
     IN  /\ db' = Applied(op, t)
         /\ phase' = [phase EXCEPT ![t] = IF rejected THEN "building" ELSE @]
         /\ step' = IF rejected THEN Rewound(t) ELSE [step EXCEPT ![t] = @ + 1]
  /\ UNCHANGED <<logVars, procVars, bounds, ops>>

\* The end of Commit.  The Transaction is empty and can be used again, under the same ID.
EndCommit(t) ==
  /\ up = "open" /\ phase[t] = "applying" /\ ~walLocked
  /\ step[t] = Len(ops[t])
  /\ ops' = [ops EXCEPT ![t] = <<>>]
  /\ phase' = [phase EXCEPT ![t] = "building"]
  /\ step' = Rewound(t)
  /\ UNCHANGED <<logVars, procVars, bounds, db>>

\* GojiDB.Put and GojiDB.Delete, outside every transaction.
Write(k, v) ==
  /\ up = "open" /\ ~walLocked
  /\ writes < MaxWrites
  /\ writes' = writes + 1
  /\ db' = [db EXCEPT ![k] = v]
  /\ UNCHANGED <<logVars, procVars, txVars, crashes>>

\* backgroundSync.
Flush ==
  /\ up \in {"open", "replaying"} /\ ~walLocked
  /\ flushed' = [t \in Txs |-> Len(wal[t])]
  /\ UNCHANGED <<syncWrites, wal, torn, procVars, bounds, db, txVars>>

\* The process dies.  Of each transaction kept[t] records are in the file: those that were
\* flushed and what full buffers had pushed out besides.  The file ends inside a record
\* if cut: a full buffer is written out as it is, and a record longer than the buffer goes
\* out in several writes.  phase keeps, for the properties, which commits the crash cut.
Crash(kept, cut) ==
  /\ up \in {"open", "replaying"}
  /\ crashes < MaxCrashes
  /\ \A t \in Txs : flushed[t] <= kept[t]
  /\ crashes' = crashes + 1
  /\ up' = "down" /\ walLocked' = FALSE
  /\ wal' = [t \in Txs |-> SubSeq(wal[t], 1, kept[t])]
  /\ flushed' = kept
  /\ torn' = cut
  /\ ops' = [t \in Txs |-> <<>>]
  /\ phase' = [t \in Txs |-> IF phase[t] \in {"building", "gone"} THEN "gone" ELSE "cut"]
  /\ step' = [t \in Txs |-> 0]
  /\ todo' = {} /\ replay' = Idle
  /\ UNCHANGED <<syncWrites, db, writes>>
---------------------------------------------------------------------------
\* Mutant of LockedInReplay: Recover keeps w.mu while it replays.
HeldInReplay == TRUE

LockedInReplay == FALSE

\* NewGojiDB runs Recover, which reads the log under w.mu and gives the lock up to replay
\* it.  A record cut in two is an error, and NewGojiDB fails.
ReadLog ==
  /\ up \in {"down", "refused"}
  /\ IF torn
     THEN up' = "refused" /\ UNCHANGED <<walLocked, todo>>
     ELSE /\ up' = "replaying"
          /\ walLocked' = LockedInReplay
          /\ todo' = {t \in Txs : Complete(t)}
  /\ UNCHANGED <<logVars, txVars, bounds, db, replay>>

\* replayTransactions: the next transaction, in the random order of a map.
ReplayNext(t) ==
  /\ up = "replaying" /\ replay.left = {} /\ t \in todo
  /\ todo' = todo \ {t}
  /\ replay' = [tx |-> t, left |-> OpsOf(t)]
  /\ UNCHANGED <<logVars, txVars, bounds, up, walLocked, db>>

\* One operation of it, the first that is left; errors are ignored.  The Put or Delete
\* writes a record of its own, for which it takes w.mu.
ReplayOp ==
  /\ up = "replaying" /\ ~walLocked
  /\ \E i \in replay.left :
       /\ \A j \in replay.left : i <= j
       /\ db' = Applied(wal[replay.tx][i], replay.tx)
       /\ replay' = [replay EXCEPT !.left = @ \ {i}]
  /\ UNCHANGED <<logVars, txVars, bounds, up, walLocked, todo>>

EndReplay ==
  /\ up = "replaying" /\ replay.left = {} /\ todo = {}
  /\ up' = "open" /\ walLocked' = FALSE
  /\ replay' = Idle
  /\ UNCHANGED <<logVars, txVars, bounds, db, todo>>

Next ==
  \/ \E t \in Txs : \/ \E op \in TxOps : AddOp(t, op)
                    \/ Rollback(t)
                    \/ BeginCommit(t)
                    \/ LogRecord(t)
                    \/ ApplyOp(t)
                    \/ EndCommit(t)
                    \/ ReplayNext(t)
  \/ \E k \in Keys, v \in {Direct, None} : Write(k, v)
  \/ Flush
  \/ \E kept \in [Txs -> 0 .. MaxOps + 2], cut \in BOOLEAN :
       (\A t \in Txs : kept[t] <= Len(wal[t])) /\ Crash(kept, cut)
  \/ ReadLog
  \/ ReplayOp
  \/ EndReplay

\* A store that is opened runs its recovery; callers may stop at any point.
Fairness ==
  WF_vars(ReadLog \/ (\E t \in Txs : ReplayNext(t)) \/ ReplayOp \/ EndReplay)

Spec == Init /\ [][Next]_vars /\ Fairness
---------------------------------------------------------------------------
\* The variables hold what their declarations say.
TypeOK ==
  /\ {syncWrites, torn, walLocked} \subseteq BOOLEAN
  /\ wal \in [Txs -> Seq(WALRecord)]
  /\ flushed \in [Txs -> Nat] /\ \A t \in Txs : flushed[t] <= Len(wal[t])
  /\ up \in {"open", "replaying", "down", "refused"}
  /\ db \in [Keys -> Txs \cup {Direct, None}]
  /\ ops \in [Txs -> Seq(Op)]
  /\ phase \in [Txs -> {"building", "logging", "applying", "cut", "gone"}]
  /\ step \in [Txs -> Nat] /\ \A t \in Txs : step[t] <= Len(ops[t]) + 1
  /\ todo \subseteq Txs
  /\ replay \in [tx : Txs \cup {None}, left : SUBSET Nat]
  /\ writes \in 0 .. MaxWrites /\ crashes \in 0 .. MaxCrashes

\* Under WALSyncWrites no value of a transaction is in the store before the file holds
\* the transaction whole, from BEGIN to COMMIT, whatever the interleaving of commits,
\* crashes and replays: a crash between two operations of a Commit can be repaired.
LoggedFirst ==
  syncWrites => \A k \in Keys, t \in Txs :
    db[k] = t => {Mark("BEGIN"), Mark("COMMIT")} \subseteq Range(SubSeq(wal[t], 1, flushed[t]))

Wrote(t, k) == \E i \in DOMAIN wal[t] : wal[t][i].key = k

\* Record i of t is the last one on k.
LastOn(t, k, i) == /\ wal[t][i].key = k
                   /\ \A j \in DOMAIN wal[t] : wal[t][j].key = k => j <= i

\* A recovery that ends has applied every logged transaction whole, one after the other
\* in some order, also when the process crashed inside an earlier recovery or inside the
\* Commit: every key they wrote holds what the last of its writers left in it last.
ReplayedWhole ==
  [][EndReplay =>
       LET logged == {t \in Txs : {Mark("BEGIN"), Mark("COMMIT")} \subseteq Range(wal[t])}
       IN  \E rank \in Injection(logged, 1 .. Cardinality(logged)) :
             \A t \in logged, k \in Keys :
               (Wrote(t, k) /\ \A u \in logged : Wrote(u, k) => rank[u] <= rank[t])
               => \A i \in DOMAIN wal[t] : LastOn(t, k, i) => db[k] = Left(wal[t][i], t)]_vars

\* A store that goes down comes up again or is refused for the record a crash cut in two,
\* unless it goes down once more: recovery waits for no lock that is never released.
RecoveryEnds == up = "down" ~> up \in {"open", "refused"}

\* README_EN.md:335, "Crash Recovery: Automatic WAL replay": no transaction was under way when
\* the process stopped, so that whatever was put directly is newer than every transaction
\* that wrote the key, and recovery leaves it.
ReplayKeepsNewer ==
  [][\A k \in Keys : /\ up = "replaying" /\ db[k] = Direct
                     /\ \A t \in Txs : phase[t] # "cut"
                     => db'[k] = Direct]_vars
===========================================================================
