--------------------------- MODULE GojiWALProofs ---------------------------
(***************************************************************************)
(* Proofs that a transaction is in the log before any of it is in the      *)
(* store, and that a recovery replays whole transactions one by one.  The  *)
(* inductive invariant WALInv follows a Commit through its records and a   *)
(* recovery through its transactions: whoever is about to apply an         *)
(* operation of t has BEGIN and COMMIT of t in the log.  ReplayInv adds    *)
(* what the store holds in the middle of a recovery.                       *)
(***************************************************************************)
EXTENDS GojiWAL, FiniteSetTheorems, TLAPS

Typed ==
  /\ syncWrites \in BOOLEAN
  /\ wal \in [Txs -> Seq(WALRecord)]
  /\ flushed \in [Txs -> Nat] /\ \A t \in Txs : flushed[t] <= Len(wal[t])
  /\ ops \in [Txs -> Seq(Op)]
  /\ phase \in [Txs -> {"building", "logging", "applying", "cut", "gone"}]
  /\ step \in [Txs -> Nat]
  /\ db \in [Keys -> Txs \cup {Direct, None}]
  /\ todo \subseteq Txs
  /\ replay = [tx |-> replay.tx, left |-> replay.left]

\* A Commit starts with its first record, writes BEGIN with it, and never runs past COMMIT.
InStep(t) ==
  /\ phase[t] \in {"building", "cut", "gone"} => step[t] = 0
  /\ phase[t] = "logging" => step[t] <= Len(ops[t]) + 1
  /\ phase[t] = "logging" /\ step[t] > 0 => Mark("BEGIN") \in Range(wal[t])
  /\ phase[t] = "applying" => Complete(t) /\ step[t] <= Len(ops[t])

Synced == syncWrites => \A t \in Txs : flushed[t] = Len(wal[t])

\* What is replayed is in the log, and so is what is in the store.
Replayable ==
  /\ \A t \in todo : Complete(t)
  /\ replay.left # {} => replay.tx \in Txs /\ Complete(replay.tx)

StoredLogged == syncWrites => \A k \in Keys, t \in Txs : db[k] = t => Complete(t)

WALInv ==
  /\ Typed
  /\ \A t \in Txs : InStep(t)
  /\ Synced
  /\ Replayable
  /\ StoredLogged

\* The process, and that a replay is under way only in it.
Process ==
  /\ {torn, walLocked} \subseteq BOOLEAN
  /\ up \in {"open", "replaying", "down", "refused"}
  /\ writes \in 0 .. MaxWrites /\ crashes \in 0 .. MaxCrashes
  /\ replay \in [tx : Txs \cup {None}, left : SUBSET Nat]
  /\ up # "replaying" => todo = {} /\ replay = Idle

\* The transactions this recovery has come to, and which operations of each it has applied.
Visited == {t \in Txs : Complete(t)} \ todo

Done(t) == IF t = replay.tx THEN OpsOf(t) \ replay.left ELSE OpsOf(t)

\* The operations of the transaction under replay are applied from the first on.
FirstToLast ==
  /\ replay.tx \in Visited
  /\ replay.left \subseteq OpsOf(replay.tx)
  /\ \A i \in Done(replay.tx), j \in replay.left : i < j

DoneOn(t, k) == \E i \in Done(t) : wal[t][i].key = k

LastDone(t, k, i) == /\ i \in Done(t) /\ wal[t][i].key = k
                     /\ \A j \in Done(t) : wal[t][j].key = k => j <= i

\* If the transactions are taken in the order of rank, every key written so far holds what
\* its last writer left in it, and the transaction under replay is the last of all.
Shows(rank) ==
  /\ replay.tx # None => \A t \in Visited : rank[t] <= rank[replay.tx]
  /\ \A t \in Visited, k \in Keys :
       (\A u \in Visited : DoneOn(u, k) => rank[u] <= rank[t])
       => \A i \in Done(t) : LastDone(t, k, i) => db[k] = Left(wal[t][i], t)

Ranks(S) == Injection(S, 1 .. Cardinality(S))

Replayed ==
  up = "replaying" => /\ replay.tx = None => replay.left = {}
                      /\ replay.tx # None => FirstToLast
                      /\ \E rank \in Ranks(Visited) : Shows(rank)

ReplayInv == WALInv /\ Process /\ Replayed
---------------------------------------------------------------------------
LEMMA InitWAL == Init => WALInv
<1> SUFFICES ASSUME Init
             PROVE  WALInv
  OBVIOUS
<1>1. Typed
  BY DEF Init, Typed, Idle
<1>2. Synced /\ \A t \in Txs : InStep(t)
  BY DEF Init, Synced, InStep
<1>3. Replayable /\ StoredLogged
  BY ValuesAssumption DEF Init, Replayable, StoredLogged, Idle
<1> QED
  BY <1>1, <1>2, <1>3 DEF WALInv

\* A log that only grows keeps what it has.
LEMMA GrowKeeps ==
  ASSUME Typed, NEW t \in Txs, NEW r \in WALRecord, wal' = [wal EXCEPT ![t] = Append(@, r)],
         NEW u \in Txs
  PROVE  /\ wal'[u] \in Seq(WALRecord)
         /\ Range(wal[u]) \subseteq Range(wal'[u])
         /\ u = t => r \in Range(wal'[u]) /\ Len(wal'[u]) = Len(wal[u]) + 1
         /\ u # t => wal'[u] = wal[u]
<1>1. wal[u] \in Seq(WALRecord) /\ wal'[u] = IF u = t THEN Append(wal[u], r) ELSE wal[u]
  BY DEF Typed
<1>2. CASE u = t
  <2>1. /\ wal'[u] \in Seq(WALRecord) /\ Len(wal'[u]) = Len(wal[u]) + 1
        /\ \A i \in 1 .. Len(wal[u]) : wal'[u][i] = wal[u][i]
        /\ wal'[u][Len(wal[u]) + 1] = r
    BY <1>1, <1>2
  <2>2. DOMAIN wal[u] = 1 .. Len(wal[u]) /\ DOMAIN wal'[u] = 1 .. Len(wal'[u])
    BY <1>1, <2>1
  <2>3. DOMAIN wal[u] \subseteq DOMAIN wal'[u] /\ Len(wal[u]) + 1 \in DOMAIN wal'[u]
    BY <1>1, <2>1, <2>2
  <2> QED
    BY <1>2, <2>1, <2>2, <2>3 DEF Range
<1> QED
  BY <1>1, <1>2

\* A step that leaves the log, the replay and the store keeps what is said of them.
LEMMA LogKept ==
  ASSUME UNCHANGED <<logVars, procVars, db>>
  PROVE  /\ Synced => Synced'
         /\ Replayable => Replayable'
         /\ StoredLogged => StoredLogged'
         /\ \A t \in Txs : Complete(t)' <=> Complete(t)
<1>1. UNCHANGED <<syncWrites, wal, flushed, db, todo, replay>>
  BY DEF logVars, procVars
<1> QED
  BY <1>1 DEF Synced, Replayable, StoredLogged, Complete

\* A step that applies an operation of t, which is whole in the log, to the store.
LEMMA AppliedLogged ==
  ASSUME Typed, StoredLogged, NEW t \in Txs, Complete(t), NEW op, db' = Applied(op, t),
         UNCHANGED <<syncWrites, wal>>
  PROVE  StoredLogged' /\ db' \in [Keys -> Txs \cup {Direct, None}]
<1>1. db' \in [Keys -> Txs \cup {Direct, None}]
  BY DEF Applied, Left, Typed
<1>2. \A k \in Keys : db'[k] = db[k] \/ db'[k] = t \/ db'[k] = None
  BY DEF Applied, Left, Typed
<1>3. \A u \in Txs : Complete(u)' <=> Complete(u)
  BY DEF Complete
<1> QED
  BY <1>1, <1>2, <1>3, ValuesAssumption DEF StoredLogged

\* A record of t is logged.
LEMMA LogRecordWAL ==
  ASSUME WALInv, NEW t \in Txs, LogRecord(t)
  PROVE  WALInv'
<1> DEFINE r == CASE step[t] = 0              -> Mark("BEGIN")
                  [] step[t] \in DOMAIN ops[t] -> ops[t][step[t]]
                  [] OTHER                     -> Mark("COMMIT")
<1>1. Typed /\ InStep(t) /\ ops[t] \in Seq(Op) /\ step[t] \in Nat /\ phase[t] = "logging"
  BY DEF WALInv, Typed, LogRecord
<1>2. /\ WriteRecord(t, r) /\ wal' = [wal EXCEPT ![t] = Append(@, r)]
      /\ flushed' = (IF syncWrites THEN [u \in Txs |-> Len(wal'[u])] ELSE flushed)
      /\ UNCHANGED <<syncWrites, todo, replay, db, ops>>
  BY DEF LogRecord, WriteRecord, procVars
<1>3. r \in WALRecord
  BY <1>1 DEF WALRecord
<1>11. DOMAIN ops[t] = 1 .. Len(ops[t]) /\ Len(ops[t]) \in Nat
  BY <1>1
<1>12. step[t] = 0 => r = Mark("BEGIN")
  BY <1>11
<1>13. step[t] = Len(ops[t]) + 1 => r = Mark("COMMIT")
  BY <1>11
<1> HIDE DEF r
<1>4. \A u \in Txs : /\ wal'[u] \in Seq(WALRecord)
                     /\ Range(wal[u]) \subseteq Range(wal'[u])
                     /\ u = t => r \in Range(wal'[u]) /\ Len(wal'[u]) = Len(wal[u]) + 1
                     /\ u # t => wal'[u] = wal[u]
  BY <1>1, <1>2, <1>3, GrowKeeps
<1>5. \A u \in Txs : Complete(u) => Complete(u)'
  BY <1>4 DEF Complete
<1>6. \/ LastLogged(t) /\ step' = [step EXCEPT ![t] = 0]
                       /\ phase' = [phase EXCEPT ![t] = "applying"]
      \/ ~LastLogged(t) /\ step' = [step EXCEPT ![t] = @ + 1] /\ phase' = phase
  BY DEF LogRecord
<1>7. Typed'
  <2>1. wal' \in [Txs -> Seq(WALRecord)]
    BY <1>1, <1>2, <1>4 DEF Typed
  <2>2. ASSUME NEW u \in Txs
        PROVE  Len(wal'[u]) \in Nat /\ flushed[u] \in Nat /\ flushed[u] <= Len(wal'[u])
    <3>1. wal[u] \in Seq(WALRecord) /\ flushed[u] \in Nat /\ flushed[u] <= Len(wal[u])
      BY <1>1 DEF Typed
    <3>2. wal'[u] \in Seq(WALRecord) /\ (Len(wal'[u]) = Len(wal[u]) + 1 \/ wal'[u] = wal[u])
      BY <1>4
    <3> QED
      BY <3>1, <3>2
  <2>3. flushed' \in [Txs -> Nat] /\ \A u \in Txs : flushed'[u] <= Len(wal'[u])
    <3>1. CASE syncWrites
      BY <1>2, <2>2, <3>1
    <3>2. CASE ~syncWrites
      BY <1>1, <1>2, <2>2, <3>2 DEF Typed
    <3> QED
      BY <3>1, <3>2
  <2>4. /\ phase' \in [Txs -> {"building", "logging", "applying", "cut", "gone"}]
        /\ step' \in [Txs -> Nat]
    <3>1. /\ phase \in [Txs -> {"building", "logging", "applying", "cut", "gone"}]
          /\ step \in [Txs -> Nat] /\ step[t] + 1 \in Nat
      BY <1>1 DEF Typed
    <3>2. CASE LastLogged(t)
      BY <1>6, <3>1, <3>2
    <3>3. CASE ~LastLogged(t)
      BY <1>6, <3>1, <3>3
    <3> QED
      BY <3>2, <3>3
  <2>5. replay' = [tx |-> replay'.tx, left |-> replay'.left]
    BY <1>1, <1>2 DEF Typed
  <2> QED
    BY <1>1, <1>2, <2>1, <2>3, <2>4, <2>5 DEF Typed
<1>8. ASSUME NEW u \in Txs
      PROVE  InStep(u)'
  <2>1. InStep(u)
    BY DEF WALInv
  <2>2. CASE u # t
    <3>1. /\ wal'[u] = wal[u] /\ ops'[u] = ops[u] /\ step'[u] = step[u]
          /\ phase'[u] = phase[u]
      BY <1>1, <1>2, <1>4, <1>6, <2>2 DEF Typed
    <3> QED
      BY <2>1, <3>1 DEF InStep, Complete
  <2>3. CASE u = t /\ LastLogged(t)
    <3>1. r = Mark("COMMIT") /\ step[t] > 0
      BY <1>11, <1>13, <2>3 DEF LastLogged
    <3>2. Complete(t)'
      BY <1>1, <1>4, <3>1 DEF InStep, Complete
    <3> QED
      BY <1>1, <1>6, <2>3, <3>2 DEF InStep, Typed
  <2>4. CASE u = t /\ ~LastLogged(t)
    <3>1. Mark("BEGIN") \in Range(wal'[t])
      <4>1. CASE step[t] = 0
        BY <1>4, <1>12, <4>1
      <4>2. CASE step[t] > 0
        BY <1>1, <1>4, <4>2 DEF InStep
      <4> QED
        BY <1>1, <4>1, <4>2
    <3>2. step[t] + 1 <= Len(ops[t]) + 1
      BY <1>1, <2>4 DEF LastLogged, InStep
    <3> QED
      BY <1>1, <1>2, <1>6, <2>4, <3>1, <3>2 DEF InStep, Typed
  <2> QED
    BY <2>2, <2>3, <2>4
<1>9. Synced'
  BY <1>2 DEF Synced
<1>10. Replayable' /\ StoredLogged'
  BY <1>1, <1>2, <1>5 DEF Replayable, StoredLogged, WALInv, Typed
<1> QED
  BY <1>7, <1>8, <1>9, <1>10 DEF WALInv

\* An operation is applied.
LEMMA ApplyOpWAL ==
  ASSUME WALInv, NEW t \in Txs, ApplyOp(t)
  PROVE  WALInv'
<1> DEFINE op == ops[t][step[t] + 1]
           rejected == op.type = "PUT" /\ op.key = EmptyKey
<1>1. /\ Typed /\ phase[t] = "applying" /\ InStep(t) /\ StoredLogged /\ step[t] \in Nat
      /\ Synced /\ Replayable
  BY DEF WALInv, Typed, ApplyOp
<1>2. /\ db' = Applied(op, t)
      /\ phase' = [phase EXCEPT ![t] = IF rejected THEN "building" ELSE @]
      /\ step' = IF rejected THEN Rewound(t) ELSE [step EXCEPT ![t] = @ + 1]
      /\ UNCHANGED <<syncWrites, wal, flushed, todo, replay, ops>>
  BY DEF ApplyOp, logVars, procVars
<1>3. StoredLogged' /\ db' \in [Keys -> Txs \cup {Direct, None}]
  BY <1>1, <1>2, AppliedLogged DEF InStep
<1>4. Typed'
  BY <1>1, <1>2, <1>3 DEF Typed, Rewound
<1>5. ASSUME NEW u \in Txs
      PROVE  InStep(u)'
  <2>1. InStep(u) /\ (Complete(u)' <=> Complete(u))
    BY <1>2 DEF WALInv, Complete
  <2>2. CASE u # t
    BY <1>1, <1>2, <2>1, <2>2 DEF InStep, Typed, Rewound
  <2>3. CASE u = t
    <3>1. ops[t] \in Seq(Op) /\ Len(ops[t]) \in Nat /\ step[t] + 1 <= Len(ops[t])
      BY <1>1 DEF ApplyOp, Typed
    <3> QED
      BY <1>1, <1>2, <2>1, <2>3, <3>1 DEF InStep, Typed, Rewound
  <2> QED
    BY <2>2, <2>3
<1>6. Synced' /\ Replayable'
  BY <1>1, <1>2 DEF Synced, Replayable, Complete
<1> QED
  BY <1>3, <1>4, <1>5, <1>6 DEF WALInv

\* What Typed says of the variables of transactions, for the steps that change only those.
LEMMA TxStepWAL ==
  ASSUME WALInv, NEW t \in Txs, UNCHANGED <<logVars, procVars, db>>,
         ops' \in [Txs -> Seq(Op)], step' \in [Txs -> Nat],
         phase' \in [Txs -> {"building", "logging", "applying", "cut", "gone"}],
         \A u \in Txs : u # t => /\ ops'[u] = ops[u] /\ step'[u] = step[u]
                                 /\ phase'[u] = phase[u],
         phase'[t] \in {"building", "logging"} /\ step'[t] = 0
  PROVE  WALInv'
<1>1. Typed'
  BY DEF WALInv, Typed, logVars, procVars
<1>2. Synced' /\ Replayable' /\ StoredLogged' /\ \A u \in Txs : Complete(u)' <=> Complete(u)
  BY LogKept DEF WALInv
<1>3. ASSUME NEW u \in Txs
      PROVE  InStep(u)'
  <2>1. InStep(u) /\ wal' = wal
    BY DEF WALInv, logVars
  <2>2. CASE u # t
    BY <1>2, <2>1, <2>2 DEF InStep
  <2>3. CASE u = t
    <3>1. Len(ops'[t]) \in Nat
      OBVIOUS
    <3> QED
      BY <2>3, <3>1 DEF InStep
  <2> QED
    BY <2>2, <2>3
<1> QED
  BY <1>1, <1>2, <1>3 DEF WALInv

\* The steps of callers that change only the transaction.
LEMMA CallerWAL ==
  ASSUME WALInv, NEW t \in Txs,
         (\E op \in TxOps : AddOp(t, op)) \/ Rollback(t) \/ BeginCommit(t) \/ EndCommit(t)
  PROVE  WALInv'
<1>1. Typed /\ InStep(t)
  BY DEF WALInv
<1>2. CASE \E op \in TxOps : AddOp(t, op)
  <2>1. PICK op \in Op : AddOp(t, op)
    BY <1>2, OpsAssumption
  <2>2. /\ ops' = [ops EXCEPT ![t] = Append(@, op)] /\ phase[t] = "building"
        /\ UNCHANGED <<logVars, procVars, db, phase, step>>
    BY <2>1 DEF AddOp
  <2>3. ops' \in [Txs -> Seq(Op)] /\ \A u \in Txs : u # t => ops'[u] = ops[u]
    BY <1>1, <2>2 DEF Typed
  <2> QED
    BY <1>1, <2>2, <2>3, TxStepWAL DEF Typed, InStep
<1>3. CASE Rollback(t)
  <2>1. /\ ops' = [ops EXCEPT ![t] = <<>>] /\ phase[t] = "building"
        /\ UNCHANGED <<logVars, procVars, db, phase, step>>
    BY <1>3 DEF Rollback
  <2>2. ops' \in [Txs -> Seq(Op)] /\ \A u \in Txs : u # t => ops'[u] = ops[u]
    BY <1>1, <2>1 DEF Typed
  <2> QED
    BY <1>1, <2>1, <2>2, TxStepWAL DEF Typed, InStep
<1>4. CASE BeginCommit(t)
  <2>1. /\ phase' = [phase EXCEPT ![t] = "logging"] /\ phase[t] = "building"
        /\ UNCHANGED <<logVars, procVars, db, ops, step>>
    BY <1>4 DEF BeginCommit
  <2> QED
    BY <1>1, <2>1, TxStepWAL DEF Typed, InStep
<1>5. CASE EndCommit(t)
  <2>1. /\ ops' = [ops EXCEPT ![t] = <<>>] /\ phase' = [phase EXCEPT ![t] = "building"]
        /\ step' = [step EXCEPT ![t] = 0]
        /\ UNCHANGED <<logVars, procVars, db>>
    BY <1>5 DEF EndCommit, Rewound
  <2>2. /\ ops' \in [Txs -> Seq(Op)] /\ step' \in [Txs -> Nat]
        /\ phase' \in [Txs -> {"building", "logging", "applying", "cut", "gone"}]
        /\ phase'[t] = "building" /\ step'[t] = 0
        /\ \A u \in Txs : u # t => /\ ops'[u] = ops[u] /\ step'[u] = step[u]
                                   /\ phase'[u] = phase[u]
    BY <1>1, <2>1 DEF Typed
  <2> QED
    BY <2>1, <2>2, TxStepWAL
<1> QED
  BY <1>2, <1>3, <1>4, <1>5

\* A crash: with WALSyncWrites nothing that was logged is lost.
LEMMA CrashWAL ==
  ASSUME WALInv, NEW kept \in [Txs -> 0 .. MaxOps + 2], NEW cut,
         \A t \in Txs : kept[t] <= Len(wal[t]), Crash(kept, cut)
  PROVE  WALInv'
<1>1. /\ \A t \in Txs : flushed[t] <= kept[t]
      /\ wal' = [t \in Txs |-> SubSeq(wal[t], 1, kept[t])] /\ flushed' = kept
      /\ ops' = [t \in Txs |-> <<>>] /\ step' = [t \in Txs |-> 0]
      /\ phase' = [t \in Txs |-> IF phase[t] \in {"building", "gone"} THEN "gone" ELSE "cut"]
      /\ todo' = {} /\ replay' = Idle /\ UNCHANGED <<syncWrites, db>>
  BY DEF Crash
<1>2. \A t \in Txs : /\ wal[t] \in Seq(WALRecord) /\ Len(wal[t]) \in Nat
                     /\ kept[t] \in Nat /\ flushed[t] \in Nat
  BY BoundsAssumption DEF WALInv, Typed
<1>3. ASSUME NEW t \in Txs
      PROVE  /\ wal'[t] \in Seq(WALRecord) /\ Len(wal'[t]) = kept[t]
             /\ syncWrites => wal'[t] = wal[t]
  <2>1. wal'[t] = SubSeq(wal[t], 1, kept[t])
    BY <1>1
  <2>2. wal'[t] \in Seq(WALRecord) /\ Len(wal'[t]) = kept[t]
    BY <1>2, <2>1
  <2>3. syncWrites => kept[t] = Len(wal[t])
    <3>1. syncWrites => flushed[t] = Len(wal[t])
      BY DEF WALInv, Synced
    <3>2. flushed[t] <= kept[t] /\ kept[t] <= Len(wal[t])
      BY <1>1
    <3> QED
      BY <1>2, <3>1, <3>2
  <2>4. SubSeq(wal[t], 1, Len(wal[t])) = wal[t]
    BY <1>2
  <2> QED
    BY <2>1, <2>2, <2>3, <2>4
<1>4. Typed'
  <2>1. wal' \in [Txs -> Seq(WALRecord)] /\ flushed' \in [Txs -> Nat]
    BY <1>1, <1>2, <1>3
  <2>2. \A t \in Txs : flushed'[t] <= Len(wal'[t])
    BY <1>1, <1>2, <1>3
  <2>3. /\ ops' \in [Txs -> Seq(Op)] /\ step' \in [Txs -> Nat]
        /\ phase' \in [Txs -> {"building", "logging", "applying", "cut", "gone"}]
    BY <1>1
  <2> QED
    BY <1>1, <2>1, <2>2, <2>3 DEF WALInv, Typed, Idle
<1>5. \A t \in Txs : InStep(t)'
  BY <1>1 DEF InStep
<1>6. Synced' /\ Replayable'
  BY <1>1, <1>3 DEF Synced, Replayable, Idle
<1>7. StoredLogged'
  BY <1>1, <1>3 DEF WALInv, StoredLogged, Complete
<1> QED
  BY <1>4, <1>5, <1>6, <1>7 DEF WALInv

\* The steps of a recovery, the background flush and the writes beside transactions: none
\* of them touches a transaction or what the log holds.
LEMMA RecoveryWAL ==
  ASSUME WALInv,
         \/ ReadLog \/ ReplayOp \/ EndReplay \/ Flush
         \/ \E t \in Txs : ReplayNext(t)
         \/ \E k \in Keys, v \in {Direct, None} : Write(k, v)
  PROVE  WALInv'
<1>1. UNCHANGED <<syncWrites, wal, txVars>>
  BY DEF ReadLog, ReplayOp, EndReplay, Flush, ReplayNext, Write, logVars
<1>2. UNCHANGED <<ops, phase, step>> /\ \A t \in Txs : Complete(t)' <=> Complete(t)
  BY <1>1 DEF txVars, Complete
<1>3. \A t \in Txs : InStep(t)'
  BY <1>1, <1>2 DEF WALInv, InStep
<1>4. ASSUME /\ db' \in [Keys -> Txs \cup {Direct, None}] /\ todo' \subseteq Txs
             /\ replay' = [tx |-> replay'.tx, left |-> replay'.left]
             /\ Replayable' /\ StoredLogged' /\ flushed' = flushed
      PROVE  WALInv'
  BY <1>1, <1>2, <1>3, <1>4 DEF WALInv, Typed, Synced
<1>5. CASE ReadLog
  BY <1>2, <1>4, <1>5 DEF ReadLog, logVars, WALInv, Typed, Replayable, StoredLogged
<1>6. CASE ReplayOp
  <2>1. PICK i \in replay.left : /\ db' = Applied(wal[replay.tx][i], replay.tx)
                                 /\ replay' = [replay EXCEPT !.left = @ \ {i}]
                                 /\ UNCHANGED <<flushed, todo>>
    BY <1>6 DEF ReplayOp, logVars
  <2>2. replay.tx \in Txs /\ Complete(replay.tx)
    BY <2>1 DEF WALInv, Replayable
  <2>3. StoredLogged' /\ db' \in [Keys -> Txs \cup {Direct, None}]
    BY <1>1, <2>1, <2>2, AppliedLogged DEF WALInv
  <2>4. replay' = [tx |-> replay.tx, left |-> replay.left \ {i}]
    BY <2>1 DEF WALInv, Typed
  <2>5. Replayable'
    <3>1. \A t \in todo' : Complete(t)'
      BY <1>2, <2>1 DEF WALInv, Typed, Replayable
    <3>2. replay'.tx = replay.tx /\ Complete(replay.tx)'
      BY <1>1, <2>2, <2>4 DEF Complete
    <3> QED
      BY <2>2, <3>1, <3>2 DEF Replayable
  <2> QED
    BY <1>4, <2>1, <2>3, <2>4, <2>5 DEF WALInv, Typed
<1>7. CASE EndReplay
  BY <1>2, <1>4, <1>7 DEF EndReplay, logVars, WALInv, Typed, Replayable, StoredLogged, Idle
<1>8. CASE Flush
  <2>1. /\ flushed' = [t \in Txs |-> Len(wal[t])] /\ UNCHANGED <<db, todo, replay>>
    BY <1>8 DEF Flush, procVars
  <2>2. flushed' \in [Txs -> Nat] /\ \A t \in Txs : flushed'[t] <= Len(wal'[t])
    BY <1>1, <2>1 DEF WALInv, Typed
  <2>3. Typed'
    BY <1>1, <1>2, <2>1, <2>2 DEF WALInv, Typed
  <2>4. Synced' /\ Replayable' /\ StoredLogged'
    <3>1. Synced'
      BY <1>1, <2>1 DEF Synced
    <3>2. Replayable'
      BY <1>2, <2>1 DEF WALInv, Typed, Replayable
    <3>3. StoredLogged'
      BY <1>1, <1>2, <2>1 DEF WALInv, StoredLogged
    <3> QED
      BY <3>1, <3>2, <3>3
  <2> QED
    BY <1>3, <2>3, <2>4 DEF WALInv
<1>9. CASE \E t \in Txs : ReplayNext(t)
  <2>1. PICK t \in Txs : ReplayNext(t)
    BY <1>9
  <2>2. /\ t \in todo /\ todo' = todo \ {t} /\ replay' = [tx |-> t, left |-> OpsOf(t)]
        /\ UNCHANGED <<flushed, db>>
    BY <2>1 DEF ReplayNext, logVars
  <2>3. Replayable'
    BY <1>2, <2>2 DEF WALInv, Replayable, Typed
  <2> QED
    BY <1>1, <1>2, <1>4, <2>2, <2>3 DEF WALInv, Typed, StoredLogged
<1>10. CASE \E k \in Keys, v \in {Direct, None} : Write(k, v)
  <2>1. PICK k \in Keys, v \in {Direct, None} : Write(k, v)
    BY <1>10
  <2>2. db' = [db EXCEPT ![k] = v] /\ UNCHANGED <<flushed, todo, replay>>
    BY <2>1 DEF Write, logVars, procVars
  <2>3. StoredLogged' /\ db' \in [Keys -> Txs \cup {Direct, None}]
    BY <1>1, <1>2, <2>2, ValuesAssumption DEF WALInv, StoredLogged, Typed
  <2> QED
    BY <1>2, <1>4, <2>2, <2>3 DEF WALInv, Typed, Replayable
<1> QED
  BY <1>5, <1>6, <1>7, <1>8, <1>9, <1>10

LEMMA NextWAL == WALInv /\ [Next]_vars => WALInv'
<1> SUFFICES ASSUME WALInv, [Next]_vars
             PROVE  WALInv'
  OBVIOUS
<1>1. CASE UNCHANGED vars
  BY <1>1 DEF vars, WALInv, Typed, InStep, Synced, Replayable, StoredLogged, Complete
<1>2. CASE \E t \in Txs : \/ \E op \in TxOps : AddOp(t, op)
                          \/ Rollback(t)
                          \/ BeginCommit(t)
                          \/ EndCommit(t)
  BY <1>2, CallerWAL
<1>3. CASE \E t \in Txs : LogRecord(t)
  BY <1>3, LogRecordWAL
<1>4. CASE \E t \in Txs : ApplyOp(t)
  BY <1>4, ApplyOpWAL
<1>5. CASE \/ ReadLog \/ ReplayOp \/ EndReplay \/ Flush
           \/ \E t \in Txs : ReplayNext(t)
           \/ \E k \in Keys, v \in {Direct, None} : Write(k, v)
  BY <1>5, RecoveryWAL
<1>6. CASE \E kept \in [Txs -> 0 .. MaxOps + 2], cut \in BOOLEAN :
             (\A t \in Txs : kept[t] <= Len(wal[t])) /\ Crash(kept, cut)
  BY <1>6, CrashWAL
<1> QED
  BY <1>1, <1>2, <1>3, <1>4, <1>5, <1>6 DEF Next

\* Under WALSyncWrites a value of a transaction is in the store only if the log file holds
\* the transaction from BEGIN to COMMIT: for any number of transactions, keys and crashes,
\* in every interleaving of commits, flushes and recoveries.
THEOREM LoggedBeforeApplied == Spec => []LoggedFirst
<1>1. WALInv => LoggedFirst
  <2> SUFFICES ASSUME WALInv, syncWrites, NEW k \in Keys, NEW t \in Txs, db[k] = t
               PROVE  {Mark("BEGIN"), Mark("COMMIT")} \subseteq Range(SubSeq(wal[t], 1, flushed[t]))
    BY DEF LoggedFirst
  <2>1. Complete(t) /\ flushed[t] = Len(wal[t]) /\ wal[t] \in Seq(WALRecord)
    BY DEF WALInv, StoredLogged, Synced, Typed
  <2>2. SubSeq(wal[t], 1, flushed[t]) = wal[t]
    BY <2>1
  <2> QED
    BY <2>1, <2>2 DEF Complete
<1> QED
  BY <1>1, InitWAL, NextWAL, PTL DEF Spec
---------------------------------------------------------------------------
(* The process and the bounds.                                             *)

LEMMA IdleTyped == Idle \in [tx : Txs \cup {None}, left : SUBSET Nat]
BY DEF Idle

LEMMA NextProcess == WALInv /\ Process /\ [Next]_vars => Process'
<1> SUFFICES ASSUME WALInv, Process, [Next]_vars
             PROVE  Process'
  OBVIOUS
<1>1. \A t \in Txs : wal[t] \in Seq(WALRecord) /\ OpsOf(t) \in SUBSET Nat
  <2>1. \A t \in Txs : wal[t] \in Seq(WALRecord) /\ DOMAIN wal[t] \subseteq Nat
    BY DEF WALInv, Typed
  <2> QED
    BY <2>1 DEF OpsOf
<1>2. CASE UNCHANGED vars
  BY <1>2 DEF vars, Process
<1>3. CASE \E t \in Txs : \/ \E op \in TxOps : AddOp(t, op)
                          \/ Rollback(t) \/ BeginCommit(t) \/ LogRecord(t)
                          \/ ApplyOp(t) \/ EndCommit(t)
  BY <1>3 DEF AddOp, Rollback, BeginCommit, LogRecord, WriteRecord, ApplyOp, EndCommit, Process,
              logVars, procVars, bounds
<1>4. CASE \E t \in Txs : ReplayNext(t)
  BY <1>1, <1>4 DEF ReplayNext, Process, logVars, bounds
<1>5. CASE \E k \in Keys, v \in {Direct, None} : Write(k, v)
  BY <1>5, BoundsAssumption DEF Write, Process, logVars, procVars
<1>6. CASE Flush
  BY <1>6 DEF Flush, Process, procVars, bounds
<1>7. CASE \E kept \in [Txs -> 0 .. MaxOps + 2], cut \in BOOLEAN :
             (\A t \in Txs : kept[t] <= Len(wal[t])) /\ Crash(kept, cut)
  <2>1. PICK kept \in [Txs -> 0 .. MaxOps + 2], cut \in BOOLEAN : Crash(kept, cut)
    BY <1>7
  <2>2. /\ crashes < MaxCrashes /\ crashes' = crashes + 1 /\ UNCHANGED writes
        /\ up' = "down" /\ walLocked' = FALSE /\ torn' = cut /\ todo' = {} /\ replay' = Idle
    BY <2>1 DEF Crash
  <2>3. crashes' \in 0 .. MaxCrashes /\ writes' \in 0 .. MaxWrites
    BY <2>2, BoundsAssumption DEF Process
  <2> QED
    BY <2>2, <2>3, IdleTyped DEF Process
<1>8. CASE ReadLog
  BY <1>8 DEF ReadLog, Process, logVars, bounds, LockedInReplay
<1>9. CASE ReplayOp
  BY <1>9 DEF ReplayOp, Process, logVars, bounds
<1>10. CASE EndReplay
  BY <1>10 DEF EndReplay, Process, logVars, bounds, Idle
<1> QED
  BY <1>2, <1>3, <1>4, <1>5, <1>6, <1>7, <1>8, <1>9, <1>10 DEF Next

LEMMA InitProcess == Init => Process
<1> SUFFICES ASSUME Init
             PROVE  Process
  OBVIOUS
<1>1. /\ torn = FALSE /\ up = "open" /\ walLocked = FALSE /\ todo = {} /\ replay = Idle
      /\ writes = 0 /\ crashes = 0
  BY DEF Init
<1>2. writes \in 0 .. MaxWrites /\ crashes \in 0 .. MaxCrashes
  BY <1>1, BoundsAssumption
<1> QED
  BY <1>1, <1>2, IdleTyped DEF Process

\* The variables hold what their declarations say, for any transactions, operations and
\* bounds: no Commit runs past the records of its transaction, and a recovery has the
\* positions of records to apply.
THEOREM TypeCorrect == Spec => []TypeOK
<1>1. WALInv /\ Process => TypeOK
  <2> SUFFICES ASSUME WALInv, Process
               PROVE  TypeOK
    OBVIOUS
  <2>1. ASSUME NEW t \in Txs
        PROVE  step[t] <= Len(ops[t]) + 1
    <3>1. InStep(t) /\ Len(ops[t]) \in Nat /\ step[t] \in Nat
      BY DEF WALInv, Typed
    <3>2. phase[t] \in {"building", "logging", "applying", "cut", "gone"}
      BY DEF WALInv, Typed
    <3> QED
      BY <3>1, <3>2 DEF InStep
  <2> QED
    BY <2>1 DEF WALInv, Typed, Process, TypeOK
<1> QED
  BY <1>1, InitWAL, NextWAL, InitProcess, NextProcess, PTL DEF Spec
---------------------------------------------------------------------------
(* What the store holds in the middle of a recovery.                       *)

LEMMA FirstRank == Ranks({}) # {}
<1> DEFINE rank == [t \in {} |-> 0]
<1>1. rank \in [{} -> 1 .. Cardinality({})] /\ IsInjective(rank)
  BY DEF IsInjective
<1> QED
  BY <1>1 DEF Ranks, Injection

\* One more transaction takes the last rank.
LEMMA NextRank ==
  ASSUME NEW S, IsFiniteSet(S), NEW t, t \notin S, NEW rank \in Ranks(S)
  PROVE  \E next \in Ranks(S \cup {t}) : \A u \in S : next[u] = rank[u] /\ next[u] < next[t]
<1> DEFINE n == Cardinality(S)
           next == [u \in S \cup {t} |-> IF u = t THEN n + 1 ELSE rank[u]]
<1>1. n \in Nat /\ Cardinality(S \cup {t}) = n + 1
  BY FS_CardinalityType, FS_AddElement
<1>2. rank \in [S -> 1 .. n] /\ \A u, v \in S : rank[u] = rank[v] => u = v
  BY DEF Ranks, Injection, IsInjective
<1> HIDE DEF n
<1>3. next \in [S \cup {t} -> 1 .. n + 1]
  BY <1>1, <1>2
<1>4. \A u \in S : next[u] = rank[u] /\ next[u] < next[t]
  BY <1>1, <1>2
<1>5. \A u, v \in S \cup {t} : next[u] = next[v] => u = v
  BY <1>1, <1>2
<1> HIDE DEF next
<1>6. IsInjective(next)
  BY <1>3, <1>5 DEF IsInjective
<1> QED
  BY <1>1, <1>3, <1>4, <1>6 DEF Ranks, Injection

LEMMA Positions == Typed => \A t \in Txs : OpsOf(t) \subseteq Nat /\ OpsOf(t) \subseteq DOMAIN wal[t]
<1> SUFFICES ASSUME Typed, NEW t \in Txs
             PROVE  OpsOf(t) \subseteq Nat /\ OpsOf(t) \subseteq DOMAIN wal[t]
  OBVIOUS
<1>1. wal[t] \in Seq(WALRecord)
  BY DEF Typed
<1> QED
  BY <1>1 DEF OpsOf

\* A step of the process that changes neither log nor store nor replay.
LEMMA SameReplayed ==
  ASSUME Replayed, UNCHANGED <<wal, up, db, todo, replay>>
  PROVE  Replayed'
<1>1. /\ Visited' = Visited
      /\ \A t : OpsOf(t)' = OpsOf(t) /\ Done(t)' = Done(t)
  BY DEF Visited, Complete, OpsOf, Done
<1>2. FirstToLast' <=> FirstToLast
  BY <1>1 DEF FirstToLast
<1>3. ASSUME NEW rank, Shows(rank)
      PROVE  Shows(rank)'
  <2>1. replay'.tx # None => \A t \in Visited' : rank[t] <= rank[replay'.tx]
    BY <1>1, <1>3 DEF Shows
  <2>2. ASSUME NEW t \in Visited', NEW k \in Keys,
               \A u \in Visited' : DoneOn(u, k)' => rank[u] <= rank[t],
               NEW i \in Done(t)', LastDone(t, k, i)'
        PROVE  db'[k] = Left(wal'[t][i], t)
    <3>1. t \in Visited /\ i \in Done(t)
      BY <1>1, <2>2
    <3>2. \A u \in Visited : DoneOn(u, k) => rank[u] <= rank[t]
      BY <1>1, <2>2 DEF DoneOn
    <3>3. LastDone(t, k, i)
      BY <1>1, <2>2 DEF LastDone
    <3>4. db[k] = Left(wal[t][i], t)
      BY <1>3, <3>1, <3>2, <3>3 DEF Shows
    <3> QED
      BY <3>4
  <2> QED
    BY <2>1, <2>2 DEF Shows, Left
<1>4. Ranks(Visited)' = Ranks(Visited)
  BY <1>1 DEF Ranks
<1> QED
  BY <1>2, <1>3, <1>4 DEF Replayed

\* A recovery begins with nothing replayed.
LEMMA ReadLogReplayed ==
  ASSUME WALInv, Process, ReadLog
  PROVE  Replayed'
<1>1. up # "replaying" /\ replay = Idle /\ UNCHANGED <<wal, db, replay>>
  BY DEF ReadLog, Process, logVars
<1>2. CASE torn
  BY <1>2 DEF ReadLog, Replayed
<1>3. CASE ~torn
  <2>1. Visited' = {}
    BY <1>1, <1>3 DEF ReadLog, Visited, Complete
  <2>2. PICK rank : rank \in Ranks({})
    BY FirstRank
  <2>3. replay'.tx = None /\ replay'.left = {}
    BY <1>1 DEF Idle
  <2>4. Shows(rank)'
    BY <2>1, <2>3 DEF Shows
  <2>5. \E r \in Ranks(Visited') : Shows(r)'
    BY <2>1, <2>2, <2>4
  <2> QED
    BY <2>3, <2>5 DEF Replayed, Ranks
<1> QED
  BY <1>2, <1>3

\* What Shows says of one transaction, key and position, in the next state.
LEMMA ShownNext ==
  ASSUME NEW rank,
         replay'.tx # None => \A t \in Visited' : rank[t] <= rank[replay'.tx],
         \A t \in Visited', k \in Keys :
           \A i \in Done(t)' :
             LastDone(t, k, i)' /\ (\A u \in Visited' : DoneOn(u, k)' => rank[u] <= rank[t])
             => db'[k] = Left(wal'[t][i], t)
  PROVE  Shows(rank)'
BY DEF Shows, Left, DoneOn, LastDone

\* The next transaction: it takes the last rank, and none of it is done yet.
LEMMA ReplayNextReplayed ==
  ASSUME WALInv, Process, Replayed, NEW t \in Txs, ReplayNext(t)
  PROVE  Replayed'
<1>1. /\ up = "replaying" /\ replay.left = {} /\ t \in todo /\ todo' = todo \ {t}
      /\ replay' = [tx |-> t, left |-> OpsOf(t)] /\ UNCHANGED <<wal, up, db>>
  BY DEF ReplayNext, logVars
<1>2. /\ \A u \in Txs : OpsOf(u)' = OpsOf(u) /\ (Complete(u)' <=> Complete(u))
      /\ Complete(t) /\ None \notin Txs
  BY <1>1, ValuesAssumption DEF OpsOf, Complete, WALInv, Replayable
<1>3. Visited' = Visited \cup {t} /\ t \notin Visited /\ Visited \subseteq Txs
  BY <1>1, <1>2 DEF Visited
<1>4. \A u \in Visited : Done(u) = OpsOf(u)
  BY <1>1 DEF Done
<1>5. /\ Done(t)' = {}
      /\ \A u \in Visited : Done(u)' = Done(u)
  <2>1. Done(t)' = {}
    BY <1>1, <1>2 DEF Done
  <2>2. ASSUME NEW u \in Visited
        PROVE  Done(u)' = Done(u)
    BY <1>1, <1>2, <1>3, <1>4 DEF Done
  <2> QED
    BY <2>1, <2>2
<1>6. PICK rank \in Ranks(Visited) : Shows(rank)
  BY <1>1 DEF Replayed
<1>7. IsFiniteSet(Visited)
  BY <1>3, TxsAssumption, FS_Subset
<1>8. PICK next \in Ranks(Visited \cup {t}) :
        \A u \in Visited : next[u] = rank[u] /\ next[u] < next[t]
  BY <1>3, <1>6, <1>7, NextRank
<1>9. Cardinality(Visited \cup {t}) \in Nat /\ \A u \in Visited \cup {t} : next[u] \in Nat
  <2>1. IsFiniteSet(Visited \cup {t})
    BY <1>7, FS_AddElement
  <2>2. Cardinality(Visited \cup {t}) \in Nat
    BY <2>1, FS_CardinalityType
  <2>3. next \in [Visited \cup {t} -> 1 .. Cardinality(Visited \cup {t})]
    BY <1>8 DEF Ranks, Injection
  <2> QED
    BY <2>2, <2>3
<1>10. \A u \in Visited' : next[u] <= next[replay'.tx]
  BY <1>1, <1>3, <1>8, <1>9
<1>11. ASSUME NEW u \in Visited', NEW k \in Keys, NEW i \in Done(u)', LastDone(u, k, i)',
              \A v \in Visited' : DoneOn(v, k)' => next[v] <= next[u]
       PROVE  db'[k] = Left(wal'[u][i], u)
  <2>1. u # t /\ u \in Visited /\ i \in Done(u)
    BY <1>3, <1>5, <1>11
  <2>2. LastDone(u, k, i)
    BY <1>1, <1>5, <1>11, <2>1 DEF LastDone
  <2>3. \A v \in Visited : DoneOn(v, k) => rank[v] <= rank[u]
    BY <1>1, <1>3, <1>5, <1>8, <1>11, <2>1 DEF DoneOn
  <2> QED
    BY <1>1, <1>6, <2>1, <2>2, <2>3 DEF Shows
<1>12. Shows(next)'
  BY <1>10, <1>11, ShownNext
<1>13. FirstToLast'
  BY <1>1, <1>2, <1>3, <1>5 DEF FirstToLast
<1>14. \E r \in Ranks(Visited') : Shows(r)'
  BY <1>3, <1>8, <1>12
<1> QED
  BY <1>1, <1>2, <1>13, <1>14 DEF Replayed, Ranks

\* One operation: it is the last of the last transaction so far.
LEMMA ReplayOpReplayed ==
  ASSUME WALInv, Process, Replayed, ReplayOp
  PROVE  Replayed'
<1>0. PICK t : t = replay.tx
  OBVIOUS
<1>1. PICK i \in replay.left :
        /\ \A j \in replay.left : i <= j
        /\ db' = Applied(wal[t][i], t) /\ replay' = [replay EXCEPT !.left = @ \ {i}]
  BY <1>0 DEF ReplayOp
<1>2. /\ up = "replaying" /\ UNCHANGED <<wal, up, todo>>
      /\ replay' = [tx |-> t, left |-> replay.left \ {i}]
  BY <1>0, <1>1 DEF ReplayOp, logVars, WALInv, Typed
<1>3. t # None /\ FirstToLast /\ t \in Visited /\ i \in OpsOf(t) /\ i \in Nat /\ OpsOf(t) \subseteq Nat
  <2>1. t # None /\ FirstToLast
    BY <1>0, <1>1, <1>2 DEF Replayed
  <2> QED
    BY <1>0, <1>1, <2>1, Positions DEF FirstToLast, Visited, WALInv
<1>4. /\ Visited' = Visited /\ OpsOf(t)' = OpsOf(t) /\ \A u \in Visited : OpsOf(u)' = OpsOf(u)
  BY <1>2 DEF Visited, OpsOf, Complete
<1>5. Done(t)' = Done(t) \cup {i}
  BY <1>0, <1>1, <1>2, <1>3, <1>4 DEF Done
<1>6. \A u \in Visited : u # t => Done(u)' = Done(u)
  BY <1>0, <1>2, <1>4 DEF Done
<1>7. \A j \in Done(t) : j < i
  BY <1>0, <1>1, <1>3 DEF FirstToLast
<1>8. FirstToLast'
  <2>1. replay'.left \subseteq OpsOf(t)' /\ replay'.tx \in Visited'
    BY <1>0, <1>2, <1>3, <1>4 DEF FirstToLast
  <2>2. ASSUME NEW a \in Done(t)', NEW b \in replay'.left
        PROVE  a < b
    <3>1. b \in replay.left /\ b # i /\ i <= b /\ b \in Nat
      BY <1>0, <1>1, <1>2, <1>3 DEF FirstToLast
    <3>2. CASE a = i
      BY <1>3, <3>1, <3>2
    <3>3. CASE a \in Done(t)
      BY <1>0, <1>3, <3>1, <3>3 DEF FirstToLast
    <3> QED
      BY <1>5, <3>2, <3>3
  <2> QED
    BY <1>2, <2>1, <2>2 DEF FirstToLast
<1>9. PICK rank \in Ranks(Visited) : Shows(rank)
  BY <1>2 DEF Replayed
<1>10. /\ \A u \in Visited : rank[u] \in Nat
       /\ \A u, v \in Visited : rank[u] = rank[v] => u = v
  <2>1. IsFiniteSet(Visited)
    BY TxsAssumption, FS_Subset DEF Visited
  <2>2. Cardinality(Visited) \in Nat
    BY <2>1, FS_CardinalityType
  <2> QED
    BY <1>9, <2>2 DEF Ranks, Injection, IsInjective
<1>11. \A u \in Visited : rank[u] <= rank[t]
  BY <1>0, <1>3, <1>9 DEF Shows
<1>12. ASSUME NEW u \in Visited', NEW k \in Keys, NEW j \in Done(u)', LastDone(u, k, j)',
              \A v \in Visited' : DoneOn(v, k)' => rank[v] <= rank[u]
       PROVE  db'[k] = Left(wal'[u][j], u)
  <2>1. wal[u][j].key = k
    BY <1>2, <1>12 DEF LastDone
  <2>2. CASE wal[t][i].key = k
    <3>1. DoneOn(t, k)'
      BY <1>2, <1>5, <2>2 DEF DoneOn
    <3>2. u = t
      BY <1>3, <1>4, <1>10, <1>11, <1>12, <3>1
    <3>3. i <= j
      BY <1>2, <1>5, <1>12, <2>2, <3>2 DEF LastDone
    <3>4. j = i
      BY <1>3, <1>5, <1>7, <1>12, <3>2, <3>3, Positions DEF Done, WALInv, Visited
    <3>5. db' = [db EXCEPT ![k] = Left(wal[t][i], t)] /\ k # EmptyKey
      BY <1>1, <2>2, KeysAssumption DEF Applied
    <3> QED
      BY <1>2, <3>2, <3>4, <3>5 DEF WALInv, Typed
  <2>3. CASE wal[t][i].key # k
    <3>1. db'[k] = db[k]
      BY <1>1, <2>3, KeysAssumption DEF Applied, WALInv, Typed
    <3>2. u \in Visited /\ j \in Done(u)
      BY <1>4, <1>5, <1>6, <1>12, <2>1, <2>3
    <3>3. LastDone(u, k, j)
      BY <1>2, <1>5, <1>6, <1>12, <3>2 DEF LastDone
    <3>4. \A v \in Visited : DoneOn(v, k) => rank[v] <= rank[u]
      BY <1>2, <1>4, <1>5, <1>6, <1>12 DEF DoneOn
    <3>5. db[k] = Left(wal[u][j], u)
      BY <1>9, <3>2, <3>3, <3>4 DEF Shows
    <3> QED
      BY <1>2, <3>1, <3>5
  <2> QED
    BY <2>2, <2>3
<1>13. Shows(rank)'
  <2>1. replay'.tx # None => \A u \in Visited' : rank[u] <= rank[replay'.tx]
    BY <1>2, <1>4, <1>11
  <2> QED
    BY <1>12, <2>1, ShownNext
<1>14. \E r \in Ranks(Visited') : Shows(r)'
  BY <1>4, <1>9, <1>13
<1> QED
  BY <1>2, <1>3, <1>8, <1>14 DEF Replayed, Ranks

LEMMA NextReplayed == WALInv /\ Process /\ Replayed /\ [Next]_vars => Replayed'
<1> SUFFICES ASSUME WALInv, Process, Replayed, [Next]_vars
             PROVE  Replayed'
  OBVIOUS
<1>1. CASE UNCHANGED vars
  <2>1. UNCHANGED <<wal, up, db, todo, replay>>
    BY <1>1 DEF vars
  <2> QED
    BY <2>1, SameReplayed
<1>2. CASE \/ \E t \in Txs : \/ \E op \in TxOps : AddOp(t, op)
                             \/ Rollback(t) \/ BeginCommit(t) \/ LogRecord(t)
                             \/ ApplyOp(t) \/ EndCommit(t)
           \/ \E k \in Keys, v \in {Direct, None} : Write(k, v)
  <2>1. up' = "open"
    BY <1>2 DEF AddOp, Rollback, BeginCommit, LogRecord, ApplyOp, EndCommit, Write, procVars
  <2> QED
    BY <2>1 DEF Replayed
<1>3. CASE \E t \in Txs : ReplayNext(t)
  BY <1>3, ReplayNextReplayed
<1>4. CASE Flush
  <2>1. UNCHANGED <<wal, up, db, todo, replay>>
    BY <1>4 DEF Flush, procVars
  <2> QED
    BY <2>1, SameReplayed
<1>5. CASE \E kept \in [Txs -> 0 .. MaxOps + 2], cut \in BOOLEAN :
             (\A t \in Txs : kept[t] <= Len(wal[t])) /\ Crash(kept, cut)
  <2>1. up' = "down"
    BY <1>5 DEF Crash
  <2> QED
    BY <2>1 DEF Replayed
<1>6. CASE ReadLog
  BY <1>6, ReadLogReplayed
<1>7. CASE ReplayOp
  BY <1>7, ReplayOpReplayed
<1>8. CASE EndReplay
  <2>1. up' = "open"
    BY <1>8 DEF EndReplay
  <2> QED
    BY <2>1 DEF Replayed
<1> QED
  BY <1>1, <1>2, <1>3, <1>4, <1>5, <1>6, <1>7, <1>8 DEF Next

LEMMA InitReplayed == Init => Replayed
BY DEF Init, Replayed

\* In every state the process, the commits under way and the recovery fit the log, and in
\* the middle of a recovery the keys written so far hold what its last operation on each left.
THEOREM ReplayInvariant == Spec => []ReplayInv
<1>1. Init => ReplayInv
  BY InitWAL, InitProcess, InitReplayed DEF ReplayInv
<1>2. ReplayInv /\ [Next]_vars => ReplayInv'
  BY NextWAL, NextProcess, NextReplayed DEF ReplayInv
<1> QED
  BY <1>1, <1>2, PTL DEF Spec

\* A recovery that ends.
LEMMA ReplayedAll ==
  ASSUME ReplayInv, EndReplay,
         NEW logged, logged = {t \in Txs : {Mark("BEGIN"), Mark("COMMIT")} \subseteq Range(wal[t])}
  PROVE  \E rank \in Ranks(logged) : \A t \in logged, k \in Keys :
           (Wrote(t, k) /\ \A u \in logged : Wrote(u, k) => rank[u] <= rank[t])
           => \A i \in DOMAIN wal[t] : LastOn(t, k, i) => db[k] = Left(wal[t][i], t)
<1>1. up = "replaying" /\ replay.left = {} /\ todo = {}
  BY DEF EndReplay
<1>2. Visited = logged /\ \A t : Done(t) = OpsOf(t)
  BY <1>1 DEF Visited, Complete, Done
<1>3. PICK rank \in Ranks(logged) : Shows(rank)
  BY <1>1, <1>2 DEF ReplayInv, Replayed
<1>4. ASSUME NEW t \in logged, NEW k \in Keys,
             \A u \in logged : Wrote(u, k) => rank[u] <= rank[t],
             NEW i \in DOMAIN wal[t], LastOn(t, k, i)
      PROVE  db[k] = Left(wal[t][i], t)
  <2>1. wal[t][i] \in WALRecord /\ wal[t][i].key = k
    BY <1>4 DEF LastOn, ReplayInv, WALInv, Typed
  <2>2. wal[t][i].type \in {"PUT", "DELETE"}
    BY <2>1, KeysAssumption DEF WALRecord, Mark, Op
  <2>3. i \in Done(t)
    BY <1>2, <2>2 DEF OpsOf
  <2>4. LastDone(t, k, i)
    BY <1>2, <1>4, <2>1, <2>3 DEF LastOn, LastDone, OpsOf
  <2>5. \A u \in logged : DoneOn(u, k) => rank[u] <= rank[t]
    BY <1>2, <1>4 DEF DoneOn, Wrote, OpsOf
  <2> QED
    BY <1>2, <1>3, <2>3, <2>4, <2>5 DEF Shows
<1> QED
  BY <1>3, <1>4

\* When a recovery ends, the keys its transactions wrote hold what some serial order of
\* whole transactions leaves there: for any number of transactions and operations, whatever
\* commits a crash cut and however many recoveries were cut before this one.
THEOREM RecoveryIsWhole == Spec => ReplayedWhole
<1>1. ReplayInv /\ EndReplay =>
        LET logged == {t \in Txs : {Mark("BEGIN"), Mark("COMMIT")} \subseteq Range(wal[t])}
        IN  \E rank \in Injection(logged, 1 .. Cardinality(logged)) :
              \A t \in logged, k \in Keys :
                (Wrote(t, k) /\ \A u \in logged : Wrote(u, k) => rank[u] <= rank[t])
                => \A i \in DOMAIN wal[t] : LastOn(t, k, i) => db[k] = Left(wal[t][i], t)
  BY ReplayedAll DEF Ranks
<1>2. ReplayInv =>
        [EndReplay =>
           LET logged == {t \in Txs : {Mark("BEGIN"), Mark("COMMIT")} \subseteq Range(wal[t])}
           IN  \E rank \in Injection(logged, 1 .. Cardinality(logged)) :
                 \A t \in logged, k \in Keys :
                   (Wrote(t, k) /\ \A u \in logged : Wrote(u, k) => rank[u] <= rank[t])
                   => \A i \in DOMAIN wal[t] :
                        LastOn(t, k, i) => db[k] = Left(wal[t][i], t)]_vars
  BY <1>1
<1> QED
  BY <1>2, ReplayInvariant, PTL DEF ReplayedWhole
===========================================================================
