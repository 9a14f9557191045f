------------------------ MODULE GojiSnapshotProofs ------------------------
(***************************************************************************)
(* Proofs about GojiSnapshot.  The inductive invariant SnapInv adds to the *)
(* one of the store what is true of every snapshot directory, the half     *)
(* copied and the half removed ones included: it can be opened as a data   *)
(* directory, and what a scan makes of a whole one is the index it was     *)
(* made beside.                                                            *)
(***************************************************************************)
EXTENDS GojiSnapshot, GojiStoreProofs

HasNewest(fs) == DOMAIN fs # {} => \E id \in DOMAIN fs : IsNewest(fs, id)

\* Two index entries of one key say the same: the same place, when it is live.
Agree(r, was) ==
  /\ r = None <=> was = None
  /\ was # None => (r.Deleted <=> was.Deleted)
  /\ was # None /\ ~was.Deleted => r.FileID = was.FileID /\ r.ValuePos = was.ValuePos

\* What a scan of L makes of it is the index held, for keys in timestamp order.
Rebuilt(L, held) ==
  Plain => \A k \in Keys : InOrderIn(L, k) => Agree(RebuildKeyDir(L, FALSE)[k], held[k])

\* A data directory NewGojiDB and RestoreFromSnapshot can open.
Openable(fs, L) == DiskOK(fs, L) /\ HasNewest(fs) /\ AllWinners(L) /\ Readable(L)

DirectoryOK(s) ==
  /\ s = [files |-> s.files, log |-> s.log, held |-> s.held, whole |-> s.whole]
  /\ Openable(s.files, s.log)
  /\ s.whole \in BOOLEAN
  /\ s.whole => Rebuilt(s.log, s.held)

SnapInv == StoreInv /\ \A id \in IDs : DirectoryOK(snaps[id])
---------------------------------------------------------------------------
\* A set of naturals that is not empty has a least element.
LEMMA LeastNat ==
  ASSUME NEW T \in SUBSET Nat, T # {}
  PROVE  \E x \in T : \A y \in T : x <= y
<1> DEFINE R == {p \in Nat \X Nat : p[1] < p[2]}
<1>1. R = OpToRel(<, Nat)
  BY DEF OpToRel
<1>2. IsWellFoundedOn(R, Nat)
  BY <1>1, NatLessThanWellFounded
<1> HIDE DEF R
<1>3. PICK x \in T : \A y \in T : <<y, x>> \notin R
  BY <1>2, WFMin
<1>4. ASSUME NEW y \in T
      PROVE  x <= y
  <2>1. x \in Nat /\ y \in Nat /\ <<y, x>> \notin R
    BY <1>3
  <2>2. <<y, x>> \in Nat \X Nat /\ <<y, x>>[1] = y /\ <<y, x>>[2] = x
    BY <2>1
  <2>3. ~(y < x)
    BY <2>1, <2>2 DEF R
  <2> QED
    BY <2>1, <2>3
<1> QED
  BY <1>4

\* A set of naturals with a bound has a greatest element.
LEMMA GreatestNat ==
  ASSUME NEW S \in SUBSET Nat, S # {}, NEW b \in Nat, \A x \in S : x <= b
  PROVE  \E m \in S : \A x \in S : x <= m
<1> DEFINE U == {u \in Nat : \A x \in S : x <= u}
<1>1. PICK m \in U : \A u \in U : m <= u
  <2>1. U # {} /\ U \in SUBSET Nat
    OBVIOUS
  <2> HIDE DEF U
  <2> QED
    BY <2>1, LeastNat
<1>2. m \in S
  <2> SUFFICES ASSUME m \notin S
               PROVE  FALSE
    OBVIOUS
  <2>1. PICK s \in S : TRUE
    OBVIOUS
  <2>2. s <= m /\ s # m /\ s \in Nat
    BY <2>1
  <2>3. m - 1 \in U
    <3>1. \A x \in S : x \in Nat /\ x <= m /\ x # m
      OBVIOUS
    <3>2. m \in Nat /\ m - 1 \in Nat
      BY <2>2
    <3> QED
      BY <3>1, <3>2
  <2> QED
    BY <1>1, <2>3
<1> QED
  BY <1>2
---------------------------------------------------------------------------
\* What is true of all entries stays true when some of them go.
LEMMA FewerEntries ==
  ASSUME NEW L, NEW M \in SUBSET L, AllWinners(L), Readable(L)
  PROVE  AllWinners(M) /\ Readable(M)
<1>1. AllWinners(M)
  BY DEF AllWinners
<1>2. Readable(M)
  BY DEF Readable
<1> QED
  BY <1>1, <1>2

\* The files a removal leaves, in whatever order it went through them.
LEMMA PartOpens ==
  ASSUME NEW fs, NEW L, Openable(fs, L), NEW S \in SUBSET DOMAIN fs
  PROVE  Openable([f \in S |-> fs[f]], InFiles(L, S))
<1> DEFINE gs == [f \in S |-> fs[f]]
           M == InFiles(L, S)
<1>0. M \in SUBSET L /\ \A e \in M : e.file \in S
  BY DEF InFiles
<1>1. DiskOK(fs, L)
  BY DEF Openable
<1>2. DOMAIN gs = S /\ \A f \in S : gs[f] = fs[f]
  OBVIOUS
<1>3. DiskOK(gs, M)
  <2>1. DOMAIN gs \subseteq Nat /\ gs \in [DOMAIN gs -> Nat]
    BY <1>1 DEF DiskOK
  <2>2. /\ M \subseteq Entry
        /\ \A d, e \in M : d.file = e.file /\ d.pos = e.pos => d = e
        /\ \A e \in M : e.file \in DOMAIN gs /\ e.pos < gs[e.file]
    <3> HIDE DEF gs, M
    <3> QED
      BY <1>0, <1>1, <1>2 DEF DiskOK
  <2> QED
    BY <2>1, <2>2 DEF DiskOK
<1>4. HasNewest(gs)
  <2> SUFFICES ASSUME S # {}
               PROVE  \E m \in S : \A f \in S : f <= m
    BY <1>2 DEF HasNewest, IsNewest
  <2>1. PICK id \in DOMAIN fs : IsNewest(fs, id)
    BY DEF Openable, HasNewest
  <2>2. id \in Nat /\ S \in SUBSET Nat /\ \A f \in S : f <= id
    BY <1>1, <2>1 DEF DiskOK, IsNewest
  <2> QED
    BY <2>2, GreatestNat
<1>5. AllWinners(M) /\ Readable(M)
  BY <1>0, FewerEntries DEF Openable
<1> QED
  BY <1>3, <1>4, <1>5 DEF Openable

\* The files a copy that was cut off leaves; the one it was at is the newest.
LEMMA CopyOpens ==
  ASSUME NEW fs, NEW L, Openable(fs, L), NEW f \in DOMAIN fs, NEW n \in 0 .. fs[f]
  PROVE  /\ Openable(CopiedFiles(fs, f, n), CopiedLog(L, f, n))
         /\ IsNewest(CopiedFiles(fs, f, n), f)
<1> DEFINE gs == CopiedFiles(fs, f, n)
           M == CopiedLog(L, f, n)
<1>1. DiskOK(fs, L) /\ f \in Nat /\ n \in Nat
  BY DEF Openable, DiskOK
<1>2. /\ DOMAIN gs = {h \in DOMAIN fs : h <= f}
      /\ \A g \in DOMAIN gs : gs[g] = IF g = f THEN n ELSE fs[g]
      /\ gs = [g \in DOMAIN gs |-> gs[g]]
  BY DEF CopiedFiles
<1>3. M \in SUBSET L /\ \A e \in M : e.file < f \/ (e.file = f /\ e.pos < n)
  BY DEF CopiedLog
<1> HIDE DEF gs, M
<1>4. IsNewest(gs, f)
  BY <1>1, <1>2 DEF IsNewest
<1>5. DiskOK(gs, M)
  <2>1. DOMAIN gs \subseteq Nat /\ gs \in [DOMAIN gs -> Nat]
    <3>1. \A g \in DOMAIN gs : gs[g] \in Nat
      BY <1>1, <1>2 DEF DiskOK
    <3> QED
      BY <1>1, <1>2, <3>1 DEF DiskOK
  <2>2. \A d, e \in M : d.file = e.file /\ d.pos = e.pos => d = e
    BY <1>1, <1>3 DEF DiskOK
  <2>3. ASSUME NEW e \in M
        PROVE  e \in Entry /\ e.file \in DOMAIN gs /\ e.pos < gs[e.file]
    <3>1. e \in Entry /\ e.file \in DOMAIN fs /\ e.pos < fs[e.file] /\ e.file \in Nat
      BY <1>1, <1>3 DEF DiskOK
    <3>2. e.file <= f /\ (e.file = f => e.pos < n)
      BY <1>1, <1>3, <3>1
    <3> QED
      BY <1>2, <3>1, <3>2
  <2> QED
    BY <2>1, <2>2, <2>3 DEF DiskOK
<1>6. AllWinners(M) /\ Readable(M)
  BY <1>3, FewerEntries DEF Openable
<1>7. HasNewest(gs)
  BY <1>4 DEF HasNewest, IsNewest
<1> QED
  BY <1>4, <1>5, <1>6, <1>7 DEF Openable, gs, M

\* Without a file there is no entry, and file 1 is made.
LEMMA FirstOpens ==
  ASSUME NEW fs, NEW L, Openable(fs, L)
  PROVE  /\ DiskOK(OrFirst(fs), L)
         /\ \E id : IsNewest(OrFirst(fs), id)
<1>1. DiskOK(fs, L) /\ HasNewest(fs)
  BY DEF Openable
<1>2. CASE DOMAIN fs = {}
  <2>1. OrFirst(fs) = [f \in {1} |-> 0]
    BY <1>2 DEF OrFirst
  <2>2. L = {}
    BY <1>1, <1>2 DEF DiskOK
  <2>3. IsNewest([f \in {1} |-> 0], 1)
    BY DEF IsNewest
  <2> QED
    BY <2>1, <2>2, <2>3 DEF DiskOK
<1>3. CASE DOMAIN fs # {}
  BY <1>1, <1>3 DEF OrFirst, HasNewest
<1> QED
  BY <1>2, <1>3

\* The data directory of the store is one of them.
LEMMA StoreOpens ==
  ASSUME StoreInv
  PROVE  Openable(files, log) /\ now \in Nat \ {0}
<1>1. DiskOK(files, log) /\ now \in Nat \ {0}
  BY StateTyped
<1>2. HasNewest(files)
  BY DEF StoreInv, HasNewest, IsNewest
<1> QED
  BY <1>1, <1>2 DEF StoreInv, Openable
---------------------------------------------------------------------------
\* A directory that CreateSnapshot has finished, or that it has only begun.
LEMMA MadeOK ==
  ASSUME NEW fs, NEW L, NEW whole \in BOOLEAN, Openable(fs, L),
         whole => Rebuilt(L, keyDir)
  PROVE  DirectoryOK(Snapshot(fs, L, whole))
<1> DEFINE s == Snapshot(fs, L, whole)
<1>1. /\ s.files = fs /\ s.log = L /\ s.held = keyDir /\ s.whole = whole
      /\ s = [files |-> fs, log |-> L, held |-> keyDir, whole |-> whole]
  BY DEF Snapshot
<1> HIDE DEF s
<1>2. DirectoryOK(s)
  BY <1>1 DEF DirectoryOK
<1> QED
  BY <1>2 DEF s

\* What a finished one holds is the index beside it.
LEMMA WholeRebuilt ==
  ASSUME StoreInv
  PROVE  Rebuilt(log, keyDir)
<1>1. RecoveryExact
  BY StoreRecovers
<1> SUFFICES ASSUME Plain, NEW k \in Keys, InOrderIn(log, k)
             PROVE  Agree(RebuildKeyDir(log, FALSE)[k], keyDir[k])
  BY DEF Rebuilt
<1> DEFINE r == RebuildKeyDir(log, FALSE)[k]
<1>2. /\ r = None <=> keyDir[k] = None
      /\ r # None => (r.Deleted <=> keyDir[k].Deleted)
      /\ Live(k) => r.FileID = keyDir[k].FileID /\ r.ValuePos = keyDir[k].ValuePos
  BY <1>1 DEF RecoveryExact, Plain, InOrder, InOrderIn
<1> HIDE DEF r
<1>3. Agree(r, keyDir[k])
  BY <1>2 DEF Agree, Live
<1> QED
  BY <1>3 DEF r

\* After a step, each directory for itself.
LEMMA EachOK ==
  ASSUME StoreInv', \A i \in DOMAIN snaps' : DirectoryOK(snaps'[i])
  PROVE  SnapInv'
  BY DEF SnapInv, IDs, DirectoryOK, Openable, DiskOK, HasNewest, IsNewest, AllWinners,
     Winners, IsWinner, EntriesOf, Beats, Before, Readable, Plain, Rebuilt, InOrderIn, Agree,
     RebuildKeyDir, Winner, Info, IsTomb

\* A step that leaves the directories alone.
LEMMA SameSnaps ==
  ASSUME SnapInv, StoreInv', UNCHANGED snaps
  PROVE  SnapInv'
  BY EachOK DEF SnapInv, IDs

\* A step that puts s into directory id.
LEMMA OneMade ==
  ASSUME SnapInv, StoreInv', NEW id, NEW s, DirectoryOK(s),
         snaps' = [i \in IDs \cup {id} |-> IF i = id THEN s ELSE snaps[i]]
  PROVE  SnapInv'
<1>1. /\ DOMAIN snaps' = IDs \cup {id}
      /\ \A i \in IDs \cup {id} : snaps'[i] = IF i = id THEN s ELSE snaps[i]
  OBVIOUS
<1>2. \A i \in DOMAIN snaps' : DirectoryOK(snaps'[i])
  BY <1>1 DEF SnapInv
<1> QED
  BY <1>2, EachOK
---------------------------------------------------------------------------
\* CreateSnapshot finds the data directory in order, and the index beside it.
LEMMA CreateSnapshotInv ==
  ASSUME SnapInv, NEW id, CreateSnapshot(id)
  PROVE  SnapInv'
<1>1. StoreInv'
  BY NextInv DEF SnapInv, CreateSnapshot
<1>2. DirectoryOK(Snapshot(files, log, TRUE))
  BY StoreOpens, WholeRebuilt, MadeOK DEF SnapInv
<1> QED
  BY <1>1, <1>2, OneMade DEF CreateSnapshot

\* Cut off, it leaves a directory in order that is not whole.
LEMMA CrashInCreateInv ==
  ASSUME SnapInv, NEW id, NEW f \in DOMAIN files, NEW n \in 0 .. files[f],
         CrashInCreate(id, f, n)
  PROVE  SnapInv'
<1>1. StoreInv'
  BY RestartInv DEF SnapInv, CrashInCreate
<1>2. Openable(files, log)
  BY StoreOpens DEF SnapInv
<1>3. DirectoryOK(Snapshot(CopiedFiles(files, f, n), CopiedLog(log, f, n), FALSE))
  BY <1>2, CopyOpens, MadeOK
<1> QED
  BY <1>1, <1>3, OneMade DEF CrashInCreate

\* RestoreFromSnapshot, from a directory that may be only a part of one.
LEMMA RestoreInv ==
  ASSUME SnapInv, NEW id, Restore(id)
  PROVE  SnapInv'
<1> DEFINE fs == OrFirst(snaps[id].files)
           L == snaps[id].log
<1>1. id \in IDs /\ Openable(snaps[id].files, L)
  BY DEF SnapInv, DirectoryOK, Restore
<1>2. DiskOK(fs, L) /\ AllWinners(L) /\ Readable(L)
  BY <1>1, FirstOpens DEF Openable
<1>3. PICK m : IsNewest(fs, m)
  BY <1>1, FirstOpens
<1>4. Rebuilds(fs, L, SmartCompression)
  BY DEF Restore, Rebuilds, LoadedIndex
<1>5. OthersTyped
  BY DEF SnapInv, StoreInv, TypeOK, Restore, OthersTyped
<1>6. SmartCompression \in BOOLEAN /\ (Plain => SmartCompression = FALSE)
  BY ConfigAssumption DEF Plain
<1>7. StoreInv'
  <2> HIDE DEF fs, L
  <2> QED
    BY <1>2, <1>3, <1>4, <1>5, <1>6, RebuildInv
<1> QED
  BY <1>7, SameSnaps DEF Restore

\* Cut off while it removes the old files.
LEMMA CrashInRemovalInv ==
  ASSUME SnapInv, NEW m, CrashInRemoval(m)
  PROVE  SnapInv'
<1> DEFINE S == {f \in DOMAIN files : f >= m}
           fs == [f \in S |-> files[f]]
           L == InFiles(log, S)
<1>1. Openable(files, log) /\ now \in Nat \ {0}
  BY StoreOpens DEF SnapInv
<1>2. Openable(fs, L)
  BY <1>1, PartOpens
<1>3. Open(OrFirst(fs), L) /\ now' = now /\ UNCHANGED snaps
  BY DEF CrashInRemoval
<1>4. StoreInv'
  <2> HIDE DEF fs, L
  <2>1. PICK id : IsNewest(OrFirst(fs), id)
    BY <1>2, FirstOpens
  <2> QED
    BY <1>1, <1>2, <1>3, <2>1, FirstOpens, OpenInv DEF Openable
<1> QED
  BY <1>3, <1>4, SameSnaps

\* Cut off while it copies the new ones.
LEMMA CrashInRestoreInv ==
  ASSUME SnapInv, NEW id \in IDs, NEW f \in DOMAIN snaps[id].files,
         NEW n \in 0 .. snaps[id].files[f], CrashInRestore(id, f, n)
  PROVE  SnapInv'
<1> DEFINE fs == CopiedFiles(snaps[id].files, f, n)
           L == CopiedLog(snaps[id].log, f, n)
<1>1. Openable(snaps[id].files, snaps[id].log)
  BY DEF SnapInv, DirectoryOK
<1>2. Openable(fs, L) /\ IsNewest(fs, f)
  BY <1>1, CopyOpens
<1>3. Open(fs, L) /\ now' = now /\ UNCHANGED snaps
  BY DEF CrashInRestore
<1>4. now \in Nat \ {0}
  BY StoreOpens DEF SnapInv
<1>5. StoreInv'
  <2> HIDE DEF fs, L
  <2> QED
    BY <1>2, <1>3, <1>4, OpenInv DEF Openable
<1> QED
  BY <1>3, <1>5, SameSnaps

\* DeleteSnapshot touches one directory and nothing else.
LEMMA DeleteSnapshotInv ==
  ASSUME SnapInv, NEW id, DeleteSnapshot(id)
  PROVE  SnapInv'
<1>1. StoreInv'
  BY NextInv DEF SnapInv, DeleteSnapshot
<1>2. \A i \in DOMAIN snaps' : i \in IDs /\ snaps'[i] = snaps[i]
  BY DEF DeleteSnapshot
<1>3. \A i \in DOMAIN snaps' : DirectoryOK(snaps'[i])
  BY <1>2 DEF SnapInv
<1> QED
  BY <1>1, <1>3, EachOK

\* Cut off, it leaves some of the files, any of them.
LEMMA CrashInDeleteInv ==
  ASSUME SnapInv, NEW id \in IDs, NEW S \in SUBSET DOMAIN snaps[id].files,
         CrashInDelete(id, S)
  PROVE  SnapInv'
<1> DEFINE s == snaps[id]
           fs == [f \in S |-> s.files[f]]
           L == InFiles(s.log, S)
           t == [files |-> fs, log |-> L, held |-> s.held, whole |-> FALSE]
<1>1. StoreInv'
  BY RestartInv DEF SnapInv, CrashInDelete
<1>2. /\ s = [files |-> s.files, log |-> s.log, held |-> s.held, whole |-> s.whole]
      /\ Openable(s.files, s.log)
  BY DEF SnapInv, DirectoryOK
<1>3. Openable(fs, L)
  BY <1>2, PartOpens
<1>4. DirectoryOK(t)
  <2>1. t.files = fs /\ t.log = L /\ t.held = s.held /\ t.whole = FALSE
    OBVIOUS
  <2>2. t = [files |-> t.files, log |-> t.log, held |-> t.held, whole |-> t.whole]
    BY <2>1
  <2> HIDE DEF t, fs, L
  <2> QED
    BY <1>3, <2>1, <2>2 DEF DirectoryOK
<1>5. \A i \in DOMAIN snaps' : i \in IDs /\ snaps'[i] = IF i = id THEN t ELSE snaps[i]
  <2>1. snaps' = [snaps EXCEPT ![id] = t]
    BY DEF CrashInDelete
  <2> HIDE DEF t
  <2> QED
    BY <2>1 DEF IDs
<1>6. \A i \in DOMAIN snaps' : DirectoryOK(snaps'[i])
  <2> HIDE DEF t
  <2> QED
    BY <1>4, <1>5 DEF SnapInv
<1> QED
  BY <1>1, <1>6, EachOK
---------------------------------------------------------------------------
\* No store, no snapshot.
LEMMA SnapInitInv == SnapInit => SnapInv
<1> SUFFICES ASSUME SnapInit
             PROVE  SnapInv
  OBVIOUS
<1>1. StoreInv
  BY InitInv DEF SnapInit
<1>2. IDs = {}
  BY DEF SnapInit, IDs
<1> QED
  BY <1>1, <1>2 DEF SnapInv

\* Every step keeps the invariant.
LEMMA SnapNextInv == SnapInv /\ [SnapNext]_snapVars => SnapInv'
<1> SUFFICES ASSUME SnapInv, [SnapNext]_snapVars
             PROVE  SnapInv'
  OBVIOUS
<1>1. ASSUME [Next]_vars, UNCHANGED snaps
      PROVE  SnapInv'
  <2>1. StoreInv'
    BY <1>1, NextInv DEF SnapInv
  <2> QED
    BY <1>1, <2>1, SameSnaps
<1>2. CASE UNCHANGED snapVars
  BY <1>1, <1>2 DEF snapVars
<1>3. CASE Next /\ UNCHANGED snaps
  BY <1>1, <1>3
<1>4. CASE \E id \in 1 .. MaxSnaps : \/ CreateSnapshot(id)
                                     \/ \E f \in DOMAIN files : \E n \in 0 .. files[f] :
                                          CrashInCreate(id, f, n)
  BY <1>4, CreateSnapshotInv, CrashInCreateInv
<1>5. CASE \E m \in DOMAIN files : CrashInRemoval(m + 1)
  BY <1>5, CrashInRemovalInv
<1>6. CASE \E id \in IDs : Restore(id)
  BY <1>6, RestoreInv
<1>7. CASE \E id \in IDs : \E f \in DOMAIN snaps[id].files : \E n \in 0 .. snaps[id].files[f] :
             CrashInRestore(id, f, n)
  BY <1>7, CrashInRestoreInv
<1>8. CASE \E id \in IDs : DeleteSnapshot(id)
  BY <1>8, DeleteSnapshotInv
<1>9. CASE \E id \in IDs : \E S \in SUBSET DOMAIN snaps[id].files : CrashInDelete(id, S)
  BY <1>9, CrashInDeleteInv
<1> QED
  BY <1>2, <1>3, <1>4, <1>5, <1>6, <1>7, <1>8, <1>9 DEF SnapNext

\* The invariant of the store with its snapshots.
THEOREM SnapInvariant == SnapSpec => []SnapInv
<1> QED
  BY SnapInitInv, SnapNextInv, PTL DEF SnapSpec

\* Whatever was snapshotted, restored, removed or cut off: the index points at entries of
\* its keys, and no two entries share a place.
THEOREM IndexStaysExact == SnapSpec => []IndexExact
<1>1. SnapInv => IndexExact
  BY DEF SnapInv, StoreInv
<1> QED
  BY <1>1, SnapInvariant, PTL

\* And a restart finds what the index holds, after a restore as before one.
THEOREM RecoveryStaysExact == SnapSpec => []RecoveryExact
<1>1. SnapInv => RecoveryExact
  BY StoreRecovers DEF SnapInv
<1> QED
  BY <1>1, SnapInvariant, PTL

\* A restore from a whole directory brings back the index that was held when it was made.
LEMMA RestoreBringsBack ==
  ASSUME SnapInv, NEW id \in IDs, Restore(id), snaps[id].whole, Plain, NEW k \in Keys,
         InOrderIn(snaps[id].log, k)
  PROVE  Agree(keyDir'[k], snaps[id].held[k])
<1>1. Rebuilt(snaps[id].log, snaps[id].held)
  BY DEF SnapInv, DirectoryOK
<1>2. SmartCompression = FALSE
  BY ConfigAssumption DEF Plain
<1>3. keyDir' = RebuildKeyDir(snaps[id].log, FALSE)
  BY <1>2 DEF Restore, LoadedIndex
<1> QED
  BY <1>1, <1>3 DEF Rebuilt

\* RestoreFromSnapshot brings back the index of the moment the snapshot was made.
THEOREM RestoreIsExact == SnapSpec => RestoreExact
<1>1. SnapInv => [\A id \in IDs :
                    /\ Restore(id) /\ snaps[id].whole
                    /\ Tombstone \notin Values /\ ~SmartCompression
                    => \A k \in Keys : InOrderIn(snaps[id].log, k) =>
                         LET was == snaps[id].held[k]
                         IN  /\ keyDir'[k] = None <=> was = None
                             /\ was # None => (keyDir'[k].Deleted <=> was.Deleted)
                             /\ was # None /\ ~was.Deleted =>
                                  /\ keyDir'[k].FileID = was.FileID
                                  /\ keyDir'[k].ValuePos = was.ValuePos]_snapVars
  BY RestoreBringsBack DEF Agree, Plain
<1> QED
  BY <1>1, SnapInvariant, PTL DEF RestoreExact
===========================================================================
