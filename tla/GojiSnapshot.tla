--------------------------- MODULE GojiSnapshot ---------------------------
(***************************************************************************)
(* Snapshots: snapshot.go on top of the storage engine.  CreateSnapshot    *)
(* copies the data files into a directory of its own under db.mu.RLock and *)
(* describes them in snapshot.json; RestoreFromSnapshot removes the data   *)
(* files under db.mu, copies those of a directory back and rebuilds the    *)
(* index; DeleteSnapshot takes no lock.  The process can end inside each   *)
(* of them.  Files are copied in the order of their names, which up to     *)
(* nine of them is that of their IDs, and removed in the same order.       *)
(***************************************************************************)
EXTENDS GojiStore

CONSTANT MaxSnaps   \* bound: snapshot directories

ASSUME SnapsAssumption == MaxSnaps \in Nat

VARIABLE snaps   \* the directories: number |-> what is in it

snapVars == <<vars, snaps>>

\* A directory: its data files and, for the property, the index when it was made and whether
\* CreateSnapshot has finished it and no DeleteSnapshot has begun to remove it.
Snapshot(fs, L, whole) == [files |-> fs, log |-> L, held |-> keyDir, whole |-> whole]

IDs == DOMAIN snaps

\* What has been copied of (fs, L) when n entries of file f have.
CopiedFiles(fs, f, n) == [g \in {h \in DOMAIN fs : h <= f} |-> IF g = f THEN n ELSE fs[g]]

CopiedLog(L, f, n) == {e \in L : e.file < f \/ (e.file = f /\ e.pos < n)}

\* Without a data file NewGojiDB and rebuildKeyDir begin with file 1.
OrFirst(fs) == IF DOMAIN fs = {} THEN [f \in {1} |-> 0] ELSE fs

\* Mutant of LoadedIndex: RestoreFromSnapshot keeps the index it has.
IndexKept(L) == keyDir

\* The index RestoreFromSnapshot builds; the compressor of the process is there to help.
LoadedIndex(L) == RebuildKeyDir(L, SmartCompression)
---------------------------------------------------------------------------
SnapInit == Init /\ snaps = [id \in {} |-> None]

CreateSnapshot(id) ==
  /\ id \notin IDs
  /\ snaps' = [i \in IDs \cup {id} |->
        IF i = id THEN Snapshot(files, log, TRUE) ELSE snaps[i]]
  /\ UNCHANGED vars

\* The process ends when n entries of file f have been copied.
CrashInCreate(id, f, n) ==
  /\ id \notin IDs
  /\ snaps' = [i \in IDs \cup {id} |->
        IF i = id THEN Snapshot(CopiedFiles(files, f, n), CopiedLog(log, f, n), FALSE)
        ELSE snaps[i]]
  /\ Restart

\* RestoreFromSnapshot asks only whether the directory is there.
Restore(id) ==
  /\ id \in IDs
  /\ files' = OrFirst(snaps[id].files)
  /\ log' = snaps[id].log
  /\ activeFileID' = LastFile(files')
  /\ keyDir' = LoadedIndex(snaps[id].log)
  /\ UNCHANGED <<pending, expiring, now, snaps>>

\* The process ends when the files below m have been removed, or all of them.
CrashInRemoval(m) ==
  LET S == {f \in DOMAIN files : f >= m}
  IN  /\ IDs # {}
      /\ Open(OrFirst([f \in S |-> files[f]]), InFiles(log, S))
      /\ UNCHANGED <<now, snaps>>

\* The process ends when n entries of file f have been copied back.
CrashInRestore(id, f, n) ==
  /\ Open(CopiedFiles(snaps[id].files, f, n), CopiedLog(snaps[id].log, f, n))
  /\ UNCHANGED <<now, snaps>>

DeleteSnapshot(id) ==
  /\ snaps' = [i \in IDs \ {id} |-> snaps[i]]
  /\ UNCHANGED vars

\* The process ends inside it: RemoveAll goes through the directory in no order to rely on.
CrashInDelete(id, S) ==
  /\ snaps' = [snaps EXCEPT ![id] =
        [files |-> [f \in S |-> snaps[id].files[f]], log |-> InFiles(snaps[id].log, S),
         held |-> snaps[id].held, whole |-> FALSE]]
  /\ Restart

SnapNext ==
  \/ Next /\ UNCHANGED snaps
  \/ \E id \in 1 .. MaxSnaps : \/ CreateSnapshot(id)
                               \/ \E f \in DOMAIN files : \E n \in 0 .. files[f] :
                                    CrashInCreate(id, f, n)
  \/ \E m \in DOMAIN files : CrashInRemoval(m + 1)
  \/ \E id \in IDs : \/ Restore(id)
                     \/ \E f \in DOMAIN snaps[id].files : \E n \in 0 .. snaps[id].files[f] :
                          CrashInRestore(id, f, n)
                     \/ DeleteSnapshot(id)
                     \/ \E S \in SUBSET DOMAIN snaps[id].files : CrashInDelete(id, S)

SnapSpec == SnapInit /\ [][SnapNext]_snapVars
---------------------------------------------------------------------------
InOrderIn(L, k) == \A d, e \in EntriesOf(L, k) : Before(d, e) => d.ts <= e.ts

\* RestoreFromSnapshot brings back what the index had when the snapshot was made, key by
\* key and place by place, whatever was written, compacted, restored or cut off since.  It
\* is promised of a snapshot that CreateSnapshot finished and no DeleteSnapshot began to
\* remove, and of keys that RecoveryExact speaks of.
RestoreExact ==
  [][\A id \in IDs :
       /\ Restore(id) /\ snaps[id].whole
       /\ Tombstone \notin Values /\ ~SmartCompression
       => \A k \in Keys : InOrderIn(snaps[id].log, k) =>
            LET was == snaps[id].held[k]
            IN  /\ keyDir'[k] = None <=> was = None
                /\ was # None => (keyDir'[k].Deleted <=> was.Deleted)
                /\ was # None /\ ~was.Deleted => /\ keyDir'[k].FileID = was.FileID
                                                 /\ keyDir'[k].ValuePos = was.ValuePos]_snapVars
===========================================================================
