----------------------------- MODULE GojiFaults -----------------------------
(***************************************************************************)
(* The storage engine of GojiStore when file operations fail: a write that *)
(* leaves a part of its entry behind, a rotation that cannot open the next *)
(* file, a record the WAL does not take, and in a compaction a file that   *)
(* cannot be opened, read, written, removed or renamed; and Close, after   *)
(* which an automatic Compact can still run.  One caller makes one call at *)
(* a time, without expiries.  A crash in the middle of a write leaves what *)
(* a torn write does, and the next start-up finds it.                      *)
(*                                                                         *)
(* A call that finds activeFile nil returns an error and changes nothing.  *)
(* The history variables: acked is what the calls have made of each key as *)
(* far as their callers can know, harmed the keys that lost their value to *)
(* a failure named below, stale those of which a compaction left an entry  *)
(* in a file it could not remove, where the next start-up will find it.    *)
(***************************************************************************)
EXTENDS GojiStore

CONSTANTS
  Unsure,      \* what a key holds after a call on it failed half way
  MaxFaults    \* bound: calls in which something fails

ASSUME FaultsAssumption ==
  /\ MaxFaults \in Nat
  /\ Unsure \notin Values \cup {None}
  /\ None \notin Values

VARIABLES
  open,     \* activeFile # nil
  torn,     \* the places in the files that hold a part of an entry
  acked,    \* key |-> the value it has, None, or Unsure
  harmed,   \* keys that lost their value to a compaction, a torn place or a stale file
  stale,    \* keys with entries in files that outlived their compaction
  faults    \* failures so far

faultVars == <<open, torn, acked, harmed, stale, faults>>
allVars == <<vars, faultVars>>
unused == <<pending, expiring>>
---------------------------------------------------------------------------
Place(id, p) == [file |-> id, pos |-> p]

\* The scan of a start-up takes the bytes after a part of an entry for the rest of that
\* entry, and is out of step with the entries from there to the end of the file.
Hidden(e) == \E t \in torn : t.file = e.file /\ t.pos < e.pos

Scanned(L) == {e \in L : ~Hidden(e)}

\* The entry of k that a scan would take last is behind a torn place.
Behind(k) == EntriesOf(log, k) # {} /\ Hidden(Winner(log, k))

HasEntry(k, L) == EntriesOf(L, k) # {}

FaultsInit ==
  /\ Init
  /\ open = TRUE /\ torn = {} /\ faults = 0
  /\ acked = [k \in Keys |-> None] /\ harmed = {} /\ stale = {}

Fault == faults < MaxFaults /\ faults' = faults + 1

\* A call on the keys of told succeeds and leaves them as told.
Acknowledge(told) ==
  /\ acked' = [k \in Keys |-> IF k \in DOMAIN told THEN told[k] ELSE acked[k]]
  /\ harmed' = harmed \ DOMAIN told

\* A call on the keys of K returns an error: its caller cannot know what it has done.
Doubt(K) ==
  /\ acked' = [k \in Keys |-> IF k \in K THEN Unsure ELSE acked[k]]
  /\ UNCHANGED harmed

CanWrite(n) == open /\ Room(n)
---------------------------------------------------------------------------
PutOK(k, v) ==
  /\ CanWrite(1)
  /\ Put(k, v, 0)
  /\ Acknowledge([x \in {k} |-> v])
  /\ UNCHANGED <<open, torn, stale, faults>>

\* The write of an entry to file id fails after a part of it: the call returns the error.
Tear(id) ==
  /\ CanWrite(1) /\ Fault
  /\ files' = Grow(id, 1)
  /\ torn' = torn \cup {Place(id, SizeAt(id))}
  /\ activeFileID' = id
  /\ UNCHANGED <<log, keyDir, unused, now, open, acked, harmed, stale>>

PutTorn == Tear(FileFor(1))

\* Neither Delete nor deleteInternal rotates the file before it writes its tombstone.
DeleteTorn == (\E k \in Keys : keyDir[k] # None) /\ Tear(activeFileID)

\* The entry is in the file and the WAL refuses its record: the put returns before it
\* indexes the entry.
PutUnlogged(k, v) ==
  /\ CanWrite(1) /\ Fault
  /\ LET id == FileFor(1)
     IN  /\ files' = Grow(id, 1)
         /\ log' = log \cup {PutEntry(id, SizeAt(id), k, v, now, 0)}
         /\ activeFileID' = id
  /\ Doubt({k})
  /\ UNCHANGED <<keyDir, unused, now, open, torn, stale>>

\* Before a put, or a batch whose n entries together would pass the size limit,
\* rotateActiveFile has closed the active file and cannot open the next one.
RotateFails(n) ==
  /\ CanWrite(n) /\ FileFor(n) # activeFileID /\ Fault
  /\ activeFileID' = FileFor(n)
  /\ open' = FALSE
  /\ UNCHANGED <<disk, keyDir, unused, now, torn, acked, harmed, stale>>

DeleteOK(k) ==
  /\ open /\ Delete(k)
  /\ Acknowledge([x \in {k} |-> None])
  /\ UNCHANGED <<open, torn, stale, faults>>

DeleteUnlogged(k) ==
  /\ keyDir[k] # None /\ CanWrite(1) /\ Fault
  /\ files' = Grow(activeFileID, 1)
  /\ log' = log \cup {TombstoneEntry(activeFileID, SizeAt(activeFileID), k)}
  /\ Doubt({k})
  /\ UNCHANGED <<activeFileID, keyDir, unused, now, open, torn, stale>>

BatchOK(items, ord) ==
  /\ CanWrite(Cardinality(DOMAIN items))
  /\ BatchPut(items, ord)
  /\ Acknowledge(items)
  /\ UNCHANGED <<open, torn, stale, faults>>

\* The index after BatchPut has written the entries of the keys in W, each indexed as it is
\* written.
Indexed(id, items, ord, W) ==
  [k \in Keys |->
     IF k \in W THEN Info(PutEntry(id, SizeAt(id) + ord[k], k, items[k], now, 0), FALSE)
     ELSE keyDir[k]]

\* BatchPut writes and indexes n entries, and the write of the next one fails, with nothing
\* of it in the file (part is 0) or a part.  The batch returns the error and takes nothing
\* back: for its caller none of its keys is sure.
BatchTorn(items, ord, n, part) ==
  LET id == FileFor(Cardinality(DOMAIN items))
      W  == {k \in DOMAIN items : ord[k] < n}
  IN  /\ CanWrite(Cardinality(DOMAIN items)) /\ Fault
      /\ files' = Grow(id, n + part)
      /\ log' = log \cup {e \in BatchEntries(id, items, ord) : e.key \in W}
      /\ torn' = torn \cup {Place(id, SizeAt(id) + n) : x \in 1 .. part}
      /\ activeFileID' = id
      /\ keyDir' = Indexed(id, items, ord, W)
      /\ Doubt(DOMAIN items)
      /\ UNCHANGED <<unused, now, open, stale>>
---------------------------------------------------------------------------
\* What readKeyData reports as an error is a file it cannot open, the active one included.
CanOpen(k) ==
  /\ keyDir[k].FileID \in DOMAIN files
  /\ keyDir[k].FileID = activeFileID => open

\* The index record i of k points at an entry of k with the value v.
PointsAt(i, k, v) ==
  \E e \in log : e.key = k /\ e.file = i.FileID /\ e.pos = i.ValuePos /\ e.val = v

\* What readKeyData brings of the keys in kept.  The error of a read from a file other than
\* the active one is lost (err is shadowed), and so the buffer of a key in misread holds
\* any bytes; so does that of a key whose place in the index is not its own.
Readings(kept, misread) ==
  {bytes \in [kept -> Values] :
     \A k \in kept \ misread : \A v \in Values :
       PointsAt(keyDir[k], k, v) => bytes[k] = v}

\* Mutant of OffsetOf: rewriteActiveKeys moves its offset on for a failed write, too.
OffsetPast(p, failed) == IF p < failed THEN p ELSE p + 1

\* The place that the index gets for the entry that follows p others in the new file.  A
\* failed write, after the first failed entries, does not move the offset.
OffsetOf(p, failed) == p

\* The place the entry really has, behind the part that the failed write left.
PlaceOf(p, failed, part) == IF p < failed THEN p ELSE p + part

\* The entry of k, as processKeyData and createEntry make it, with a CRC that is right for
\* whatever bytes were read.
NewEntry(k, bytes, p) ==
  PutEntry(1, p, k, bytes[k], keyDir[k].Timestamp, keyDir[k].TTL)

\* rewriteActiveKeys, finalizeCompaction and updateDatabaseState: file 1 with the keys in
\* kept, in the order ord, and beside it the files in left, whose removal failed unnoticed.
Rewrite(kept, ord, bytes, failed, part, left) ==
  LET New(k) == NewEntry(k, bytes, PlaceOf(ord[k], failed, part))
      rest   == InFiles(log, left)
  IN  /\ files' = [f \in {1} \cup left |->
                     IF f = 1 THEN Cardinality(kept) + part ELSE files[f]]
      /\ log' = {New(k) : k \in kept} \cup rest
      /\ torn' = {Place(1, failed) : x \in 1 .. part} \cup {t \in torn : t.file \in left}
      /\ activeFileID' = 1
      /\ keyDir' = [k \in Keys |->
            IF k \in kept THEN [Info(New(k), FALSE) EXCEPT !.ValuePos = OffsetOf(ord[k], failed)]
            ELSE None]
      /\ stale' = {k \in Keys : HasEntry(k, rest)}
      /\ UNCHANGED <<unused, now, acked>>

\* The active keys that get to the new file but for those of lost.
Kept(lost) == {k \in ActiveKeys : CanOpen(k)} \ lost

\* A Compact that goes through to the end.  It skips the keys in lost, whose file cannot be
\* opened or whose entry cannot be written: the first of these writes fails when failed
\* entries are in the file, and leaves a part of one or nothing.  It reads wrong bytes for
\* the keys in misread.  It runs with the active file closed, too.
CompactTo(lost, misread, failed, part, left) ==
  LET kept == Kept(lost)
  IN  \E ord \in Orders(kept), bytes \in Readings(kept, misread) :
        /\ Rewrite(kept, ord, bytes, failed, part, left)
        /\ harmed' = harmed \cup (ActiveKeys \ kept) \cup misread
                       \cup {k \in kept : part = 1 /\ ord[k] >= failed}

CompactReadable ==
  /\ CompactTo({}, {}, Cardinality(Kept({})), 0, {})
  /\ open' = TRUE
  /\ UNCHANGED faults

\* Keys cannot be read or are misread, or old files cannot be removed.
CompactMisses(lost, misread, left) ==
  /\ Fault /\ lost \cup misread \cup left # {}
  /\ lost \subseteq Kept({})
  /\ misread \subseteq {k \in Kept(lost) : keyDir[k].FileID # activeFileID}
  /\ CompactTo(lost, misread, Cardinality(Kept(lost)), 0, left)
  /\ open' = TRUE

\* The write of k fails, and perhaps the opening of the new file under its name.
CompactCuts(k, failed, part, left) ==
  /\ Fault /\ k \in Kept({})
  /\ failed <= Cardinality(Kept({k}))
  /\ CompactTo({k}, {}, failed, part, left)
  /\ open' \in BOOLEAN

\* The new file has its name and cannot be opened.
CompactUnopened(left) ==
  /\ Fault
  /\ CompactTo({}, {}, Cardinality(Kept({})), 0, left)
  /\ open' = FALSE

\* The new file cannot be renamed: the old ones but those in left are gone, the deferred
\* Remove takes the new one, and the index is as it was.
CompactUnnamed(left) ==
  LET rest == InFiles(log, left)
  IN  /\ Fault
      /\ files' = [f \in left |-> files[f]]
      /\ log' = rest
      /\ torn' = {t \in torn : t.file \in left}
      /\ open' = FALSE
      /\ harmed' = harmed \cup {k \in Keys : Live(k) /\ keyDir[k].FileID \notin left}
      /\ stale' = {k \in Keys : HasEntry(k, rest)}
      /\ UNCHANGED <<activeFileID, keyDir, unused, now, acked>>

Close ==
  /\ open
  /\ open' = FALSE
  /\ UNCHANGED <<vars, torn, acked, harmed, stale, faults>>
---------------------------------------------------------------------------
\* NewGojiDB on the files fs, which hold the entries L: what the scan does not see is lost.
Reopen(fs, L, T) ==
  /\ files' = IF fs = [f \in {} |-> 0] THEN [f \in {1} |-> 0] ELSE fs
  /\ log' = L
  /\ torn' = T
  /\ activeFileID' = LastFile(files')
  /\ keyDir' = RebuildKeyDir(Scanned(L), FALSE)
  /\ open' = TRUE
  /\ stale' = {}
  /\ UNCHANGED <<unused, now, acked>>

RestartAny ==
  /\ Reopen(files, log, torn)
  /\ harmed' = harmed \cup stale \cup {k \in Keys : Behind(k)}
  /\ UNCHANGED faults

\* The process ends inside Compact, when cleanupOldFiles is through with the files below m
\* and could not remove those in left.
CrashCompacting(m, left) ==
  LET S == {f \in DOMAIN files : f >= m} \cup left
  IN  /\ left # {} => Fault
      /\ left = {} => UNCHANGED faults
      /\ Reopen(IF S = {} THEN [f \in {0} |-> 0] ELSE [f \in S |-> files[f]],
                InFiles(log, S), {t \in torn : t.file \in S})
      /\ harmed' = harmed \cup stale \cup
           {k \in Keys : \/ Behind(k)
                         \/ Live(k) /\ keyDir[k].FileID \notin S
                         \/ HasEntry(k, InFiles(log, left)) /\ Winner(log, k).file \notin S}

FaultsNext ==
  \/ \E k \in Keys, v \in Values : PutOK(k, v) \/ PutUnlogged(k, v)
  \/ \E k \in Keys : DeleteOK(k) \/ DeleteUnlogged(k)
  \/ \E items \in Batches : \E ord \in Orders(DOMAIN items) :
       \/ BatchOK(items, ord)
       \/ \E n \in 0 .. Cardinality(DOMAIN items) - 1, part \in 0 .. 1 :
            BatchTorn(items, ord, n, part)
  \/ \E n \in 1 .. Cardinality(Keys) : RotateFails(n)
  \/ PutTorn \/ DeleteTorn \/ Close \/ RestartAny
  \/ CompactReadable
  \/ \E left \in SUBSET (DOMAIN files \ {1}) :
       \/ \E lost, misread \in SUBSET Keys : CompactMisses(lost, misread, left)
       \/ \E k \in Keys, failed \in 0 .. Cardinality(Keys), part \in 0 .. 1 :
            CompactCuts(k, failed, part, left)
       \/ CompactUnopened(left)
  \/ \E left \in SUBSET DOMAIN files : CompactUnnamed(left)
  \/ \E m \in DOMAIN files : \E left \in SUBSET {f \in DOMAIN files : f <= m} :
       CrashCompacting(m + 1, left)
  \/ Tick /\ UNCHANGED faultVars

FaultsSpec == FaultsInit /\ [][FaultsNext]_allVars
---------------------------------------------------------------------------
Known(k) == acked[k] # Unsure /\ k \notin harmed

\* The index record i gives k the value a, or none.
Gives(i, a, k) ==
  IF a = None THEN i = None \/ i.Deleted ELSE i # None /\ ~i.Deleted /\ PointsAt(i, k, a)

\* The index gives every key what the calls that succeeded have made of it, through failed
\* writes, batches and rotations, through whatever a compaction cannot read, write or
\* remove, Close and restarts: a failed call or a skipped key costs no other key its value.
AckedKept == \A k \in Keys : Known(k) => Gives(keyDir[k], acked[k], k)

\* And a restart at any moment would find the same, unless the key's last entry went into a
\* file behind a part of an entry or a file that outlived its compaction has one of it.
AckedDurable ==
  \A k \in Keys : Known(k) /\ k \notin stale /\ ~Behind(k) =>
    Gives(RebuildKeyDir(Scanned(log), FALSE)[k], acked[k], k)
===========================================================================
