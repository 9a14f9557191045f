---------------------------- MODULE GojiBatchGet ----------------------------
(***************************************************************************)
(* One call of BatchGet (db.go): the keys it finds in the index are grouped*)
(* by data file, and workers take the files from a channel and read them,  *)
(* each into one buffer of its own that it uses again for every read.  A   *)
(* value that was stored compressed is copied out of the buffer when it is *)
(* decompressed; one that was stored as it is goes into the results as the *)
(* slice of the buffer it was read into.  All workers write the same map   *)
(* of results, without a lock.                                             *)
(*                                                                         *)
(* The call holds db.mu for reading to its end, so the index and the files *)
(* stay as they are; Init chooses them.  The value of a key is the key     *)
(* itself: what is asked is whose bytes the caller sees.                   *)
(***************************************************************************)
EXTENDS Integers, Sequences, FiniteSets

CONSTANTS
  Keys,      \* the keys of the call
  Offset,    \* key |-> the place of its value in whatever file it is in
  Files,     \* data file IDs
  Workers,   \* one goroutine per CPU at most: runtime.NumCPU()
  Empty,     \* []byte{}, the answer for what is not there
  None       \* no answer, nothing in the buffer, no file

\* What the index has for a key: state "missing" is no entry, a deleted one or the empty
\* key.  A small value fits into the buffer of 256 KB.  One that reads is brought by ReadAt
\* and by decompress without an error.
Info == [state : {"missing", "expired", "live"}, fileID : Files, compressed : BOOLEAN,
         small : BOOLEAN, reads : BOOLEAN]

ASSUME KeysAssumption == IsFiniteSet(Keys)
ASSUME WorkersAssumption == IsFiniteSet(Workers) /\ Workers # {}
ASSUME OffsetAssumption == /\ Offset \in [Keys -> Nat]
                           /\ \A j, k \in Keys : j # k => Offset[j] # Offset[k]
ASSUME NoneAssumption == None \notin Keys \cup Workers \cup {Empty} /\ Empty \notin Keys

\* Where a value that is not asked for lies makes no difference.
Absent(state) ==
  [state |-> state, fileID |-> CHOOSE f \in Files : TRUE, compressed |-> FALSE, small |-> TRUE,
   reads |-> TRUE]

VARIABLES
  index,     \* key |-> what keyDir has
  opens,     \* the files that can be opened
  at,        \* where BatchGet is: sending, waiting, returned, or dead with the process
  unsent,    \* groups it has yet to send
  tasks,     \* the channel of files
  worker,    \* worker |-> where it is, its file, the key it is at, those it has to answer
  buffer,    \* worker |-> the key whose bytes are in its buffer
  results,   \* key |-> the answer: its bytes, or the buffer they are in
  raced      \* two workers were inside a write to the map at once

vars == <<index, opens, at, unsent, tasks, worker, buffer, results, raced>>
given == <<index, opens>>
---------------------------------------------------------------------------
Own(k) == [of |-> k, in |-> None]
Slice(w) == [of |-> None, in |-> w]
Nothing == [of |-> Empty, in |-> None]
Unanswered == [of |-> None, in |-> None]

\* Mutant of Requested: the expiry is not looked at.
RequestedLive(k) == index[k].state # "missing"

\* The keys BatchGet makes requests for; the others are answered at once.
Requested(k) == index[k].state = "live"

Groups == {index[k].fileID : k \in {x \in Keys : Requested(x)}}

\* numWorkers: one per file and not more than there are CPUs.
NumWorkers == IF Cardinality(Groups) < Cardinality(Workers) THEN Cardinality(Groups)
              ELSE Cardinality(Workers)

\* Mutant of Waited: wg.Add counts the CPUs, not the workers that are started.
WaitedAll == Workers

Waited == {w \in Workers : worker[w].at # "unborn"}

\* sort.Slice: the requests of a file are read by their place in it.
IsFirst(k, S) == k \in S /\ \A j \in S : Offset[k] <= Offset[j]

\* Compression makes no difference for a value with a buffer of its own or one that does not
\* read, and nothing does for one in a file that cannot be opened.
Present(i) ==
  /\ i.state = "live"
  /\ i.compressed => i.small /\ i.reads
  /\ i.fileID \in opens \/ (i.small /\ i.reads /\ ~i.compressed)

Init ==
  /\ opens \in SUBSET Files
  /\ index \in [Keys -> {i \in Info : Present(i) \/ i = Absent(i.state)}]
  /\ at = "sending" /\ unsent = Groups /\ tasks = <<>>
  /\ \E started \in SUBSET Workers :
       /\ Cardinality(started) = NumWorkers
       /\ worker = [w \in Workers |->
                      [at |-> IF w \in started THEN "free" ELSE "unborn",
                       file |-> None, key |-> None, rest |-> {}]]
  /\ buffer = [w \in Workers |-> None]
  /\ results = [k \in Keys |-> IF Requested(k) THEN Unanswered ELSE Nothing]
  /\ raced = FALSE
---------------------------------------------------------------------------
\* range over the groups, in any order, and close(tasks) after the last.  The channel has
\* room for all of them.
SendTask(f) ==
  /\ at = "sending" /\ f \in unsent
  /\ tasks' = Append(tasks, f)
  /\ unsent' = unsent \ {f}
  /\ UNCHANGED <<given, at, worker, buffer, results, raced>>

CloseTasks ==
  /\ at = "sending" /\ unsent = {}
  /\ at' = "waiting"
  /\ UNCHANGED <<given, unsent, tasks, worker, buffer, results, raced>>

\* wg.Wait
Return ==
  /\ at = "waiting" /\ \A w \in Waited : worker[w].at = "done"
  /\ at' = "returned"
  /\ UNCHANGED <<given, unsent, tasks, worker, buffer, results, raced>>
---------------------------------------------------------------------------
\* The worker takes a file and the requests in it.
TakeTask(w) ==
  /\ worker[w].at = "free" /\ tasks # <<>>
  /\ LET f == Head(tasks)
     IN  worker' = [worker EXCEPT ![w] =
           [at |-> "reading", file |-> f, key |-> None,
            rest |-> {k \in Keys : Requested(k) /\ index[k].fileID = f}]]
  /\ tasks' = Tail(tasks)
  /\ UNCHANGED <<given, at, unsent, buffer, results, raced>>

\* ReadAt into the buffer, or into a temporary one when the value is larger than it.  In a
\* file that cannot be opened there is nothing to read.  A read that fails can have brought
\* a part of the bytes, and so fills the buffer, too.
Read(w) ==
  \E k \in worker[w].rest :
    /\ worker[w].at = "reading" /\ IsFirst(k, worker[w].rest)
    /\ worker' = [worker EXCEPT ![w] = [@ EXCEPT !.at = "storing", !.key = k]]
    /\ buffer' = IF worker[w].file \in opens /\ index[k].small
                 THEN [buffer EXCEPT ![w] = k] ELSE buffer
    /\ UNCHANGED <<given, at, unsent, tasks, results, raced>>

\* What decompress makes of the bytes read: a copy, unless they were stored as they are.  A
\* file that cannot be opened, a failed read and a failed decompression look the same.
Answer(w, k) ==
  IF worker[w].file \notin opens \/ ~index[k].reads THEN Nothing
  ELSE IF index[k].small /\ ~index[k].compressed THEN Slice(w)
  ELSE Own(k)

Writing == {w \in Workers : worker[w].at = "writing"}

\* results[req.key] = ...  The runtime ends the process when it notices two writes at once.
BeginWrite(w) ==
  /\ worker[w].at = "storing"
  /\ worker' = [worker EXCEPT ![w].at = "writing"]
  /\ raced' = (raced \/ Writing # {})
  /\ \/ at' = at
     \/ Writing # {} /\ at' = "dead"
  /\ UNCHANGED <<given, unsent, tasks, buffer, results>>

\* When it does not, one of the two writes can be lost.
EndWrite(w) ==
  LET k == worker[w].key
  IN  /\ worker[w].at = "writing"
      /\ worker' = [worker EXCEPT ![w] =
           [at |-> "reading", file |-> @.file, key |-> None, rest |-> @.rest \ {k}]]
      /\ \/ results' = [results EXCEPT ![k] = Answer(w, k)]
         \/ raced /\ results' = results
      /\ UNCHANGED <<given, at, unsent, tasks, buffer, raced>>

\* The file is done: back to the channel.
EndTask(w) ==
  /\ worker[w].at = "reading" /\ worker[w].rest = {}
  /\ worker' = [worker EXCEPT ![w] = [@ EXCEPT !.at = "free", !.file = None]]
  /\ UNCHANGED <<given, at, unsent, tasks, buffer, results, raced>>

\* The channel is closed and empty.
EndWorker(w) ==
  /\ worker[w].at = "free" /\ tasks = <<>> /\ at = "waiting"
  /\ worker' = [worker EXCEPT ![w].at = "done"]
  /\ UNCHANGED <<given, at, unsent, tasks, buffer, results, raced>>

CallerStep == (\E f \in Files : SendTask(f)) \/ CloseTasks \/ Return

WorkerStep(w) ==
  TakeTask(w) \/ Read(w) \/ BeginWrite(w) \/ EndWrite(w) \/ EndTask(w) \/ EndWorker(w)

Next == at # "dead" /\ (CallerStep \/ \E w \in Workers : WorkerStep(w))

\* The caller and the workers go on when they can.
Spec ==
  /\ Init /\ [][Next]_vars
  /\ WF_vars(at # "dead" /\ CallerStep)
  /\ \A w \in Workers : WF_vars(at # "dead" /\ WorkerStep(w))
---------------------------------------------------------------------------
\* Whose bytes the caller finds in the answer for k.
Seen(k) == IF results[k].in = None THEN results[k].of ELSE buffer[results[k].in]

Readable(k) == index[k].fileID \in opens /\ index[k].reads

\* The values that are read into a buffer and stay there.
Kept == {k \in Keys : Requested(k) /\ index[k].small /\ ~index[k].compressed}

\* When BatchGet returns, every key it was asked for has its answer: nothing for one that
\* is missing, expired or cannot be read, and its own bytes for a value that was copied, in
\* whatever order the files were read.  Of values stored as they are, this is so when there
\* is no other small value to be read into the buffer after it; and of none when the writes
\* of two workers met, which takes two files.
AnswersExact ==
  at = "returned" /\ ~(raced /\ Cardinality(Groups) > 1) =>
    \A k \in Keys :
      IF index[k].state # "live" \/ ~Readable(k) THEN Seen(k) = Empty
      ELSE \/ Seen(k) = k
           \/ k \in Kept /\ \E j \in Keys \ {k} : Requested(j) /\ index[j].small /\ Seen(k) = j

\* BatchGet returns, unless two writes at once end the process.
BatchGetEnds == <>(at \in {"returned", "dead"})
===========================================================================
