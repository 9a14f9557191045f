------------------------ MODULE GojiBatchGetProofs ------------------------
(***************************************************************************)
(* Proof that BatchGet answers every key, however its workers interleave.  *)
(* The inductive invariant follows a key from the group it is in, through  *)
(* the channel and the hands of a worker, to its answer, and a buffer from *)
(* the read that fills it.                                                 *)
(***************************************************************************)
EXTENDS GojiBatchGet, FiniteSetTheorems, TLAPS

States == {"unborn", "free", "reading", "storing", "writing", "done"}

WorkerState == [at : States, file : Files \cup {None}, key : Keys \cup {None}, rest : SUBSET Keys]

\* The keys that can get into a buffer.
Buffered == {k \in Keys : Requested(k) /\ index[k].small}

Typed ==
  /\ index \in [Keys -> Info]
  /\ at \in {"sending", "waiting", "returned", "dead"}
  /\ tasks \in Seq(Files)
  /\ worker \in [Workers -> WorkerState]
  /\ buffer \in [Workers -> Buffered \cup {None}]
  /\ results \in [Keys -> [of : Keys \cup {Empty, None}, in : Workers \cup {None}]]
  /\ raced \in BOOLEAN

\* Nothing is sent any more.
Drained == unsent = {} /\ tasks = <<>>

CallerOK ==
  /\ at \in {"waiting", "returned"} => unsent = {}
  /\ at = "returned" => \A w \in Waited : worker[w].at = "done"

\* What worker w has yet to read is in its file; before it stores a small value it has put
\* one into its buffer; it ends when nothing is left to do.
WorkerOK(w) ==
  /\ \A k \in worker[w].rest : Requested(k) /\ index[k].fileID = worker[w].file
  /\ worker[w].at \in {"unborn", "free", "done"} => worker[w].rest = {}
  /\ worker[w].at \in {"storing", "writing"} =>
       /\ worker[w].key \in worker[w].rest
       /\ worker[w].file \in opens /\ index[worker[w].key].small
            => buffer[w] \in Buffered
  /\ worker[w].at = "done" => Drained /\ at # "sending"

\* There are workers when there is something to read, and one when there is one file.
Started == Groups # {} => Waited # {}
Alone == Cardinality(Groups) <= 1 => ~raced /\ \A v, w \in Waited : v = w

\* Key k waits to be read: in a group, in the channel, or with a worker.
Outstanding(k) ==
  \/ index[k].fileID \in unsent
  \/ \E n \in DOMAIN tasks : tasks[n] = index[k].fileID
  \/ \E w \in Workers : k \in worker[w].rest

\* The answer k has once it was read.
Answered(k) ==
  IF ~Readable(k) THEN results[k] = Nothing
  ELSE IF k \in Kept THEN \E w \in Workers : results[k] = Slice(w) /\ buffer[w] \in Buffered
  ELSE results[k] = Own(k)

NoneLost ==
  ~raced => \A k \in Keys : IF Requested(k) THEN Outstanding(k) \/ Answered(k)
                            ELSE results[k] = Nothing

BatchInv ==
  /\ Typed
  /\ CallerOK
  /\ \A w \in Workers : WorkerOK(w)
  /\ Started
  /\ Alone
  /\ NoneLost
---------------------------------------------------------------------------
\* There are not more groups than keys.
LEMMA GroupsFinite == IsFiniteSet(Groups)
<1> DEFINE S == {x \in Keys : Requested(x)}
           f == [k \in S |-> index[k].fileID]
<1>1. IsFiniteSet(S)
  BY KeysAssumption, FS_Subset
<1>2. f \in Surjection(S, Groups)
  BY DEF Surjection, Groups
<1> HIDE DEF S, f
<1> QED
  BY <1>1, <1>2, FS_Surjection

\* There is a worker for one file at least, and for one file only one.
LEMMA InitBatch == Init => BatchInv
<1> SUFFICES ASSUME Init
             PROVE  BatchInv
  OBVIOUS
<1>1. PICK started \in SUBSET Workers :
        /\ Cardinality(started) = NumWorkers
        /\ worker = [w \in Workers |->
                       [at |-> IF w \in started THEN "free" ELSE "unborn",
                        file |-> None, key |-> None, rest |-> {}]]
  BY DEF Init
<1>2. \A w \in Workers : /\ worker[w].at = IF w \in started THEN "free" ELSE "unborn"
                         /\ worker[w].rest = {} /\ worker[w].file = None
  BY <1>1
<1>3. Waited = started
  BY <1>2 DEF Waited
<1>4. Typed
  <2>1. worker \in [Workers -> WorkerState]
    BY <1>1 DEF States, WorkerState
  <2>2. results \in [Keys -> [of : Keys \cup {Empty, None}, in : Workers \cup {None}]]
    BY DEF Init, Unanswered, Nothing
  <2>3. /\ index \in [Keys -> Info] /\ at = "sending" /\ tasks = <<>> /\ raced = FALSE
    BY DEF Init
  <2>4. buffer \in [Workers -> Buffered \cup {None}]
    BY DEF Init
  <2> QED
    <3>1. tasks \in Seq(Files)
      BY <2>3
    <3>2. at \in {"sending", "waiting", "returned", "dead"} /\ raced \in BOOLEAN
      BY <2>3
    <3> QED
      BY <2>1, <2>2, <2>3, <2>4, <3>1, <3>2 DEF Typed
<1>5. CallerOK /\ \A w \in Workers : WorkerOK(w)
  BY <1>2 DEF Init, CallerOK, WorkerOK
<1>6. IsFiniteSet(Groups) /\ IsFiniteSet(started) /\ IsFiniteSet(Workers)
  <2>2. IsFiniteSet(Groups)
    BY GroupsFinite
  <2> QED
    BY <2>2, WorkersAssumption, FS_Subset
<1>7. /\ Cardinality(Groups) \in Nat /\ Cardinality(Workers) \in Nat
      /\ Cardinality(Groups) = 0 <=> Groups = {}
      /\ Cardinality(Workers) # 0
      /\ Cardinality(started) = 0 <=> started = {}
  BY <1>6, WorkersAssumption, FS_CardinalityType, FS_EmptySet
<1>8. Started
  BY <1>1, <1>3, <1>7 DEF Started, NumWorkers
<1>9. Alone
  <2> SUFFICES ASSUME Cardinality(Groups) <= 1
               PROVE  ~raced /\ \A v, w \in Waited : v = w
    BY DEF Alone
  <2>1. Cardinality(started) \in {0, 1}
    BY <1>1, <1>7 DEF NumWorkers
  <2>2. CASE Cardinality(started) = 0
    BY <2>2, <1>3, <1>7 DEF Init
  <2>3. CASE Cardinality(started) = 1
    <3>1. \E x : started = {x}
      BY <2>3, <1>6, FS_Singleton
    <3> QED
      BY <3>1, <1>3 DEF Init
  <2> QED
    BY <2>1, <2>2, <2>3
<1>10. NoneLost
  <2> SUFFICES ASSUME NEW k \in Keys
               PROVE  IF Requested(k) THEN index[k].fileID \in unsent
                      ELSE results[k] = Nothing
    BY DEF NoneLost, Outstanding
  <2> QED
    BY DEF Init, Groups
<1> QED
  BY <1>4, <1>5, <1>8, <1>9, <1>10 DEF BatchInv
---------------------------------------------------------------------------
\* What depends on the index and the open files alone stays as it is.
LEMMA GivenStays ==
  ASSUME UNCHANGED given
  PROVE  /\ \A k : Requested(k)' <=> Requested(k)
         /\ Groups' = Groups /\ Kept' = Kept /\ Buffered' = Buffered
         /\ index' = index /\ opens' = opens
  BY DEF given, Requested, Groups, Kept, Buffered

\* Worker w goes from one state of its life to another.
LEMMA WorkerMoves ==
  ASSUME Typed, NEW w \in Workers, NEW r, worker' = [worker EXCEPT ![w] = r],
         worker[w].at # "unborn", r.at # "unborn"
  PROVE  /\ Waited' = Waited
         /\ worker'[w] = r /\ \A v \in Workers \ {w} : worker'[v] = worker[v]
<1>1. worker'[w] = r /\ \A v \in Workers \ {w} : worker'[v] = worker[v]
  BY DEF Typed
<1> QED
  BY <1>1 DEF Waited

\* Steps of the caller, which change no worker and no answer.
LEMMA SendTaskInv ==
  ASSUME BatchInv, NEW f \in Files, SendTask(f)
  PROVE  BatchInv'
<1>1. /\ at = "sending" /\ f \in unsent /\ tasks' = Append(tasks, f) /\ unsent' = unsent \ {f}
      /\ UNCHANGED <<index, opens, at, worker, buffer, results, raced>>
  BY DEF SendTask, given
<1>2. Typed /\ CallerOK /\ (\A w \in Workers : WorkerOK(w)) /\ Started /\ Alone /\ NoneLost
  BY DEF BatchInv
<1>3. /\ tasks \in Seq(Files) /\ tasks' \in Seq(Files)
      /\ \A n \in DOMAIN tasks : n \in DOMAIN tasks' /\ tasks'[n] = tasks[n]
      /\ Len(tasks) + 1 \in DOMAIN tasks' /\ tasks'[Len(tasks) + 1] = f
  BY <1>1, <1>2 DEF Typed
<1>4. Typed'
  BY <1>1, <1>2, <1>3 DEF Typed, Buffered, Requested
<1>5. CallerOK'
  BY <1>1 DEF CallerOK
<1>6. \A w \in Workers : WorkerOK(w)'
  <2> SUFFICES ASSUME NEW w \in Workers
               PROVE  WorkerOK(w)'
    OBVIOUS
  <2>1. WorkerOK(w) /\ worker[w].at # "done"
    BY <1>1, <1>2 DEF WorkerOK
  <2> QED
    BY <1>1, <2>1 DEF WorkerOK, Requested, Buffered
<1>7. Started' /\ Alone'
  BY <1>1, <1>2 DEF Started, Alone, Waited, Groups, Requested
<1>8. ASSUME NEW k, Outstanding(k)
      PROVE  Outstanding(k)'
  BY <1>1, <1>3, <1>8 DEF Outstanding
<1>9. ASSUME NEW k, Answered(k)
      PROVE  Answered(k)'
  BY <1>1, <1>9 DEF Answered, Readable, Kept, Buffered, Requested, Nothing, Slice, Own
<1>10. NoneLost'
  BY <1>1, <1>2, <1>8, <1>9 DEF NoneLost, Requested, Nothing
<1> QED
  BY <1>4, <1>5, <1>6, <1>7, <1>10 DEF BatchInv

\* The channel is closed, or every worker has ended.
LEMMA CallerGoesOn ==
  ASSUME BatchInv, UNCHANGED <<index, opens, unsent, tasks, worker, buffer, results, raced>>,
         \/ at' \in {"waiting", "returned"} /\ unsent = {}
         \/ at' = at,
         at' = "returned" => \A w \in Waited : worker[w].at = "done"
  PROVE  BatchInv'
<1>2. Typed /\ CallerOK /\ (\A w \in Workers : WorkerOK(w)) /\ Started /\ Alone /\ NoneLost
  BY DEF BatchInv
<1>4. Typed'
  BY <1>2 DEF Typed, Buffered, Requested
<1>5. CallerOK'
  BY <1>2 DEF CallerOK, Waited
<1>6. \A w \in Workers : WorkerOK(w)'
  <2> SUFFICES ASSUME NEW w \in Workers
               PROVE  WorkerOK(w)'
    OBVIOUS
  <2>1. WorkerOK(w)
    BY <1>2
  <2> QED
    BY <2>1 DEF WorkerOK, Requested, Buffered, Drained
<1>7. Started' /\ Alone'
  BY <1>2 DEF Started, Alone, Waited, Groups, Requested
<1>10. NoneLost'
  BY <1>2 DEF NoneLost, Requested, Nothing, Outstanding, Answered, Readable, Kept, Buffered,
             Slice, Own
<1> QED
  BY <1>4, <1>5, <1>6, <1>7, <1>10 DEF BatchInv

LEMMA CallerInv ==
  ASSUME BatchInv, CallerStep
  PROVE  BatchInv'
<1>1. ASSUME CloseTasks
      PROVE  BatchInv'
  BY <1>1, CallerGoesOn DEF CloseTasks, given
<1>2. ASSUME Return
      PROVE  BatchInv'
  BY <1>2, CallerGoesOn DEF Return, given, BatchInv, CallerOK
<1> QED
  BY <1>1, <1>2, SendTaskInv DEF CallerStep
---------------------------------------------------------------------------
\* Worker w, which is at work, takes a step: it gets the state r, its buffer holds b.
Steps(w, r, b) ==
  /\ worker[w].at \notin {"unborn", "done"}
  /\ r \in WorkerState /\ r.at # "unborn"
  /\ b = buffer[w] \/ b \in Buffered
  /\ worker' = [worker EXCEPT ![w] = r]
  /\ buffer' = [buffer EXCEPT ![w] = b]
  /\ at' \in {at, "dead"}
  /\ tasks' = tasks \/ (tasks # <<>> /\ tasks' \in Seq(Files))
  /\ UNCHANGED <<index, opens, unsent>>

\* The other workers and the caller are none the worse for it.
LEMMA StepsKeep ==
  ASSUME BatchInv, NEW w \in Workers, NEW r, NEW b, Steps(w, r, b)
  PROVE  /\ worker'[w] = r /\ \A v \in Workers \ {w} : worker'[v] = worker[v]
         /\ buffer'[w] = b /\ \A v \in Workers \ {w} : buffer'[v] = buffer[v]
         /\ worker' \in [Workers -> WorkerState]
         /\ buffer' \in [Workers -> Buffered \cup {None}] /\ Buffered' = Buffered
         /\ at # "returned" /\ CallerOK' /\ Started'
         /\ \A v \in Workers \ {w} : WorkerOK(v)'
         /\ Waited' = Waited /\ w \in Waited /\ Groups' = Groups
<1>0. Typed /\ CallerOK /\ (\A v \in Workers : WorkerOK(v)) /\ Started
  BY DEF BatchInv
<1>1. worker'[w] = r /\ \A v \in Workers \ {w} : worker'[v] = worker[v]
  BY <1>0 DEF Steps, Typed
<1>2. buffer'[w] = b /\ \A v \in Workers \ {w} : buffer'[v] = buffer[v]
  BY <1>0 DEF Steps, Typed
<1>3. worker' \in [Workers -> WorkerState]
  BY <1>0 DEF Steps, Typed
<1>4. buffer' \in [Workers -> Buffered \cup {None}]
  <2>1. b \in Buffered \cup {None}
    BY <1>0 DEF Steps, Typed
  <2> QED
    BY <1>0, <2>1 DEF Steps, Typed
<1>5. UNCHANGED given
  BY DEF Steps, given
<1>6. Buffered' = Buffered /\ Groups' = Groups /\ \A k : Requested(k)' <=> Requested(k)
  BY <1>5, GivenStays
<1>7. Waited' = Waited /\ w \in Waited
  <2>1. worker[w].at # "unborn" /\ r.at # "unborn"
    BY DEF Steps
  <2> QED
    BY <1>1, <2>1 DEF Waited
<1>8. at # "returned"
  BY <1>0, <1>7 DEF CallerOK, Steps
<1>9. CallerOK'
  BY <1>0, <1>8 DEF CallerOK, Steps
<1>10. Started'
  BY <1>0, <1>6, <1>7 DEF Started
<1>11. \A v \in Workers \ {w} : WorkerOK(v)'
  <2> SUFFICES ASSUME NEW v \in Workers, v # w
               PROVE  WorkerOK(v)'
    OBVIOUS
  <2>1. WorkerOK(v)
    BY <1>0
  <2>2. /\ worker'[v] = worker[v] /\ buffer'[v] = buffer[v]
        /\ index' = index /\ opens' = opens /\ unsent' = unsent
    BY <1>1, <1>2 DEF Steps
  <2>3. worker[v].at = "done" => Drained /\ at # "sending" /\ Drained' /\ at' # "sending"
    BY <2>1 DEF WorkerOK, Drained, Steps
  <2> QED
    BY <1>6, <2>1, <2>2, <2>3 DEF WorkerOK
<1> QED
  BY <1>1, <1>2, <1>3, <1>4, <1>6, <1>7, <1>8, <1>9, <1>10, <1>11

\* Key k waits or is answered as before; or it has its answer by this step.
Carried(k) == results'[k] = results[k] /\ (Requested(k) /\ Outstanding(k) => Outstanding(k)')
JustAnswered(k) == Requested(k) /\ Answered(k)'

\* What is left to prove for such a step.
LEMMA StepsInv ==
  ASSUME BatchInv, NEW w \in Workers, NEW r, NEW b, Steps(w, r, b), WorkerOK(w)',
         results' \in [Keys -> [of : Keys \cup {Empty, None}, in : Workers \cup {None}]],
         raced' \in BOOLEAN, raced => raced', Alone',
         ~raced' => \A k \in Keys : Carried(k) \/ JustAnswered(k)
  PROVE  BatchInv'
<1>0. Typed /\ NoneLost
  BY DEF BatchInv
<1>1. /\ buffer'[w] = b /\ \A v \in Workers \ {w} : buffer'[v] = buffer[v]
      /\ worker' \in [Workers -> WorkerState]
      /\ buffer' \in [Workers -> Buffered \cup {None}] /\ Buffered' = Buffered
      /\ CallerOK' /\ Started'
      /\ \A v \in Workers \ {w} : WorkerOK(v)'
      /\ Waited' = Waited /\ Groups' = Groups
  BY StepsKeep
<1>2. UNCHANGED given /\ index' = index /\ opens' = opens
  BY DEF Steps, given
<1>3. Typed'
  BY <1>0, <1>1, <1>2 DEF Typed, Steps
<1>4. \A v \in Workers : WorkerOK(v)'
  BY <1>1
<1>6. ASSUME NEW k \in Keys, Answered(k), results'[k] = results[k]
      PROVE  Answered(k)'
  <2>1. \A v \in Workers : buffer[v] \in Buffered => buffer'[v] \in Buffered'
    BY <1>1 DEF Steps
  <2>2. Kept' = Kept
    BY <1>2, GivenStays
  <2> QED
    BY <1>2, <1>6, <2>1, <2>2 DEF Answered, Readable, Nothing, Slice, Own
<1>7. NoneLost'
  <2>1. \A k : Requested(k)' <=> Requested(k)
    BY <1>2, GivenStays
  <2> QED
    BY <1>0, <1>6, <2>1 DEF NoneLost, Nothing, Carried, JustAnswered
<1> QED
  BY <1>1, <1>3, <1>4, <1>7 DEF BatchInv

\* For one that races with nobody and leaves the answers alone.
LEMMA QuietStepsInv ==
  ASSUME BatchInv, NEW w \in Workers, NEW r, NEW b, Steps(w, r, b), WorkerOK(w)',
         UNCHANGED <<results, raced>>,
         \A k \in Keys : Requested(k) /\ Outstanding(k) => Outstanding(k)'
  PROVE  BatchInv'
<1>1. Waited' = Waited /\ Groups' = Groups
  BY StepsKeep
<1>2. Alone'
  BY <1>1 DEF BatchInv, Alone
<1>3. \A k \in Keys : Carried(k)
  BY DEF Carried
<1>4. /\ results' \in [Keys -> [of : Keys \cup {Empty, None}, in : Workers \cup {None}]]
      /\ raced' \in BOOLEAN /\ (raced => raced')
  BY DEF BatchInv, Typed
<1> QED
  BY <1>2, <1>3, <1>4, StepsInv

\* A worker that takes a file takes every key of it.
LEMMA TakeTaskInv ==
  ASSUME BatchInv, NEW w \in Workers, TakeTask(w)
  PROVE  BatchInv'
<1> DEFINE f == Head(tasks)
           R == {k \in Keys : Requested(k) /\ index[k].fileID = f}
           r == [at |-> "reading", file |-> f, key |-> None, rest |-> R]
<1>1. /\ worker[w].at = "free" /\ tasks # <<>> /\ worker' = [worker EXCEPT ![w] = r]
      /\ tasks' = Tail(tasks)
      /\ UNCHANGED <<index, opens, at, unsent, buffer, results, raced>>
  BY DEF TakeTask, given
<1>2. Typed /\ WorkerOK(w)
  BY DEF BatchInv
<1>3. /\ f \in Files /\ tasks' \in Seq(Files) /\ f = tasks[1]
      /\ \A n \in DOMAIN tasks : n # 1 => n - 1 \in DOMAIN tasks' /\ tasks'[n - 1] = tasks[n]
  BY <1>1, <1>2 DEF Typed
<1>4. Steps(w, r, buffer[w])
  <2>1. r \in WorkerState /\ r.at # "unborn"
    BY <1>3 DEF States, WorkerState
  <2>2. buffer' = [buffer EXCEPT ![w] = buffer[w]]
    BY <1>1, <1>2 DEF Typed
  <2> HIDE DEF r
  <2> QED
    BY <1>1, <1>3, <2>1, <2>2 DEF Steps
<1>5. worker'[w] = r /\ \A v \in Workers \ {w} : worker'[v] = worker[v]
  BY <1>1, <1>2 DEF Typed
<1>6. WorkerOK(w)'
  BY <1>1, <1>5 DEF WorkerOK, Requested
<1>7. \A k \in Keys : Requested(k) /\ Outstanding(k) => Outstanding(k)'
  <2> SUFFICES ASSUME NEW k \in Keys, Requested(k), Outstanding(k)
               PROVE  Outstanding(k)'
    OBVIOUS
  <2>1. CASE index[k].fileID \in unsent
    BY <1>1, <2>1 DEF Outstanding
  <2>2. CASE \E n \in DOMAIN tasks : tasks[n] = index[k].fileID
    <3>1. PICK n \in DOMAIN tasks : tasks[n] = index[k].fileID
      BY <2>2
    <3>2. CASE n = 1
      BY <1>3, <1>5, <3>1, <3>2 DEF Outstanding
    <3>3. CASE n # 1
      BY <1>1, <1>3, <3>1, <3>3 DEF Outstanding
    <3> QED
      BY <3>2, <3>3
  <2>3. CASE \E v \in Workers : k \in worker[v].rest
    BY <1>1, <1>2, <1>5, <2>3 DEF Outstanding, WorkerOK
  <2> QED
    BY <2>1, <2>2, <2>3 DEF Outstanding
<1> HIDE DEF r
<1> QED
  BY <1>1, <1>4, <1>6, <1>7, QuietStepsInv

\* What it holds stays with it until it is stored.
LEMMA HoldsOn ==
  ASSUME Typed, NEW w \in Workers, NEW r, worker' = [worker EXCEPT ![w] = r],
         worker[w].rest \subseteq r.rest, UNCHANGED <<index, unsent, tasks>>
  PROVE  \A k \in Keys : Outstanding(k) => Outstanding(k)'
<1>1. worker'[w] = r /\ \A v \in Workers \ {w} : worker'[v] = worker[v]
  BY DEF Typed
<1> QED
  BY <1>1 DEF Outstanding

\* ReadAt: the buffer holds the key to be stored, if its value is small and is there.
LEMMA ReadInv ==
  ASSUME BatchInv, NEW w \in Workers, Read(w)
  PROVE  BatchInv'
<1> DEFINE s == worker[w]
<1>1. PICK k \in s.rest :
        /\ s.at = "reading"
        /\ worker' = [worker EXCEPT ![w] = [s EXCEPT !.at = "storing", !.key = k]]
        /\ buffer' = IF s.file \in opens /\ index[k].small THEN [buffer EXCEPT ![w] = k] ELSE buffer
        /\ UNCHANGED <<index, opens, at, unsent, tasks, results, raced>>
  BY DEF Read, given
<1> DEFINE r == [s EXCEPT !.at = "storing", !.key = k]
           b == IF s.file \in opens /\ index[k].small THEN k ELSE buffer[w]
<1>2. Typed /\ WorkerOK(w)
  BY DEF BatchInv
<1>3. s \in WorkerState
  BY <1>2 DEF Typed
<1>4. k \in Keys /\ Requested(k)
  BY <1>1, <1>2, <1>3 DEF WorkerOK, WorkerState
<1>5. /\ r.at = "storing" /\ r.file = s.file /\ r.rest = s.rest /\ r.key = k
      /\ r \in WorkerState
  BY <1>3, <1>4 DEF States, WorkerState
<1>6. buffer' = [buffer EXCEPT ![w] = b] /\ (b = buffer[w] \/ b \in Buffered)
  BY <1>1, <1>2, <1>4 DEF Typed, Buffered
<1>7. s.file \in opens /\ index[k].small => b \in Buffered
  BY <1>4 DEF Buffered
<1>8. worker' = [worker EXCEPT ![w] = r]
  BY <1>1
<1> HIDE DEF r, b
<1>9. Steps(w, r, b)
  BY <1>1, <1>5, <1>6, <1>8 DEF Steps
<1>10. worker'[w] = r /\ buffer'[w] = b /\ Buffered' = Buffered
  BY <1>9, StepsKeep
<1>11. WorkerOK(w)'
  BY <1>1, <1>2, <1>5, <1>7, <1>10 DEF WorkerOK, Requested
<1>12. \A j \in Keys : Outstanding(j) => Outstanding(j)'
  BY <1>1, <1>2, <1>5, <1>8, HoldsOn
<1> QED
  BY <1>1, <1>9, <1>11, <1>12, QuietStepsInv

\* A worker that begins to write meets nobody if it is the only one.
LEMMA BeginWriteInv ==
  ASSUME BatchInv, NEW w \in Workers, BeginWrite(w)
  PROVE  BatchInv'
<1> DEFINE s == worker[w]
           r == [s EXCEPT !.at = "writing"]
<1>1. /\ s.at = "storing" /\ worker' = [worker EXCEPT ![w].at = "writing"]
      /\ raced' = (raced \/ Writing # {}) /\ at' \in {at, "dead"}
      /\ UNCHANGED <<index, opens, unsent, tasks, buffer, results>>
  BY DEF BeginWrite, given
<1>2. Typed /\ WorkerOK(w) /\ Alone
  BY DEF BatchInv
<1>3. s \in WorkerState
  BY <1>2 DEF Typed
<1>4. /\ r.at = "writing" /\ r.file = s.file /\ r.rest = s.rest /\ r.key = s.key
      /\ r \in WorkerState
  BY <1>3 DEF States, WorkerState
<1>5. worker' = [worker EXCEPT ![w] = r]
  BY <1>1, <1>2 DEF Typed
<1>6. buffer' = [buffer EXCEPT ![w] = buffer[w]]
  BY <1>1, <1>2 DEF Typed
<1>7. Steps(w, r, buffer[w])
  <2> HIDE DEF r
  <2> QED
    BY <1>1, <1>4, <1>5, <1>6 DEF Steps
<1>8. worker'[w] = r /\ Buffered' = Buffered /\ Waited' = Waited /\ w \in Waited /\ Groups' = Groups
  <2> HIDE DEF r
  <2> QED
    BY <1>7, StepsKeep
<1>9. WorkerOK(w)'
  <2> HIDE DEF r
  <2> QED
    BY <1>1, <1>2, <1>4, <1>8 DEF WorkerOK, Requested
<1>10. \A j \in Keys : Outstanding(j) => Outstanding(j)'
  <2> HIDE DEF r
  <2> QED
    BY <1>1, <1>2, <1>4, <1>5, HoldsOn
<1>11. Alone'
  <2> SUFFICES ASSUME Cardinality(Groups) <= 1
               PROVE  ~raced' /\ \A u, v \in Waited : u = v
    BY <1>8 DEF Alone
  <2>1. Writing \subseteq Waited /\ w \notin Writing
    BY <1>1 DEF Writing, Waited
  <2>2. ~raced /\ \A u, v \in Waited : u = v
    BY <1>2 DEF Alone
  <2>3. Writing = {}
    BY <1>8, <2>1, <2>2
  <2> QED
    BY <1>1, <2>2, <2>3
<1>12. \A j \in Keys : Carried(j)
  BY <1>1, <1>10 DEF Carried
<1>13. /\ results' \in [Keys -> [of : Keys \cup {Empty, None}, in : Workers \cup {None}]]
       /\ raced' \in BOOLEAN /\ (raced => raced')
  BY <1>1, <1>2 DEF Typed
<1> HIDE DEF r
<1> QED
  BY <1>7, <1>9, <1>11, <1>12, <1>13, StepsInv

\* The answer a worker writes is the one for the key it has read.
LEMMA RightAnswer ==
  ASSUME NEW w \in Workers, NEW k \in Keys, WorkerOK(w), k = worker[w].key, worker[w].at = "writing", results' = [results EXCEPT ![k] = Answer(w, k)],
         results \in [Keys -> [of : Keys \cup {Empty, None}, in : Workers \cup {None}]],
         UNCHANGED <<index, opens, buffer>>
  PROVE  /\ JustAnswered(k)
         /\ \A j \in Keys : j # k => results'[j] = results[j]
         /\ results' \in [Keys -> [of : Keys \cup {Empty, None}, in : Workers \cup {None}]]
<1>1. Requested(k) /\ index[k].fileID = worker[w].file
  BY DEF WorkerOK
<1>2. Answer(w, k) \in [of : Keys \cup {Empty, None}, in : Workers \cup {None}]
  BY DEF Answer, Nothing, Slice, Own
<1>3. results'[k] = Answer(w, k)
  OBVIOUS
<1>4. /\ \A j \in Keys : j # k => results'[j] = results[j]
      /\ results' \in [Keys -> [of : Keys \cup {Empty, None}, in : Workers \cup {None}]]
  BY <1>2
<1>5. Kept' = Kept /\ Buffered' = Buffered
  BY DEF Kept, Buffered, Requested
<1>6. Answered(k)'
  <2>1. CASE ~Readable(k)
    BY <1>1, <1>3, <2>1 DEF Answered, Answer, Nothing, Readable
  <2>2. CASE Readable(k) /\ k \notin Kept
    BY <1>1, <1>3, <1>5, <2>2 DEF Answered, Answer, Own, Kept, Readable
  <2>3. CASE Readable(k) /\ k \in Kept
    <3>1. buffer[w] \in Buffered /\ Answer(w, k) = Slice(w)
      BY <2>3 DEF WorkerOK, Answer, Kept, Readable
    <3> QED
      BY <1>1, <1>3, <1>5, <2>3, <3>1 DEF Answered, Slice, Readable
  <2> QED
    BY <2>1, <2>2, <2>3
<1> QED
  BY <1>1, <1>4, <1>6 DEF JustAnswered

\* Unless two writes met, the key that is no longer held is answered.
LEMMA EndWriteInv ==
  ASSUME BatchInv, NEW w \in Workers, EndWrite(w)
  PROVE  BatchInv'
<1> DEFINE s == worker[w]
           k == s.key
           r == [at |-> "reading", file |-> s.file, key |-> None, rest |-> s.rest \ {k}]
<1>1. /\ s.at = "writing" /\ worker' = [worker EXCEPT ![w] = r]
      /\ results' = [results EXCEPT ![k] = Answer(w, k)] \/ (raced /\ results' = results)
      /\ UNCHANGED <<index, opens, at, unsent, tasks, buffer, raced>>
  BY DEF EndWrite, given
<1>2. Typed /\ WorkerOK(w) /\ Alone
  BY DEF BatchInv
<1>3. s \in WorkerState
  BY <1>2 DEF Typed
<1>4. k \in s.rest /\ k \in Keys
  BY <1>1, <1>2, <1>3 DEF WorkerOK, WorkerState
<1>5. worker' = [worker EXCEPT ![w] = r]
  BY <1>1
<1>6. buffer' = [buffer EXCEPT ![w] = buffer[w]]
  BY <1>1, <1>2 DEF Typed
<1>7. Steps(w, r, buffer[w])
  <2>1. r \in WorkerState /\ r.at # "unborn"
    BY <1>3 DEF States, WorkerState
  <2> HIDE DEF r
  <2> QED
    BY <1>1, <1>5, <1>6, <2>1 DEF Steps
<1>8. /\ worker'[w] = r /\ \A v \in Workers \ {w} : worker'[v] = worker[v]
      /\ Waited' = Waited /\ Groups' = Groups
  <2> HIDE DEF r
  <2> QED
    BY <1>7, StepsKeep
<1>9. WorkerOK(w)'
  <2>1. r.at = "reading" /\ r.file = s.file /\ r.rest \subseteq s.rest
    OBVIOUS
  <2> HIDE DEF r
  <2> QED
    BY <1>1, <1>2, <1>8, <2>1 DEF WorkerOK, Requested
<1>10. Alone'
  BY <1>1, <1>2, <1>8 DEF Alone
<1>11. \A j \in Keys : j # k /\ Outstanding(j) => Outstanding(j)'
  <2>1. \A j : j # k /\ j \in s.rest => j \in r.rest
    OBVIOUS
  <2> HIDE DEF r, k
  <2> QED
    BY <1>1, <1>8, <2>1 DEF Outstanding
<1>12. results' = [results EXCEPT ![k] = Answer(w, k)] =>
         /\ JustAnswered(k)
         /\ \A j \in Keys : j # k => results'[j] = results[j]
         /\ results' \in [Keys -> [of : Keys \cup {Empty, None}, in : Workers \cup {None}]]
  <2> HIDE DEF r
  <2> QED
    BY <1>1, <1>2, <1>4, RightAnswer DEF Typed
<1>13. ~raced' => \A j \in Keys : Carried(j) \/ JustAnswered(j)
  BY <1>1, <1>11, <1>12 DEF Carried
<1>14. /\ results' \in [Keys -> [of : Keys \cup {Empty, None}, in : Workers \cup {None}]]
       /\ raced' \in BOOLEAN /\ (raced => raced')
  BY <1>1, <1>2, <1>12 DEF Typed
<1> HIDE DEF r, s, k
<1> QED
  BY <1>7, <1>9, <1>10, <1>13, <1>14, StepsInv

\* Back to the channel with nothing left to read.
LEMMA EndTaskInv ==
  ASSUME BatchInv, NEW w \in Workers, EndTask(w)
  PROVE  BatchInv'
<1> DEFINE s == worker[w]
           r == [s EXCEPT !.at = "free", !.file = None]
<1>1. /\ s.at = "reading" /\ s.rest = {} /\ worker' = [worker EXCEPT ![w] = r]
      /\ UNCHANGED <<index, opens, at, unsent, tasks, buffer, results, raced>>
  BY DEF EndTask, given
<1>2. Typed
  BY DEF BatchInv
<1>3. s \in WorkerState
  BY <1>2 DEF Typed
<1>4. r.at = "free" /\ r.rest = {} /\ r \in WorkerState
  BY <1>1, <1>3 DEF States, WorkerState
<1>5. buffer' = [buffer EXCEPT ![w] = buffer[w]]
  BY <1>1, <1>2 DEF Typed
<1> HIDE DEF r
<1>6. Steps(w, r, buffer[w])
  BY <1>1, <1>4, <1>5 DEF Steps
<1>7. worker'[w] = r
  BY <1>6, StepsKeep
<1>8. WorkerOK(w)'
  BY <1>4, <1>7 DEF WorkerOK
<1>9. \A j \in Keys : Outstanding(j) => Outstanding(j)'
  BY <1>1, <1>2, <1>4, HoldsOn
<1> QED
  BY <1>1, <1>6, <1>8, <1>9, QuietStepsInv

\* A worker ends when the channel is closed and empty, and everything has been sent.
LEMMA EndWorkerInv ==
  ASSUME BatchInv, NEW w \in Workers, EndWorker(w)
  PROVE  BatchInv'
<1> DEFINE s == worker[w]
           r == [s EXCEPT !.at = "done"]
<1>1. /\ s.at = "free" /\ tasks = <<>> /\ at = "waiting"
      /\ worker' = [worker EXCEPT ![w].at = "done"]
      /\ UNCHANGED <<index, opens, at, unsent, tasks, buffer, results, raced>>
  BY DEF EndWorker, given
<1>2. Typed /\ WorkerOK(w) /\ CallerOK
  BY DEF BatchInv
<1>3. s \in WorkerState /\ s.rest = {}
  BY <1>1, <1>2 DEF Typed, WorkerOK
<1>4. /\ r.at = "done" /\ r.file = s.file /\ r.rest = {}
      /\ r \in WorkerState
  BY <1>3 DEF States, WorkerState
<1>5. worker' = [worker EXCEPT ![w] = r] /\ buffer' = [buffer EXCEPT ![w] = buffer[w]]
  BY <1>1, <1>2 DEF Typed
<1>6. Steps(w, r, buffer[w])
  <2> HIDE DEF r
  <2> QED
    BY <1>1, <1>4, <1>5 DEF Steps
<1>7. worker'[w] = r
  BY <1>2, <1>5 DEF Typed
<1>8. WorkerOK(w)'
  <2>1. Drained'
    BY <1>1, <1>2 DEF Drained, CallerOK
  <2> HIDE DEF r
  <2> QED
    BY <1>1, <1>4, <1>7, <2>1 DEF WorkerOK
<1>9. \A j \in Keys : Outstanding(j) => Outstanding(j)'
  <2> HIDE DEF r
  <2> QED
    BY <1>1, <1>2, <1>3, <1>4, <1>5, HoldsOn
<1> HIDE DEF r
<1> QED
  BY <1>1, <1>6, <1>8, <1>9, QuietStepsInv
---------------------------------------------------------------------------
\* Every step keeps the invariant.
LEMMA NextBatch == BatchInv /\ [Next]_vars => BatchInv'
<1> SUFFICES ASSUME BatchInv, [Next]_vars
             PROVE  BatchInv'
  OBVIOUS
<1>1. ASSUME CallerStep
      PROVE  BatchInv'
  BY <1>1, CallerInv
<1>2. ASSUME NEW w \in Workers, WorkerStep(w)
      PROVE  BatchInv'
  BY <1>2, TakeTaskInv, ReadInv, BeginWriteInv, EndWriteInv, EndTaskInv, EndWorkerInv
  DEF WorkerStep
<1>3. CASE UNCHANGED vars
  BY <1>3, CallerGoesOn DEF vars, BatchInv, CallerOK
<1> QED
  BY <1>1, <1>2, <1>3 DEF Next

\* When the call returns, no key waits: the workers have ended, and one of them has seen
\* the channel closed and empty.
LEMMA NothingWaits ==
  ASSUME BatchInv, at = "returned", NEW k \in Keys, Requested(k)
  PROVE  ~Outstanding(k)
<1>1. Typed /\ CallerOK /\ (\A w \in Workers : WorkerOK(w)) /\ Started
  BY DEF BatchInv
<1>2. index[k].fileID \in Groups
  BY DEF Groups
<1>3. PICK w \in Waited : TRUE
  BY <1>1, <1>2 DEF Started
<1>4. w \in Workers /\ worker[w].at = "done"
  BY <1>1, <1>3 DEF CallerOK, Waited
<1>5. unsent = {} /\ tasks = <<>>
  BY <1>1, <1>4 DEF WorkerOK, Drained
<1>6. \A v \in Workers : worker[v].at \in {"unborn", "done"}
  BY <1>1 DEF CallerOK, Waited
<1>7. \A v \in Workers : worker[v].rest = {}
  BY <1>1, <1>6 DEF WorkerOK
<1> QED
  BY <1>5, <1>7 DEF Outstanding

\* The answers are then the ones promised.
LEMMA AnswersAre == BatchInv => AnswersExact
<1> SUFFICES ASSUME BatchInv, at = "returned", ~(raced /\ Cardinality(Groups) > 1),
                    NEW k \in Keys
             PROVE  IF index[k].state # "live" \/ ~Readable(k)
                    THEN Seen(k) = Empty
                    ELSE \/ Seen(k) = k
                         \/ k \in Kept /\ \E j \in Keys \ {k} :
                              Requested(j) /\ index[j].small /\ Seen(k) = j
  BY DEF AnswersExact
<1>1. Typed /\ Alone /\ NoneLost
  BY DEF BatchInv
<1>2. ~raced
  <2>1. IsFiniteSet(Groups)
    BY GroupsFinite
  <2>2. Cardinality(Groups) \in Nat
    BY <2>1, FS_CardinalityType
  <2> QED
    BY <1>1, <2>2 DEF Alone
<1>3. Nothing.of = Empty /\ Nothing.in = None /\ Own(k).of = k /\ Own(k).in = None
  BY DEF Nothing, Own
<1>4. CASE ~Requested(k)
  <2>1. results[k] = Nothing
    BY <1>1, <1>2, <1>4 DEF NoneLost
  <2> QED
    BY <1>3, <1>4, <2>1 DEF Seen, Requested
<1>5. CASE Requested(k)
  <2>1. Answered(k)
    BY <1>1, <1>2, <1>5, NothingWaits DEF NoneLost
  <2>2. CASE ~Readable(k)
    BY <1>3, <2>1, <2>2 DEF Answered, Seen
  <2>3. CASE Readable(k) /\ k \notin Kept
    BY <1>3, <1>5, <2>1, <2>3 DEF Answered, Seen, Requested
  <2>4. CASE Readable(k) /\ k \in Kept
    <3>1. PICK w \in Workers : results[k] = Slice(w) /\ buffer[w] \in Buffered
      BY <2>1, <2>4 DEF Answered
    <3>2. results[k].in = w /\ w # None
      BY <3>1, NoneAssumption DEF Slice
    <3>3. Seen(k) = buffer[w]
      BY <3>2 DEF Seen
    <3>4. buffer[w] \in Keys /\ Requested(buffer[w]) /\ index[buffer[w]].small
      BY <3>1 DEF Buffered
    <3> QED
      BY <1>5, <2>4, <3>3, <3>4 DEF Requested
  <2> QED
    BY <2>2, <2>3, <2>4
<1> QED
  BY <1>4, <1>5

\* The workers of a call keep the invariant in whatever order they run.
THEOREM BatchInvariant == Spec => []BatchInv
<1> QED
  BY InitBatch, NextBatch, PTL DEF Spec

\* BatchGet answers every key it was asked for, with its own bytes when they were copied.
THEOREM AnswersAreExact == Spec => []AnswersExact
<1> QED
  BY AnswersAre, BatchInvariant, PTL
===========================================================================
