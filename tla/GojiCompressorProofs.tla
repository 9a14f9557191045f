------------------------ MODULE GojiCompressorProofs ------------------------
(***************************************************************************)
(* Proofs about the compressor at work.  First, that the channel and the   *)
(* workers hold exactly the jobs that calls wait for: JobsExact needs      *)
(* little beside it to be inductive, that a call outside compressParallel  *)
(* and compressStream has sent nothing, and has results only for what it   *)
(* sent.  Then, which values come back: the pieces of a value, put         *)
(* together again in their order, are the value or all of it but the tail  *)
(* (by induction on their number, as the absence of a least                *)
(* counterexample), a container whose blobs were made of its own pieces is *)
(* read as its pieces, and calls and the cache hold nothing else but       *)
(* slices of buffers that were filled again.                               *)
(***************************************************************************)
EXTENDS GojiCompressor, NaturalsInduction, SequenceTheorems, WellFoundedInduction, TLAPS

JobOf == [caller : Callers, id : Nat]

Slots ==
  /\ pool \in Seq(JobOf \cup {Nil})
  /\ hands \in [Workers -> JobOf \cup {Idle, Gone}]

\* The record of a call that has sent some of its jobs.
CallShape(r) ==
  /\ DOMAIN r = {"at", "data", "jobs", "sent", "results", "slice"}
  /\ r.data \in Inputs \cup {<<>>}
  /\ DOMAIN r.jobs = 1 .. Len(r.jobs) /\ Len(r.jobs) \in Nat
  /\ r.sent \in Nat /\ r.sent <= Len(r.jobs)
  /\ DOMAIN r.results \subseteq 1 .. r.sent
  /\ r.at # "sending" => r.sent = 0

CallsShaped == call = [c \in Callers |-> call[c]] /\ \A c \in Callers : CallShape(call[c])

CompInv == config \in Config /\ Slots /\ CallsShaped /\ JobsExact
---------------------------------------------------------------------------
\* The three items that are no jobs, and the jobs.
LEMMA NoJob ==
  /\ Nil \notin JobOf /\ Idle \notin JobOf /\ Gone \notin JobOf
  /\ Nil # Idle /\ Nil # Gone /\ Idle # Gone
  /\ Nil.caller = None /\ Idle.caller = None /\ Gone.caller = None
  /\ \A j \in JobOf : j.caller # None /\ j.caller \in Callers /\ j.id \in Nat
                      /\ j = Job(j.caller, j.id)
  /\ \A c \in Callers, i \in Nat : Job(c, i) \in JobOf /\ Job(c, i).caller = c
                                   /\ Job(c, i).id = i
  BY NoneAssumption DEF JobOf, Nil, Idle, Gone, Job

\* A step that leaves the channel and the workers alone, and what calls wait for.
LEMMA SameJobs ==
  ASSUME JobsExact, UNCHANGED <<pool, hands>>, \A c \in Callers : Awaited(c)' = Awaited(c),
         Slots
  PROVE  JobsExact'
<1>1. \A n \in DOMAIN pool : pool[n] # Nil => pool[n].caller \in Callers
  BY NoJob DEF Slots
<1>2. \A w \in Workers : hands[w].caller # None => hands[w].caller \in Callers
  BY NoJob DEF Slots
<1> QED
  BY <1>1, <1>2 DEF JobsExact, InPool, InHands

\* An empty call waits for nothing.
LEMMA NothingAwaited ==
  ASSUME NEW c \in Callers, call[c].sent = 0
  PROVE  Awaited(c) = {}
  BY DEF Awaited
---------------------------------------------------------------------------
\* A function on 1 .. n is a sequence of length n.
LEMMA AsSequence ==
  ASSUME NEW f, NEW n \in Nat, f = [i \in 1 .. n |-> f[i]]
  PROVE  DOMAIN f = 1 .. n /\ Len(f) = n
<1> DEFINE S == {f[i] : i \in 1 .. n}
<1>1. f \in [1 .. n -> S]
  OBVIOUS
<1>2. f \in Seq(S)
  BY <1>1
<1> QED
  BY <1>1, <1>2

\* However a value is cut, its jobs are a sequence.
LEMMA JobsShaped ==
  ASSUME config \in Config, NEW d \in Inputs \cup {<<>>}, NEW jobs,
         jobs \in {ParallelJobs(d), StreamJobs(d)}
  PROVE  DOMAIN jobs = 1 .. Len(jobs) /\ Len(jobs) \in Nat
<1> DEFINE size == config.ChunkSize
           most == config.MaxParallelism
<1>1. Len(d) \in Nat
  BY InputsAssumption
<1>2. size \in Nat \ {0} /\ most \in Nat
  BY DEF Config
<1>3. PieceCount(d, size) \in Nat
  <2> DEFINE top == Len(d) + size - 1
  <2>1. top \in Nat /\ size \in Nat \ {0}
    BY <1>1, <1>2
  <2>2. top \div size \in Nat
    <3> HIDE DEF top, size
    <3> QED  BY <2>1
  <2> QED
    BY <2>2 DEF PieceCount
<1>4. \E n \in Nat : jobs = [i \in 1 .. n |-> jobs[i]]
  <2>1. CASE jobs = StreamJobs(d)
    BY <1>3, <2>1 DEF StreamJobs, Jobs, AllPieces, Pieces
  <2>2. CASE jobs = ParallelJobs(d)
    BY <1>2, <1>3, <2>2 DEF ParallelJobs, Jobs, FewPieces, AllPieces, Pieces
  <2> QED
    BY <2>1, <2>2
<1> QED
  BY <1>4, AsSequence

\* The steps of a call that change its record only, outside the sending of jobs: it starts,
\* returns, or is about to send.
LEMMA CallInv ==
  ASSUME CompInv, NEW c \in Callers, NEW r,
         call' = [call EXCEPT ![c] = r], CallShape(r), r.sent = 0,
         UNCHANGED <<config, pool, hands>>, Awaited(c) = {}
  PROVE  CompInv'
<1>1. call'[c] = r /\ \A b \in Callers : b # c => call'[b] = call[b]
  BY DEF CompInv, CallsShaped
<1>2. CallsShaped'
  BY <1>1 DEF CompInv, CallsShaped
<1>3. \A b \in Callers : Awaited(b)' = Awaited(b)
  BY <1>1 DEF Awaited
<1>4. JobsExact'
  BY <1>3, SameJobs DEF CompInv
<1> QED
  BY <1>2, <1>4 DEF CompInv, Slots

\* A call without jobs.
LEMMA JoblessShape ==
  ASSUME NEW at, NEW d \in Inputs \cup {<<>>}, NEW slice, at # "sending"
  PROVE  CallShape(Jobless(at, d, slice)) /\ Jobless(at, d, slice).sent = 0
<1>1. <<>> \in Seq({}) /\ Len(<<>>) = 0
  OBVIOUS
<1>2. DOMAIN <<>> = 1 .. 0 /\ 1 .. 0 = {}
  BY <1>1
<1> DEFINE r == Jobless(at, d, slice)
<1>3. /\ r.at = at /\ r.data = d /\ r.jobs = <<>> /\ r.sent = 0
      /\ r.results = <<>>
  BY DEF Jobless
<1>4. DOMAIN r = {"at", "data", "jobs", "sent", "results", "slice"}
  BY DEF Jobless
<1> HIDE DEF r
<1>5. DOMAIN r.jobs = 1 .. Len(r.jobs) /\ Len(r.jobs) \in Nat /\ r.sent \in Nat
      /\ r.sent <= Len(r.jobs)
  BY <1>1, <1>2, <1>3
<1>6. DOMAIN r.results \subseteq 1 .. r.sent
  BY <1>2, <1>3
<1>7. CallShape(r) /\ r.sent = 0
  BY <1>3, <1>4, <1>5, <1>6 DEF CallShape
<1> QED
  BY <1>7 DEF r

\* A call begins, and perhaps fills a buffer that others hold a slice of.
LEMMA StartCallInv ==
  ASSUME CompInv, NEW c \in Callers, NEW d \in Inputs, NEW reuse \in BOOLEAN,
         StartCall(c, d, reuse)
  PROVE  CompInv'
<1>1. UNCHANGED <<config, pool, hands>> /\ ~Calling(c)
  BY DEF StartCall
<1>2. PICK entries :
        entries = [i \in DOMAIN cache |-> [cache[i] EXCEPT !.slice = Refilled(@, c, d, reuse)]]
  OBVIOUS
<1>3. PICK mine :
        mine = IF config.EnableCache /\ Hits(entries, d) # {}
          THEN Jobless("returned", d, entries[CHOOSE i \in Hits(entries, d) : TRUE].slice)
          ELSE Jobless("missed", d, NoSlice)
  OBVIOUS
<1>4. /\ call' = [b \in Callers |->
           IF b # c THEN [call[b] EXCEPT !.slice = Refilled(@, c, d, reuse)] ELSE mine]
      /\ \E slice : mine = Jobless("returned", d, slice) \/ mine = Jobless("missed", d, slice)
  <2>1. call' = [b \in Callers |->
           IF b # c THEN [call[b] EXCEPT !.slice = Refilled(@, c, d, reuse)] ELSE mine]
    BY <1>2, <1>3 DEF StartCall
  <2>2. \E slice : mine = Jobless("returned", d, slice) \/ mine = Jobless("missed", d, slice)
    BY <1>3
  <2> QED
    BY <2>1, <2>2
<1>5. CallShape(mine) /\ mine.sent = 0
  BY <1>4, JoblessShape
<1>6. ASSUME NEW b \in Callers
      PROVE  CallShape(call'[b]) /\ Awaited(b)' = Awaited(b)
  <2>1. PICK q : q = call[b]
    OBVIOUS
  <2>2. PICK r : r = call'[b]
    OBVIOUS
  <2>3. CallShape(q)
    BY <2>1 DEF CompInv, CallsShaped
  <2>4. CASE b # c
    <3>1. PICK slice : r = [q EXCEPT !.slice = slice]
      BY <1>4, <2>1, <2>2, <2>4
    <3>2. /\ r.at = q.at /\ r.data = q.data /\ r.jobs = q.jobs /\ r.sent = q.sent
          /\ r.results = q.results /\ DOMAIN r = DOMAIN q
      BY <2>3, <3>1 DEF CallShape
    <3>3. CallShape(r)
      BY <2>3, <3>2 DEF CallShape
    <3> QED
      BY <2>1, <2>2, <3>2, <3>3 DEF Awaited
  <2>5. CASE b = c
    <3>1. q.sent = 0
      BY <1>1, <2>1, <2>3, <2>5 DEF Calling, CallShape
    <3>2. r = mine
      BY <1>4, <2>2, <2>5
    <3> QED
      BY <1>5, <2>1, <2>2, <3>1, <3>2 DEF Awaited
  <2> QED
    BY <2>4, <2>5
<1>7. CallsShaped'
  BY <1>4, <1>6 DEF CallsShaped
<1>8. JobsExact'
  BY <1>1, <1>6, SameJobs DEF CompInv
<1> QED
  BY <1>1, <1>7, <1>8 DEF CompInv, Slots

\* A call that returns and waits for nothing.
LEMMA ReturnedInv ==
  ASSUME CompInv, NEW c \in Callers, NEW slice, call' = Returned(c, slice),
         UNCHANGED <<config, pool, hands>>, Awaited(c) = {}
  PROVE  CompInv'
<1>1. call[c].data \in Inputs \cup {<<>>}
  BY DEF CompInv, CallsShaped, CallShape
<1>2. call' = [call EXCEPT ![c] = Jobless("returned", call[c].data, slice)]
  BY DEF Returned
<1> QED
  BY <1>1, <1>2, JoblessShape, CallInv

\* A call whose record keeps its shape, whatever it sends or gets.
LEMMA CallUpdated ==
  ASSUME CallsShaped, NEW c \in Callers, NEW r, CallShape(r), call' = [call EXCEPT ![c] = r]
  PROVE  /\ CallsShaped'
         /\ call'[c] = r
         /\ \A b \in Callers : b # c => call'[b] = call[b]
<1>1. call'[c] = r /\ \A b \in Callers : b # c => call'[b] = call[b]
  BY DEF CallsShaped
<1> QED
  BY <1>1 DEF CallsShaped

\* compressParallel and compressStream before they send the first job.
LEMMA CutInv ==
  ASSUME CompInv, NEW c \in Callers, NEW jobs, CutIntoJobs(c, jobs),
         jobs \in {ParallelJobs(call[c].data), StreamJobs(call[c].data)},
         call[c].sent = 0, UNCHANGED <<config, hands>>
  PROVE  CompInv'
<1> DEFINE q == call[c]
           r == [q EXCEPT !.at = "sending", !.jobs = jobs]
<1>1. CallShape(q) /\ config \in Config
  BY DEF CompInv, CallsShaped
<1>2. DOMAIN jobs = 1 .. Len(jobs) /\ Len(jobs) \in Nat
  BY <1>1, JobsShaped DEF CallShape
<1>3. DOMAIN q = {"at", "data", "jobs", "sent", "results", "slice"} /\ q.sent = 0
  BY <1>1 DEF CallShape
<1>4. /\ r.data = q.data /\ r.jobs = jobs /\ r.sent = 0 /\ r.results = q.results
      /\ r.at = "sending"
  BY <1>3
<1>5. DOMAIN r = {"at", "data", "jobs", "sent", "results", "slice"}
  BY <1>3
<1>6. call' = [call EXCEPT ![c] = r] /\ UNCHANGED <<config, pool, hands>>
  BY DEF CutIntoJobs
<1>7. Awaited(c) = {}
  BY NothingAwaited
<1>8. CallShape(r)
  <2> HIDE DEF r
  <2> QED  BY <1>1, <1>2, <1>4, <1>5 DEF CallShape
<1> QED
  <2> HIDE DEF r
  <2> QED  BY <1>4, <1>6, <1>7, <1>8, CallInv

LEMMA CompressInv ==
  ASSUME CompInv, NEW c \in Callers, Compress(c)
  PROVE  CompInv'
<1>1. call[c].sent = 0 /\ UNCHANGED <<config, hands>>
  BY DEF CompInv, CallsShaped, CallShape, Compress
<1>2. Awaited(c) = {}
  BY <1>1, NothingAwaited
<1>3. CASE KeepRaw(c)
  BY <1>1, <1>2, <1>3, ReturnedInv DEF KeepRaw
<1>4. CASE CompressMixed(c)
  BY <1>1, <1>2, <1>4, ReturnedInv DEF CompressMixed
<1>5. CASE CompressPlain(c)
  BY <1>1, <1>2, <1>5, ReturnedInv DEF CompressPlain
<1>6. CASE CutIntoJobs(c, ParallelJobs(call[c].data))
  BY <1>1, <1>6, CutInv
<1>7. CASE CutIntoJobs(c, StreamJobs(call[c].data))
  BY <1>1, <1>7, CutInv
<1> QED
  BY <1>3, <1>4, <1>5, <1>6, <1>7 DEF Compress

LEMMA CollectInv ==
  ASSUME CompInv, NEW c \in Callers, Collect(c)
  PROVE  CompInv'
<1>1. CallShape(call[c])
  BY DEF CompInv, CallsShaped
<1>2. Awaited(c) = {}
  BY <1>1 DEF Collect, Awaited, CallShape
<1>3. PICK slice : call' = Returned(c, slice)
  BY DEF Collect
<1> QED
  BY <1>2, <1>3, ReturnedInv DEF Collect
---------------------------------------------------------------------------
\* JobsExact of a channel p, workers' hands h and a function A that tells what each caller
\* waits for.
Exact(p, h, A) ==
  /\ \A m, n \in DOMAIN p : p[m] = p[n] /\ p[m] # Nil => m = n
  /\ \A v, w \in Workers : h[v] = h[w] /\ h[v].caller # None => v = w
  /\ \A n \in DOMAIN p, w \in Workers : h[w] # p[n]
  /\ \A n \in DOMAIN p : p[n] # Nil => p[n].id \in A[p[n].caller]
  /\ \A w \in Workers : h[w].caller # None => h[w].id \in A[h[w].caller]
  /\ \A c \in Callers : \A i \in A[c] :
       (\E n \in DOMAIN p : p[n] = Job(c, i)) \/ (\E w \in Workers : h[w] = Job(c, i))

Waiting == [c \in Callers |-> Awaited(c)]

Held(p, h) ==
  /\ p \in Seq(JobOf \cup {Nil})
  /\ h \in [Workers -> JobOf \cup {Idle, Gone}]

LEMMA HeldCallers ==
  ASSUME NEW p, NEW h, Held(p, h)
  PROVE  /\ \A n \in DOMAIN p : p[n] # Nil => p[n] \in JobOf /\ p[n].caller \in Callers
         /\ \A w \in Workers : h[w].caller # None => h[w] \in JobOf /\ h[w].caller \in Callers
  BY NoJob DEF Held

LEMMA ExactNow ==
  ASSUME Slots
  PROVE  JobsExact <=> Exact(pool, hands, Waiting)
<1>1. Held(pool, hands)
  BY DEF Held, Slots
<1>2. \A c \in Callers : Waiting[c] = Awaited(c)
  BY DEF Waiting
<1> QED
  BY <1>1, <1>2, HeldCallers DEF JobsExact, Exact, InPool, InHands

LEMMA ExactNext ==
  ASSUME Slots'
  PROVE  JobsExact' <=> Exact(pool', hands', Waiting')
<1> DEFINE A == Waiting'
<1>1. Held(pool', hands')
  BY DEF Held, Slots
<1>2. \A c \in Callers : A[c] = {i \in 1 .. call'[c].sent : i \notin DOMAIN call'[c].results}
  BY DEF Waiting, Awaited
<1>3. /\ \A n \in DOMAIN pool' : pool'[n] # Nil => pool'[n].caller \in Callers
      /\ \A w \in Workers : hands'[w].caller # None => hands'[w].caller \in Callers
  BY <1>1, HeldCallers
<1> HIDE DEF A
<1>4. Exact(pool', hands', A) <=> JobsExact'
  BY <1>2, <1>3 DEF JobsExact, Exact, InPool, InHands, Awaited
<1> QED
  BY <1>4 DEF A

\* A send puts one item at the end.
LEMMA Appended ==
  ASSUME NEW p \in Seq(JobOf \cup {Nil}), NEW x \in JobOf \cup {Nil}, NEW q, q = Append(p, x)
  PROVE  /\ q \in Seq(JobOf \cup {Nil})
         /\ DOMAIN q = DOMAIN p \cup {Len(p) + 1} /\ Len(p) + 1 \notin DOMAIN p
         /\ \A n \in DOMAIN p : q[n] = p[n]
         /\ q[Len(p) + 1] = x
  OBVIOUS

\* A new job is one nobody waited for, so it is nowhere yet.
LEMMA ExactSend ==
  ASSUME NEW p, NEW h, NEW A, NEW q, NEW B, Held(p, h), Exact(p, h, A),
         NEW c \in Callers, NEW k \in Nat, k \notin A[c],
         q = Append(p, Job(c, k)), B[c] = A[c] \cup {k},
         \A b \in Callers : b # c => B[b] = A[b]
  PROVE  Held(q, h) /\ Exact(q, h, B)
<1> DEFINE z == Len(p) + 1
           j == Job(c, k)
<1>1. j \in JobOf /\ j.caller = c /\ j.id = k /\ j # Nil
  BY NoJob
<1>2. /\ q \in Seq(JobOf \cup {Nil})
      /\ DOMAIN q = DOMAIN p \cup {z} /\ z \notin DOMAIN p
      /\ \A n \in DOMAIN p : q[n] = p[n]
      /\ q[z] = j
  <2> HIDE DEF j
  <2> QED  BY <1>1, Appended DEF Held, j
<1>3. /\ \A n \in DOMAIN p : p[n] # j
      /\ \A w \in Workers : h[w] # j
  BY <1>1, NoneAssumption DEF Exact
<1>4. \A b \in Callers : A[b] \subseteq B[b]
  OBVIOUS
<1>5. j.id \in B[j.caller]
  BY <1>1
<1> HIDE DEF j, z
<1>6. \A n \in DOMAIN q : q[n] # Nil => q[n].id \in B[q[n].caller]
  BY <1>2, <1>4, <1>5, HeldCallers DEF Exact
<1>7. \A w \in Workers : h[w].caller # None => h[w].id \in B[h[w].caller]
  BY <1>4, HeldCallers DEF Exact
<1>8. \A b \in Callers : \A i \in B[b] :
        (\E n \in DOMAIN q : q[n] = Job(b, i)) \/ (\E w \in Workers : h[w] = Job(b, i))
  <2> SUFFICES ASSUME NEW b \in Callers, NEW i \in B[b]
               PROVE  \/ \E n \in DOMAIN q : q[n] = Job(b, i)
                      \/ \E w \in Workers : h[w] = Job(b, i)
    OBVIOUS
  <2>1. CASE b = c /\ i = k
    BY <2>1, <1>2 DEF j
  <2>2. CASE i \in A[b]
    BY <2>2, <1>2 DEF Exact
  <2> QED
    BY <2>1, <2>2
<1>9. \A m, n \in DOMAIN q : q[m] = q[n] /\ q[m] # Nil => m = n
  BY <1>2, <1>3 DEF Exact
<1>10. \A n \in DOMAIN q, w \in Workers : h[w] # q[n]
  BY <1>2, <1>3 DEF Exact
<1>11. \A v, w \in Workers : h[v] = h[w] /\ h[v].caller # None => v = w
  BY DEF Exact
<1> QED
  BY <1>2, <1>6, <1>7, <1>8, <1>9, <1>10, <1>11 DEF Exact, Held

\* A nil is no job.
LEMMA ExactNil ==
  ASSUME NEW p, NEW h, NEW A, NEW q, Held(p, h), Exact(p, h, A), q = Append(p, Nil)
  PROVE  Held(q, h) /\ Exact(q, h, A)
<1> DEFINE z == Len(p) + 1
<1>1. /\ q \in Seq(JobOf \cup {Nil})
      /\ DOMAIN q = DOMAIN p \cup {z} /\ z \notin DOMAIN p
      /\ \A n \in DOMAIN p : q[n] = p[n]
      /\ q[z] = Nil
  BY Appended DEF Held
<1>2. \A w \in Workers : h[w] # Nil
  BY NoJob DEF Held
<1> HIDE DEF z
<1> QED
  BY <1>1, <1>2 DEF Exact, Held

\* A worker that is idle takes what is first in the channel.
LEMMA ExactTake ==
  ASSUME NEW p, NEW h, NEW A, NEW q, NEW g, Held(p, h), Exact(p, h, A),
         NEW w \in Workers, h[w] = Idle, p # <<>>, q = Tail(p),
         g = [h EXCEPT ![w] = IF Head(p) = Nil THEN Gone ELSE Head(p)]
  PROVE  Held(q, g) /\ Exact(q, g, A)
<1> DEFINE x == p[1]
           y == IF x = Nil THEN Gone ELSE x
<1>1. /\ Head(p) = x /\ x \in JobOf \cup {Nil} /\ 1 \in DOMAIN p
      /\ q \in Seq(JobOf \cup {Nil})
      /\ \A n \in DOMAIN q : n + 1 \in DOMAIN p /\ q[n] = p[n + 1] /\ n \in Nat /\ n # 0
      /\ \A n \in DOMAIN p : n \in Nat /\ (n # 1 => n - 1 \in DOMAIN q)
  BY DEF Held
<1>2. g[w] = y /\ \A v \in Workers : v # w => g[v] = h[v]
  BY <1>1 DEF Held
<1>3. g \in [Workers -> JobOf \cup {Idle, Gone}]
  BY <1>1 DEF Held
<1>4. \A n \in DOMAIN q : q[n] # Nil => q[n] # x
  <2> SUFFICES ASSUME NEW n \in DOMAIN q, q[n] # Nil, q[n] = x
               PROVE  FALSE
    OBVIOUS
  <2>1. n + 1 \in DOMAIN p /\ p[n + 1] = p[1] /\ p[n + 1] # Nil
    BY <1>1
  <2>2. n + 1 = 1
    BY <1>1, <2>1 DEF Exact
  <2> QED
    BY <1>1, <2>2
<1>5. \A v \in Workers : h[v] # x
  BY <1>1 DEF Exact
<1>6. y = x \/ y = Gone
  OBVIOUS
<1>7. y.caller # None => x # Nil /\ y = x
  BY NoJob
<1>8. x # Nil => y = x
  OBVIOUS
<1> HIDE DEF x, y
<1>9. \A m, n \in DOMAIN q : q[m] = q[n] /\ q[m] # Nil => m = n
  <2> SUFFICES ASSUME NEW m \in DOMAIN q, NEW n \in DOMAIN q, q[m] = q[n], q[m] # Nil
               PROVE  m = n
    OBVIOUS
  <2>1. m + 1 = n + 1
    BY <1>1 DEF Exact
  <2> QED
    BY <1>1, <2>1
<1>10. \A v, u \in Workers : g[v] = g[u] /\ g[v].caller # None => v = u
  BY <1>2, <1>5, <1>7 DEF Exact
<1>11. \A n \in DOMAIN q : q[n] \in JobOf \cup {Nil}
  BY <1>1
<1>12. \A n \in DOMAIN q, v \in Workers : g[v] # q[n]
  <2> SUFFICES ASSUME NEW n \in DOMAIN q, NEW v \in Workers, g[v] = q[n]
               PROVE  FALSE
    OBVIOUS
  <2>1. CASE v # w
    BY <2>1, <1>1, <1>2 DEF Exact
  <2>2. CASE v = w
    <3>1. y = q[n] /\ y # Gone
      BY <2>2, <1>2, <1>11, NoJob
    <3>2. q[n] # Nil
      BY <1>3, <2>2, NoJob
    <3> QED
      BY <3>1, <3>2, <1>4, <1>6
  <2> QED
    BY <2>1, <2>2
<1>13. \A n \in DOMAIN q : q[n] # Nil => q[n].id \in A[q[n].caller]
  BY <1>1 DEF Exact
<1>14. \A v \in Workers : g[v].caller # None => g[v].id \in A[g[v].caller]
  BY <1>1, <1>2, <1>7 DEF Exact, x
<1>15. \A c \in Callers : \A i \in A[c] :
         (\E n \in DOMAIN q : q[n] = Job(c, i)) \/ (\E v \in Workers : g[v] = Job(c, i))
  <2> SUFFICES ASSUME NEW c \in Callers, NEW i \in A[c]
               PROVE  \/ \E n \in DOMAIN q : q[n] = Job(c, i)
                      \/ \E v \in Workers : g[v] = Job(c, i)
    OBVIOUS
  <2>1. Job(c, i).caller = c /\ Job(c, i) # Nil /\ Job(c, i) # Idle
    BY NoneAssumption DEF Job, Nil, Idle
  <2>2. CASE \E n \in DOMAIN p : p[n] = Job(c, i)
    <3>1. PICK n \in DOMAIN p : p[n] = Job(c, i)
      BY <2>2
    <3>2. CASE n = 1
      BY <3>1, <3>2, <2>1, <1>2, <1>8 DEF x
    <3>3. CASE n # 1
      <4>1. n - 1 \in DOMAIN q /\ q[n - 1] = p[n]
        BY <3>3, <1>1
      <4> QED
        BY <3>1, <4>1
    <3> QED
      BY <3>2, <3>3
  <2>3. CASE \E v \in Workers : h[v] = Job(c, i)
    BY <2>3, <2>1, <1>2
  <2> QED
    BY <2>2, <2>3 DEF Exact
<1> QED
  BY <1>1, <1>3, <1>9, <1>10, <1>12, <1>13, <1>14, <1>15 DEF Exact, Held

\* A worker whose hands hold no job takes none with it when it goes.
LEMMA ExactQuit ==
  ASSUME NEW p, NEW h, NEW A, NEW g, Held(p, h), Exact(p, h, A),
         NEW w \in Workers, h[w] = Idle, g = [h EXCEPT ![w] = Gone]
  PROVE  Held(p, g) /\ Exact(p, g, A)
<1>1. g[w] = Gone /\ \A v \in Workers : v # w => g[v] = h[v]
  BY DEF Held
<1>2. g \in [Workers -> JobOf \cup {Idle, Gone}]
  BY DEF Held
<1>3. \A n \in DOMAIN p : p[n] # Gone
  BY NoJob DEF Held
<1>4. Gone.caller = None
  BY NoJob
<1>5. \A c \in Callers : \A i \in A[c] :
        (\E n \in DOMAIN p : p[n] = Job(c, i)) \/ (\E v \in Workers : g[v] = Job(c, i))
  <2> SUFFICES ASSUME NEW c \in Callers, NEW i \in A[c]
               PROVE  \/ \E n \in DOMAIN p : p[n] = Job(c, i)
                      \/ \E v \in Workers : g[v] = Job(c, i)
    OBVIOUS
  <2>1. Job(c, i) # Idle
    BY NoneAssumption DEF Job, Idle
  <2> QED
    BY <2>1, <1>1 DEF Exact
<1> QED
  BY <1>1, <1>2, <1>3, <1>4, <1>5 DEF Exact, Held

\* Caller c has the result of its job i; worker w has its hands free.
Served(A, B, c, i) == B[c] = A[c] \ {i} /\ \A b \in Callers : b # c => B[b] = A[b]
Freed(h, g, w) == g = [h EXCEPT ![w] = Idle]

\* A worker that has done its job, which the caller stops to wait for.
LEMMA ExactFinish ==
  ASSUME NEW p, NEW h, NEW A, NEW g, NEW B, Held(p, h), Exact(p, h, A),
         NEW w \in Workers, NEW j, NEW c, NEW i, j = h[w], c = j.caller, i = j.id, c # None,
         Freed(h, g, w), Served(A, B, c, i)
  PROVE  Held(p, g) /\ Exact(p, g, B)
<1>1. g[w] = Idle /\ \A v \in Workers : v # w => g[v] = h[v]
  BY DEF Held, Freed
<1>2. g \in [Workers -> JobOf \cup {Idle, Gone}]
  BY DEF Held, Freed
<1>3. \A n \in DOMAIN p : p[n] # Idle
  BY NoJob DEF Held
<1>4. j \in JobOf /\ j.caller \in Callers /\ j = Job(j.caller, j.id)
  BY HeldCallers, NoJob
<1>5. \A v \in Workers : v # w => h[v] # j
  BY DEF Exact
<1>6. \A n \in DOMAIN p : p[n] # j
  BY DEF Exact
<1>7. \A x \in JobOf : x # j /\ x.id \in A[x.caller] => x.id \in B[x.caller]
  <2> SUFFICES ASSUME NEW x \in JobOf, x # j, x.id \in A[x.caller]
               PROVE  x.id \in B[x.caller]
    OBVIOUS
  <2>1. x = Job(x.caller, x.id) /\ x.caller \in Callers
    BY NoJob
  <2>2. x.caller # j.caller \/ x.id # j.id
    BY <2>1, <1>4
  <2> QED
    BY <2>1, <2>2 DEF Served
<1>8. \A b \in Callers : \A k \in B[b] : k \in A[b] /\ Job(b, k) # j
  <2> SUFFICES ASSUME NEW b \in Callers, NEW k \in B[b]
               PROVE  k \in A[b] /\ Job(b, k) # j
    OBVIOUS
  <2>1. Job(b, k).caller = b /\ Job(b, k).id = k
    BY DEF Job
  <2> QED
    BY <2>1 DEF Served
<1>9. Idle.caller = None
  BY NoJob
<1>10. \A n \in DOMAIN p : p[n] # Nil => p[n].id \in B[p[n].caller]
  BY <1>6, <1>7, HeldCallers DEF Exact
<1>11. \A v \in Workers : g[v].caller # None => g[v].id \in B[g[v].caller]
  BY <1>1, <1>5, <1>7, <1>9, HeldCallers DEF Exact
<1>12. \A b \in Callers : \A k \in B[b] :
         (\E n \in DOMAIN p : p[n] = Job(b, k)) \/ (\E v \in Workers : g[v] = Job(b, k))
  BY <1>1, <1>8 DEF Exact
<1>13. \A v, u \in Workers : g[v] = g[u] /\ g[v].caller # None => v = u
  BY <1>1, <1>9 DEF Exact
<1>14. \A n \in DOMAIN p, v \in Workers : g[v] # p[n]
  BY <1>1, <1>3 DEF Exact
<1>15. \A m, n \in DOMAIN p : p[m] = p[n] /\ p[m] # Nil => m = n
  BY DEF Exact
<1> QED
  BY <1>2, <1>10, <1>11, <1>12, <1>13, <1>14, <1>15 DEF Exact, Held
---------------------------------------------------------------------------
\* What remains of the invariant after a step, once the calls have kept their shape.
LEMMA FromExact ==
  ASSUME config' \in Config, CallsShaped', Held(pool', hands'),
         Exact(pool', hands', Waiting')
  PROVE  CompInv'
<1>1. Slots'
  BY DEF Held, Slots
<1> QED
  BY <1>1, ExactNext DEF CompInv

LEMMA ToExact ==
  ASSUME CompInv
  PROVE  /\ Held(pool, hands) /\ Exact(pool, hands, Waiting) /\ CallsShaped
         /\ \A c \in Callers : CallShape(call[c]) /\ Waiting[c] = Awaited(c)
  BY ExactNow DEF CompInv, Held, Slots, CallsShaped, Waiting

LEMMA SendJobInv ==
  ASSUME CompInv, NEW c \in Callers, SendJob(c)
  PROVE  CompInv'
<1> DEFINE q == call[c]
           k == q.sent + 1
           r == [q EXCEPT !.sent = k]
<1>1. CallShape(q) /\ CallsShaped /\ Waiting[c] = Awaited(c)
  BY ToExact
<1>2. k \in Nat /\ q.sent \in Nat /\ k <= Len(q.jobs) /\ q.at = "sending"
  BY <1>1 DEF CallShape, SendJob
<1>3. /\ r.data = q.data /\ r.jobs = q.jobs /\ r.sent = k /\ r.results = q.results
      /\ r.at = "sending" /\ DOMAIN r = {"at", "data", "jobs", "sent", "results", "slice"}
  BY <1>1, <1>2 DEF CallShape
<1>4. /\ call' = [call EXCEPT ![c] = r] /\ pool' = Append(pool, Job(c, k))
      /\ UNCHANGED <<config, hands>>
  BY DEF SendJob
<1>5. CallShape(r)
  <2>1. DOMAIN q.results \subseteq 1 .. k
    BY <1>1, <1>2 DEF CallShape
  <2> HIDE DEF r, k
  <2> QED  BY <1>1, <1>2, <1>3, <2>1 DEF CallShape
<1>6. CallsShaped' /\ call'[c] = r /\ \A b \in Callers : b # c => call'[b] = call[b]
  <2> HIDE DEF r
  <2> QED  BY <1>1, <1>4, <1>5, CallUpdated
<1>7. k \notin DOMAIN q.results /\ k \notin 1 .. q.sent /\ 1 .. k = (1 .. q.sent) \cup {k}
  BY <1>1, <1>2 DEF CallShape
<1>8. /\ Waiting'[c] = Waiting[c] \cup {k} /\ k \notin Waiting[c]
      /\ \A b \in Callers : b # c => Waiting'[b] = Waiting[b]
  <2> HIDE DEF r, k
  <2> QED  BY <1>3, <1>6, <1>7 DEF Waiting, Awaited
<1>9. Held(pool', hands') /\ Exact(pool', hands', Waiting')
  <2> DEFINE A == Waiting
             B == Waiting'
             p == pool'
  <2>1. Held(pool, hands) /\ Exact(pool, hands, A)
    BY ToExact
  <2>2. /\ k \in Nat /\ k \notin A[c] /\ p = Append(pool, Job(c, k))
        /\ B[c] = A[c] \cup {k} /\ \A b \in Callers : b # c => B[b] = A[b]
    <3> HIDE DEF r, k
    <3> QED  BY <1>2, <1>4, <1>8
  <2> HIDE DEF A, B, p, k, r, q
  <2>3. Held(p, hands) /\ Exact(p, hands, B)
    BY <2>1, <2>2, ExactSend
  <2> QED
    BY <1>4, <2>3 DEF B, p
<1> QED
  BY <1>4, <1>6, <1>9, FromExact DEF CompInv

\* Steps that leave the calls alone.
LEMMA OtherSteps ==
  ASSUME CompInv, UNCHANGED <<config, call>>, Held(pool', hands'),
         Exact(pool', hands', Waiting)
  PROVE  CompInv'
<1>1. Waiting' = Waiting /\ CallsShaped'
  BY DEF Waiting, Awaited, CompInv, CallsShaped
<1> QED
  BY <1>1, FromExact DEF CompInv

LEMMA SendNilInv ==
  ASSUME CompInv, SendNil
  PROVE  CompInv'
<1>1. Held(pool', hands') /\ Exact(pool', hands', Waiting)
  BY ToExact, ExactNil DEF SendNil
<1> QED
  BY <1>1, OtherSteps DEF SendNil

LEMMA TakeJobInv ==
  ASSUME CompInv, NEW w \in Workers, TakeJob(w)
  PROVE  CompInv'
<1>1. Held(pool', hands') /\ Exact(pool', hands', Waiting)
  BY ToExact, ExactTake DEF TakeJob
<1> QED
  BY <1>1, OtherSteps DEF TakeJob

LEMMA QuitInv ==
  ASSUME CompInv, NEW w \in Workers, Quit(w)
  PROVE  CompInv'
<1>1. Held(pool', hands') /\ Exact(pool', hands', Waiting)
  BY ToExact, ExactQuit DEF Quit, MayQuit
<1> QED
  BY <1>1, OtherSteps DEF Quit

LEMMA FinishJobInv ==
  ASSUME CompInv, NEW w \in Workers, FinishJob(w)
  PROVE  CompInv'
<1> DEFINE j == hands[w]
           c == j.caller
           q == call[c]
           job == q.jobs[j.id]
           done == Done(q.results, j.id, Blob(job.data, job.algo))
           r == [q EXCEPT !.results = done]
<1>1. /\ c \in Callers /\ c # None
      /\ j.id \in Waiting[c]
  BY ToExact, HeldCallers DEF FinishJob, Exact
<1>2. CallShape(q) /\ CallsShaped /\ Waiting[c] = Awaited(c)
  BY <1>1, ToExact
<1>3. j.id \in 1 .. q.sent
  BY <1>1, <1>2 DEF Awaited
<1>4. /\ call' = [call EXCEPT ![c] = r] /\ hands' = [hands EXCEPT ![w] = Idle]
      /\ UNCHANGED <<config, pool>>
  BY DEF FinishJob, AfterJob
<1>5. DOMAIN done = DOMAIN q.results \cup {j.id}
  BY DEF Done
<1>6. /\ r.data = q.data /\ r.jobs = q.jobs /\ r.sent = q.sent /\ r.results = done
      /\ r.at = q.at /\ DOMAIN r = {"at", "data", "jobs", "sent", "results", "slice"}
  <2> HIDE DEF done
  <2> QED  BY <1>2 DEF CallShape
<1>7. CallShape(r)
  <2> HIDE DEF r, done
  <2> QED  BY <1>2, <1>3, <1>5, <1>6 DEF CallShape
<1>8. CallsShaped' /\ call'[c] = r /\ \A b \in Callers : b # c => call'[b] = call[b]
  <2> HIDE DEF r, c
  <2> QED  BY <1>1, <1>2, <1>4, <1>7, CallUpdated
<1>9. /\ Waiting'[c] = Waiting[c] \ {j.id}
      /\ \A b \in Callers : b # c => Waiting'[b] = Waiting[b]
  <2> HIDE DEF r, done, c, j
  <2> QED  BY <1>1, <1>5, <1>6, <1>8 DEF Waiting, Awaited
<1>10. Held(pool', hands') /\ Exact(pool', hands', Waiting')
  <2> DEFINE B == Waiting'
             g == hands'
  <2>1. Held(pool, hands) /\ Exact(pool, hands, Waiting)
    BY ToExact
  <2>2. /\ j = hands[w] /\ c = j.caller /\ c # None
        /\ Served(Waiting, B, c, j.id) /\ Freed(hands, g, w)
    BY <1>1, <1>4, <1>9 DEF Served, Freed
  <2> HIDE DEF B, g, r, done, j, c, q, job
  <2>3. Held(pool, g) /\ Exact(pool, g, B)
    BY <2>1, <2>2, ExactFinish
  <2> QED
    BY <1>4, <2>3 DEF B, g
<1> QED
  BY <1>4, <1>8, <1>10, FromExact DEF CompInv
---------------------------------------------------------------------------
LEMMA InitInv == Init => CompInv
<1> SUFFICES ASSUME Init  PROVE CompInv
  OBVIOUS
<1>1. config \in Config
  BY ConfigsAssumption DEF Init
<1>2. CallShape(NoCall) /\ NoCall.sent = 0
  BY JoblessShape DEF NoCall
<1>3. \A c \in Callers : call[c] = NoCall
  BY DEF Init
<1>4. CallsShaped
  BY <1>2, <1>3 DEF CallsShaped, Init
<1>5. \A c \in Callers : Awaited(c) = {}
  BY <1>2, <1>3, NothingAwaited
<1>6. /\ hands \in [Workers -> {Idle, Gone}]
      /\ \A w \in Workers : hands[w].caller = None
  BY NoJob DEF Init
<1>7. pool = <<>>
  BY DEF Init
<1>8. Slots
  BY <1>6, <1>7 DEF Slots
<1>9. DOMAIN pool = {}
  BY <1>7
<1>10. JobsExact
  BY <1>5, <1>6, <1>9 DEF JobsExact
<1> QED
  BY <1>1, <1>4, <1>8, <1>10 DEF CompInv

\* The steps that touch neither the calls nor the channel nor the workers.
LEMMA StillInv ==
  ASSUME CompInv, UNCHANGED <<config, pool, hands, call>>
  PROVE  CompInv'
<1>1. Held(pool', hands') /\ Exact(pool', hands', Waiting)
  BY ToExact
<1> QED
  BY <1>1, OtherSteps

LEMMA NextInv == CompInv /\ [Next]_vars => CompInv'
<1> SUFFICES ASSUME CompInv, [Next]_vars  PROVE CompInv'
  OBVIOUS
<1>1. ASSUME NEW c \in Callers, NEW d \in Inputs, NEW reuse \in BOOLEAN,
            StartCall(c, d, reuse)
      PROVE CompInv'
  BY <1>1, StartCallInv
<1>2. ASSUME NEW c \in Callers, CallStep(c)  PROVE CompInv'
  BY <1>2, CompressInv, SendJobInv, CollectInv DEF CallStep
<1>3. ASSUME NEW c \in Callers, SendPanics(c)  PROVE CompInv'
  BY <1>3, StillInv DEF SendPanics
<1>4. ASSUME NEW w \in Workers, WorkerStep(w)  PROVE CompInv'
  BY <1>4, TakeJobInv, QuitInv, FinishJobInv DEF WorkerStep
<1>5. CASE CancelWorkers
  BY <1>5, StillInv DEF CancelWorkers
<1>6. CASE SendNil
  BY <1>6, SendNilInv
<1>7. CASE CloseChannel
  BY <1>7, StillInv DEF CloseChannel
<1>8. CASE UNCHANGED vars
  BY <1>8, StillInv DEF vars
<1> QED
  BY <1>1, <1>2, <1>3, <1>4, <1>5, <1>6, <1>7, <1>8 DEF Next, Alive, CloseStep

\* Whatever the configuration, however many callers and workers there are, and whenever
\* Close comes, the channel and the workers hold exactly the jobs that calls under way
\* have sent and have no result of (worker, compressParallel, compressStream, Close).
THEOREM NoJobIsLost == Spec => []JobsExact
<1>1. CompInv => JobsExact
  BY DEF CompInv
<1> QED
  BY InitInv, NextInv, <1>1, PTL DEF Spec
---------------------------------------------------------------------------
\* A set of numbers has a least one.
LEMMA LeastNat ==
  ASSUME NEW T \in SUBSET Nat, T # {}
  PROVE  \E x \in T : \A y \in T : x <= y
<1> DEFINE R == {p \in Nat \X Nat : p[1] < p[2]}
<1>1. R = OpToRel(<, Nat)
  BY DEF OpToRel
<1>2. IsWellFoundedOn(R, Nat)
  BY <1>1, NatLessThanWellFounded
<1> HIDE DEF R
<1>3. PICK x \in T : \A y \in T : <<y, x>> \notin R
  BY <1>2, WFMin
<1>4. ASSUME NEW y \in T
      PROVE  x <= y
  <2>1. x \in Nat /\ y \in Nat /\ <<y, x>> \notin R
    BY <1>3
  <2>2. <<y, x>> \in Nat \X Nat /\ <<y, x>>[1] = y /\ <<y, x>>[2] = x
    BY <2>1
  <2>3. ~(y < x)
    BY <2>1, <2>2 DEF R
  <2> QED
    BY <2>1, <2>3
<1> QED
  BY <1>4

\* The first m prefixes FlattenSeq puts together.
Folded(f, s, m) ==
  f = [i \in 1 .. m |-> IF i = 1 THEN s[i] ELSE f[i - 1] \o s[i]]

\* They exist: there is no least number of parts without them.
LEMMA FoldedExist ==
  ASSUME NEW s, NEW n \in Nat
  PROVE  \E f : Folded(f, s, n)
<1> DEFINE Bad == {m \in Nat : ~ \E f : Folded(f, s, m)}
<1> SUFFICES ASSUME Bad # {}
             PROVE  FALSE
  OBVIOUS
<1>1. PICK m \in Bad : \A k \in Bad : m <= k
  <2>1. Bad \in SUBSET Nat
    OBVIOUS
  <2> HIDE DEF Bad
  <2> QED  BY <2>1, LeastNat
<1>2. m \in Nat /\ ~ \E f : Folded(f, s, m)
  OBVIOUS
<1>3. CASE m = 0
  <2> DEFINE f == [i \in 1 .. 0 |-> s[i]]
  <2>1. Folded(f, s, 0)
    BY DEF Folded
  <2> QED
    BY <1>2, <1>3, <2>1
<1>4. CASE m # 0
  <2>1. m - 1 \in Nat /\ m - 1 \notin Bad
    BY <1>1, <1>2, <1>4
  <2>2. PICK g : Folded(g, s, m - 1)
    BY <2>1
  <2> DEFINE f == [i \in 1 .. m |-> IF i < m THEN g[i]
                                    ELSE IF m = 1 THEN s[m] ELSE g[m - 1] \o s[m]]
  <2>3. ASSUME NEW i \in 1 .. m
        PROVE  f[i] = IF i = 1 THEN s[i] ELSE f[i - 1] \o s[i]
    <3>1. CASE i = m
      BY <1>2, <1>4, <2>3, <3>1
    <3>2. CASE i < m
      <4>1. i \in 1 .. m - 1
        BY <1>2, <2>3, <3>2
      <4>2. g[i] = IF i = 1 THEN s[i] ELSE g[i - 1] \o s[i]
        BY <2>2, <4>1 DEF Folded
      <4> QED
        BY <1>2, <2>3, <3>2, <4>2
    <3> QED
      BY <1>2, <2>3, <3>1, <3>2
  <2>4. f = [i \in 1 .. m |-> f[i]]
    OBVIOUS
  <2> HIDE DEF f
  <2>5. Folded(f, s, m)
    BY <2>3, <2>4 DEF Folded
  <2> QED
    BY <1>2, <2>5
<1> QED
  BY <1>3, <1>4

\* What FlattenSeq returns.
LEMMA Flattened ==
  ASSUME NEW s, Len(s) \in Nat, Len(s) # 0
  PROVE  \E f : Folded(f, s, Len(s)) /\ FlattenSeq(s) = f[Len(s)]
<1>1. FlattenSeq(s) = (CHOOSE f : Folded(f, s, Len(s)))[Len(s)]
  BY DEF FlattenSeq, Folded
<1>2. Folded(CHOOSE f : Folded(f, s, Len(s)), s, Len(s))
  BY FoldedExist
<1> QED
  BY <1>1, <1>2

\* Min of two numbers.
LEMMA MinOf ==
  ASSUME NEW a \in Nat, NEW b \in Nat
  PROVE  Min({a, b}) = IF a <= b THEN a ELSE b
BY DEF Min

\* A concatenation, element by element.
LEMMA IsConcat ==
  ASSUME NEW B, NEW a \in Seq(B), NEW b \in Seq(B), NEW c \in Seq(B),
         Len(c) = Len(a) + Len(b),
         \A i \in 1 .. Len(a) : c[i] = a[i],
         \A i \in 1 .. Len(b) : c[Len(a) + i] = b[i]
  PROVE  a \o b = c
<1>1. /\ a \o b \in Seq(B) /\ Len(a \o b) = Len(a) + Len(b)
      /\ \A i \in 1 .. Len(a) + Len(b) :
           (a \o b)[i] = IF i <= Len(a) THEN a[i] ELSE b[i - Len(a)]
  BY ConcatProperties
<1>2. PICK e : e = a \o b
  OBVIOUS
<1>3. e \in Seq(B) /\ Len(e) = Len(c)
  BY <1>1, <1>2
<1>4. ASSUME NEW i \in 1 .. Len(c)
      PROVE  e[i] = c[i]
  <2>1. e[i] = IF i <= Len(a) THEN a[i] ELSE b[i - Len(a)]
    BY <1>1, <1>2
  <2>2. CASE i <= Len(a)
    BY <2>1, <2>2
  <2>3. CASE i > Len(a)
    <3>1. i - Len(a) \in 1 .. Len(b) /\ Len(a) + (i - Len(a)) = i
      BY <2>3
    <3> QED
      BY <2>1, <2>3, <3>1
  <2> QED
    BY <2>2, <2>3
<1>5. e = c
  BY <1>3, <1>4, SeqEqual
<1> QED
  BY <1>2, <1>5

\* Two parts of a value that meet.
LEMMA Joined ==
  ASSUME NEW B, NEW d \in Seq(B), NEW p \in Nat, NEW q \in Nat, p <= q, q <= Len(d)
  PROVE  SubSeq(d, 1, p) \o SubSeq(d, p + 1, q) = SubSeq(d, 1, q)
<1>1. PICK a : a = SubSeq(d, 1, p)
  OBVIOUS
<1>2. PICK b : b = SubSeq(d, p + 1, q)
  OBVIOUS
<1>3. PICK c : c = SubSeq(d, 1, q)
  OBVIOUS
<1>4. a \in Seq(B) /\ Len(a) = p /\ \A i \in 1 .. p : a[i] = d[i]
  BY <1>1
<1>5. b \in Seq(B) /\ Len(b) = q - p /\ \A i \in 1 .. q - p : b[i] = d[p + i]
  BY <1>2
<1>6. c \in Seq(B) /\ Len(c) = q /\ \A i \in 1 .. q : c[i] = d[i]
  BY <1>3
<1>7. Len(c) = Len(a) + Len(b)
  BY <1>4, <1>5, <1>6
<1>8. \A i \in 1 .. Len(a) : c[i] = a[i]
  BY <1>4, <1>6
<1>9. \A i \in 1 .. Len(b) : c[Len(a) + i] = b[i]
  BY <1>4, <1>5, <1>6
<1>10. a \o b = c
  BY <1>4, <1>5, <1>6, <1>7, <1>8, <1>9, IsConcat
<1> QED
  BY <1>1, <1>2, <1>3, <1>10

\* Pieces of size bytes put together again are the value up to where they end.
LEMMA PiecesJoined ==
  ASSUME NEW B, NEW d \in Seq(B), NEW size \in Nat, NEW n \in Nat, n # 0
  PROVE  FlattenSeq(Pieces(d, size, n)) = SubSeq(d, 1, Min({n * size, Len(d)}))
<1> DEFINE s == Pieces(d, size, n)
           Ends(i) == IF i * size <= Len(d) THEN i * size ELSE Len(d)
<1>1. Len(d) \in Nat /\ \A i \in Nat : i * size \in Nat
  OBVIOUS
<1>2. \A i \in 1 .. n : Min({i * size, Len(d)}) = Ends(i)
  BY <1>1, MinOf
<1>3. s = [i \in 1 .. n |-> SubSeq(d, (i - 1) * size + 1, Ends(i))]
  BY <1>2 DEF Pieces
<1>4. s \in Seq(Seq(B)) /\ Len(s) = n
  <2>1. \A i \in 1 .. n : SubSeq(d, (i - 1) * size + 1, Ends(i)) \in Seq(B)
    <3> SUFFICES ASSUME NEW i \in 1 .. n
                 PROVE  SubSeq(d, (i - 1) * size + 1, Ends(i)) \in Seq(B)
      OBVIOUS
    <3>1. (i - 1) * size \in Nat /\ Ends(i) \in Nat /\ Ends(i) <= Len(d)
      BY <1>1
    <3> QED
      BY <3>1
  <2> QED
    BY <1>3, <2>1
<1> HIDE DEF s
<1>5. PICK f : Folded(f, s, n) /\ FlattenSeq(s) = f[n]
  BY <1>4, Flattened
<1> DEFINE Bad == {i \in 1 .. n : f[i] # SubSeq(d, 1, Ends(i))}
<1>6. Bad = {}
  <2> SUFFICES ASSUME Bad # {}
               PROVE  FALSE
    OBVIOUS
  <2>1. PICK m \in Bad : \A k \in Bad : m <= k
    <3>1. Bad \in SUBSET Nat
      OBVIOUS
    <3> HIDE DEF Bad
    <3> QED  BY <3>1, LeastNat
  <2>2. m \in 1 .. n /\ f[m] # SubSeq(d, 1, Ends(m))
    OBVIOUS
  <2>3. s[m] = SubSeq(d, (m - 1) * size + 1, Ends(m))
    BY <1>3, <2>2
  <2>4. CASE m = 1
    <3>1. f[m] = s[m]
      BY <1>5, <2>2, <2>4 DEF Folded
    <3>2. (m - 1) * size + 1 = 1
      BY <2>4
    <3> QED
      BY <2>2, <2>3, <3>1, <3>2
  <2>5. CASE m # 1
    <3>1. m - 1 \in 1 .. n /\ m - 1 \notin Bad
      BY <2>1, <2>2, <2>5
    <3>2. f[m - 1] = SubSeq(d, 1, Ends(m - 1))
      BY <3>1
    <3>3. f[m] = f[m - 1] \o s[m]
      BY <1>5, <2>2, <2>5 DEF Folded
    <3> DEFINE p == (m - 1) * size
    <3>4. p \in Nat /\ m * size = p + size
      BY <2>2
    <3>5. Ends(m - 1) = (IF p <= Len(d) THEN p ELSE Len(d))
          /\ Ends(m) = IF p + size <= Len(d) THEN p + size ELSE Len(d)
      BY <3>4
    <3>6. f[m] = SubSeq(d, 1, Ends(m - 1)) \o SubSeq(d, p + 1, Ends(m))
      BY <2>3, <3>2, <3>3
    <3> HIDE DEF p, Ends, Bad
    <3>7. CASE p <= Len(d)
      <4>1. Ends(m - 1) = p /\ p <= Ends(m) /\ Ends(m) <= Len(d) /\ Ends(m) \in Nat
        BY <1>1, <3>4, <3>5, <3>7
      <4>2. f[m] = SubSeq(d, 1, Ends(m))
        BY <3>4, <3>6, <4>1, Joined
      <4> QED
        BY <2>2, <4>2
    <3>8. CASE p > Len(d)
      <4>1. Ends(m - 1) = Len(d) /\ Ends(m) = Len(d)
        BY <1>1, <3>4, <3>5, <3>8
      <4>2. f[m] = SubSeq(d, 1, Len(d))
        BY <1>1, <3>4, <3>6, <3>8, <4>1
      <4> QED
        BY <2>2, <4>1, <4>2
    <3> QED
      BY <1>1, <3>4, <3>7, <3>8
  <2> QED
    BY <2>4, <2>5
<1>7. n \in 1 .. n
  OBVIOUS
<1>8. f[n] = SubSeq(d, 1, Ends(n))
  BY <1>6, <1>7
<1> QED
  BY <1>2, <1>5, <1>7, <1>8 DEF s

---------------------------------------------------------------------------
\* Enough pieces for the whole value, and at least one of a value that is not empty.
LEMMA PieceCountFacts ==
  ASSUME NEW B, NEW d \in Seq(B), NEW size \in Nat, size # 0
  PROVE  /\ PieceCount(d, size) \in Nat
         /\ PieceCount(d, size) * size >= Len(d)
         /\ Len(d) # 0 => PieceCount(d, size) # 0
<1>1. PICK top : top = Len(d) + size - 1
  OBVIOUS
<1>2. PICK n : n = top \div size
  OBVIOUS
<1>3. top \in Nat /\ Len(d) \in Nat
  BY <1>1
<1>4. n \in Nat /\ n * size <= top /\ top < (n + 1) * size
  BY <1>2, <1>3
<1>5. (n + 1) * size = n * size + size /\ n * size \in Nat
  BY <1>4
<1>6. n * size >= Len(d)
  BY <1>1, <1>3, <1>4, <1>5
<1>7. Len(d) # 0 => n # 0
  BY <1>3, <1>6
<1> QED
  BY <1>1, <1>2, <1>4, <1>6, <1>7 DEF PieceCount

\* compressMixedMode and compressStream cut the whole value.
LEMMA AllJoined ==
  ASSUME NEW B, NEW d \in Seq(B), NEW size \in Nat, size # 0
  PROVE  FlattenSeq(AllPieces(d, size)) = d
<1>1. PICK n : n = PieceCount(d, size)
  OBVIOUS
<1>2. n \in Nat /\ n * size \in Nat /\ n * size >= Len(d) /\ (Len(d) # 0 => n # 0) /\ Len(d) \in Nat
  BY <1>1, PieceCountFacts
<1>3. CASE n # 0
  <2>1. FlattenSeq(AllPieces(d, size)) = SubSeq(d, 1, Min({n * size, Len(d)}))
    BY <1>1, <1>2, <1>3, PiecesJoined DEF AllPieces
  <2>2. Min({n * size, Len(d)}) = Len(d)
    BY <1>2, MinOf
  <2>3. SubSeq(d, 1, Len(d)) = d
    OBVIOUS
  <2> QED
    BY <2>1, <2>2, <2>3
<1>4. CASE n = 0
  <2>1. d = <<>>
    BY <1>2, <1>4
  <2>2. AllPieces(d, size) = <<>>
    BY <1>1, <1>4 DEF AllPieces, Pieces
  <2> QED
    BY <2>1, <2>2 DEF FlattenSeq
<1> QED
  BY <1>3, <1>4

\* compressParallel cuts at most so many pieces, which hold all of the value but a
\* remainder.
LEMMA FewJoined ==
  ASSUME NEW B, NEW d \in Seq(B), NEW size \in Nat, size # 0, NEW most \in Nat, most # 0
  PROVE  FlattenSeq(FewPieces(d, size, most)) =
           IF PieceCount(d, size) > most THEN SubSeq(d, 1, most * (Len(d) \div most)) ELSE d
<1>1. CASE PieceCount(d, size) > most
  <2>1. PICK n : n = Len(d) \div most
    OBVIOUS
  <2>2. n \in Nat /\ most * n \in Nat /\ most * n <= Len(d) /\ Len(d) \in Nat
    BY <2>1
  <2>3. FlattenSeq(FewPieces(d, size, most)) = SubSeq(d, 1, Min({most * n, Len(d)}))
    BY <1>1, <2>1, <2>2, PiecesJoined DEF FewPieces
  <2>4. Min({most * n, Len(d)}) = most * n
    BY <2>2, MinOf
  <2> QED
    BY <1>1, <2>1, <2>3, <2>4
<1>2. CASE ~(PieceCount(d, size) > most)
  BY <1>2, AllJoined DEF FewPieces
<1> QED
  BY <1>1, <1>2

\* Pieces are values.
LEMMA PiecesAre ==
  ASSUME NEW B, NEW d \in Seq(B), NEW size \in Nat, NEW n \in Nat
  PROVE  Pieces(d, size, n) \in Seq(Seq(B)) /\ Len(Pieces(d, size, n)) = n
<1>1. ASSUME NEW i \in 1 .. n
      PROVE  SubSeq(d, (i - 1) * size + 1, Min({i * size, Len(d)})) \in Seq(B)
  <2>1. PICK m : m = Min({i * size, Len(d)})
    OBVIOUS
  <2>2. PICK p : p = (i - 1) * size + 1
    OBVIOUS
  <2>3. i * size \in Nat /\ (i - 1) * size \in Nat /\ Len(d) \in Nat
    OBVIOUS
  <2>4. m \in Nat /\ m <= Len(d) /\ p \in Nat /\ p >= 1
    BY <2>1, <2>2, <2>3, MinOf
  <2>5. SubSeq(d, p, m) \in Seq(B)
    BY <2>4
  <2> QED
    BY <2>1, <2>2, <2>5
<1>2. PICK s : s = Pieces(d, size, n)
  OBVIOUS
<1>3. s \in [1 .. n -> Seq(B)]
  BY <1>1, <1>2 DEF Pieces
<1>4. s \in Seq(Seq(B)) /\ Len(s) = n
  BY <1>3
<1> QED
  BY <1>2, <1>4

\* A container of pieces, each read by the algorithm that wrote it, gives them back.
LEMMA ContainerRead ==
  ASSUME NEW pieces \in Seq(Seq(Bytes)), NEW algos, NEW mark, NEW blobs,
         \A i \in DOMAIN pieces : blobs[i] = Blob(pieces[i], algos[i])
  PROVE  Unpacked(Form(mark, Jobs(pieces, algos), blobs)) = FlattenSeq(pieces)
<1>1. PICK form : form = Form(mark, Jobs(pieces, algos), blobs)
  OBVIOUS
<1>0. PICK jobs : jobs = Jobs(pieces, algos)
  OBVIOUS
<1>8. DOMAIN jobs = DOMAIN pieces
      /\ \A i \in DOMAIN pieces : jobs[i] = [data |-> pieces[i], algo |-> algos[i]]
  BY <1>0 DEF Jobs
<1>9. form.parts = [i \in DOMAIN jobs |->
                     [algo |-> jobs[i].algo, size |-> Len(jobs[i].data), blob |-> blobs[i]]]
  BY <1>0, <1>1 DEF Form
<1>2. /\ DOMAIN form.parts = DOMAIN pieces
      /\ \A i \in DOMAIN pieces : /\ form.parts[i].algo = algos[i]
                                  /\ form.parts[i].size = Len(pieces[i])
                                  /\ form.parts[i].blob = Blob(pieces[i], algos[i])
  BY <1>8, <1>9
<1>3. ASSUME NEW i \in DOMAIN pieces
      PROVE  /\ Chunk(form.parts[i]) = pieces[i]
             /\ form.parts[i].size = Len(pieces[i])
  <2>1. PICK part : part = form.parts[i]
    OBVIOUS
  <2>2. part.algo = algos[i] /\ part.size = Len(pieces[i]) /\ part.blob = Blob(pieces[i], algos[i])
    BY <1>2, <2>1
  <2>3. part.blob.algo = algos[i] /\ part.blob.of = pieces[i]
    BY <2>2 DEF Blob
  <2>4. Chunk(part) = pieces[i]
    BY <2>2, <2>3 DEF Chunk
  <2> QED
    BY <2>1, <2>2, <2>4
<1>4. \A i \in DOMAIN pieces : pieces[i] # Failed
  <2>1. Failed \notin Seq(Bytes)
    <3>1. "error" \notin Bytes
      BY DEF Bytes, Printable
    <3>2. Failed[1] = "error" /\ Len(Failed) = 1
      BY DEF Failed
    <3>3. 1 \in 1 .. 1
      OBVIOUS
    <3> QED
      BY <3>1, <3>2, <3>3, ElementOfSeq
  <2> QED
    BY <2>1
<1>5. SizesMatch(form)
  BY <1>2, <1>3 DEF SizesMatch
<1>6. [i \in DOMAIN form.parts |-> Chunk(form.parts[i])] = pieces
  BY <1>2, <1>3
<1>7. Unpacked(form) = FlattenSeq(pieces)
  BY <1>2, <1>3, <1>4, <1>5, <1>6 DEF Unpacked
<1> QED
  BY <1>1, <1>7
---------------------------------------------------------------------------
\* The slices the cache can hold.
RawForms == {Raw(d) : d \in Seq(Bytes)}
Forms == RawForms \cup {Plain(d, algo) : d \in Inputs, algo \in Algorithms \ {"none"}}
Slices == [form : Forms, owner : Callers \cup {None}, spoilt : BOOLEAN]

\* A form is that of the value d.
FormOf(form, d) ==
  form = Raw(d) \/ \E algo \in Algorithms \ {"none"} : form = Plain(d, algo)

\* What the cache can hold of a value: a part of a buffer is a value stored as it is, and
\* the form is that of the key until the buffer is filled again.
Entries ==
  {e \in [key : Inputs, slice : Slices] :
     /\ e.slice.owner # None => e.slice.form \in RawForms
     /\ ~e.slice.spoilt => FormOf(e.slice.form, e.key)}

\* How compressParallel and compressStream cut a value, by the configuration cf.
PiecesIn(cf, d) ==
  IF cf.EnableParallel THEN FewPieces(d, cf.ChunkSize, cf.MaxParallelism)
                       ELSE AllPieces(d, cf.ChunkSize)

AlgosIn(cf, d) ==
  IF cf.EnableParallel THEN Chosen(cf.algorithm, PiecesIn(cf, d))
  ELSE [i \in DOMAIN PiecesIn(cf, d) |-> Algorithm(cf.algorithm, d)]

\* Loses of the configuration cf, and RoundTrip of one value and its form.
LosesIn(cf, form, d) ==
  \/ /\ form.mark = "02" /\ cf.EnableParallel /\ ~cf.EnableMixedMode
     /\ PieceCount(d, cf.ChunkSize) > cf.MaxParallelism /\ Len(d) % cf.MaxParallelism # 0
  \/ form = Raw(d) /\ Misread(d)

Reads(cf, d, form) == Decompress(form) = d <=> ~LosesIn(cf, form, d)

\* A call holds the pieces of its value, results that are the blobs of their pieces, and
\* in the end a slice whose form can be read unless its buffer was filled again.
CallHolds(cf, r) ==
  /\ r.at \in {"idle", "missed", "sending", "returned"}
  /\ r.at \in {"missed", "sending"} => r.data \in Inputs
  /\ r.at = "sending" =>
       ~cf.EnableMixedMode /\ r.jobs = Jobs(PiecesIn(cf, r.data), AlgosIn(cf, r.data))
  /\ \A i \in DOMAIN r.results : r.results[i] = Blob(r.jobs[i].data, r.jobs[i].algo)
  /\ r.at = "returned" /\ ~r.slice.spoilt => Reads(cf, r.data, r.slice.form)

CacheHolds == cache \in Seq(Entries) /\ Len(cache) <= config.CacheSize

Bounded ==
  /\ config \in Configs
  /\ Len(pool) <= config.pool
  /\ closing \in {"open", "cancelled", "closed"}
  /\ nils \in 0 .. config.MaxParallelism
  /\ crashed \in BOOLEAN
  /\ calls \in 0 .. MaxCalls

ValueInv ==
  /\ CompInv /\ CacheHolds /\ Bounded
  /\ \A c \in Callers : CallHolds(config, call[c])
---------------------------------------------------------------------------
\* A form without a marker has one blob.
LEMMA OneBlob ==
  ASSUME NEW d, NEW algo, NEW form,
         form = Form("none", Jobs(<<d>>, <<algo>>), Blobs(Jobs(<<d>>, <<algo>>)))
  PROVE  form.mark = "none" /\ form.parts[1].blob = Blob(d, algo)
<1>1. PICK jobs : jobs = Jobs(<<d>>, <<algo>>)
  OBVIOUS
<1>2. DOMAIN jobs = {1} /\ jobs[1].data = d /\ jobs[1].algo = algo
  BY <1>1 DEF Jobs
<1>3. PICK blobs : blobs = Blobs(jobs)
  OBVIOUS
<1>4. blobs[1] = Blob(d, algo)
  BY <1>2, <1>3 DEF Blobs
<1>5. form.mark = "none"
      /\ form.parts = [i \in DOMAIN jobs |->
                        [algo |-> jobs[i].algo, size |-> Len(jobs[i].data), blob |-> blobs[i]]]
  BY <1>1, <1>3 DEF Form
<1> QED
  BY <1>2, <1>4, <1>5

\* A value stored as it is is read back unless its beginning misleads Decompress.
LEMMA RawRead ==
  ASSUME NEW cf, NEW d \in Seq(Bytes)
  PROVE  Reads(cf, d, Raw(d))
<1>1. PICK form : form = Raw(d)
  OBVIOUS
<1>2. form.mark = "none" /\ form.parts[1].blob = Blob(d, "none")
  BY <1>1, OneBlob DEF Raw
<1>3. Decompress(form) = ReadRaw(d)
  BY <1>2 DEF Decompress, Blob
<1>4. ~Misread(d) => ReadRaw(d) = d
  BY DEF ReadRaw
<1>5. Misread(d) => ReadRaw(d) # d
  <2>1. CASE d # <<>> /\ d[1] = "01"
    BY <2>1 DEF ReadRaw
  <2>2. CASE d # <<>> /\ d[1] \in {"02", "03"}
    <3>1. ReadRaw(d) = Failed /\ Failed[1] = "error"
      BY <2>2 DEF ReadRaw, Misread, Failed
    <3> QED
      BY <2>2, <3>1
  <2>3. CASE d = <<"gz">>
    <3>1. ReadRaw(d) = Inside /\ Inside[1] = "a" /\ d[1] = "gz"
      BY <2>3 DEF ReadRaw, Misread, Inside
    <3> QED
      BY <3>1
  <2> QED
    BY <2>1, <2>2, <2>3 DEF Misread
<1> QED
  BY <1>1, <1>2, <1>3, <1>4, <1>5 DEF Reads, LosesIn

LEMMA PlainRead ==
  ASSUME NEW cf, NEW d, NEW algo, algo # "none"
  PROVE  Reads(cf, d, Plain(d, algo))
<1>1. PICK form : form = Plain(d, algo)
  OBVIOUS
<1>2. form.mark = "none" /\ form.parts[1].blob = Blob(d, algo)
  BY <1>1, OneBlob DEF Plain
<1>3. Decompress(form) = d
  BY <1>2 DEF Decompress, Blob
<1>4. PICK raw : raw = Raw(d)
  OBVIOUS
<1>5. raw.parts[1].blob = Blob(d, "none")
  BY <1>4, OneBlob DEF Raw
<1>6. form # raw
  BY <1>2, <1>5 DEF Blob
<1> QED
  BY <1>1, <1>2, <1>3, <1>4, <1>6 DEF Reads, LosesIn

\* A container is not a value stored as it is.
LEMMA NotRaw ==
  ASSUME NEW form, NEW d, form.mark # "none"
  PROVE  form # Raw(d)
<1>1. PICK raw : raw = Raw(d)
  OBVIOUS
<1>2. raw.mark = "none"
  BY <1>1, OneBlob DEF Raw
<1> QED
  BY <1>1, <1>2

\* The choice of an algorithm always ends with one.
LEMMA AlgorithmChosen ==
  ASSUME NEW fixed \in Algorithms, NEW d
  PROVE  Algorithm(fixed, d) \in Algorithms \ {"none"}
  BY DEF Algorithm, Algorithms

LEMMA MixedRead ==
  ASSUME NEW cf, NEW d \in Seq(Bytes), NEW size \in Nat, size # 0, NEW fixed
  PROVE  Reads(cf, d, Mixed(d, size, fixed))
<1>1. PICK n : n = PieceCount(d, size)
  OBVIOUS
<1>2. n \in Nat
  BY <1>1, PieceCountFacts
<1>3. PICK pieces : pieces = AllPieces(d, size)
  OBVIOUS
<1>4. pieces \in Seq(Seq(Bytes))
  BY <1>1, <1>2, <1>3, PiecesAre DEF AllPieces
<1>5. PICK algos : algos = Chosen(fixed, pieces)
  OBVIOUS
<1>6. PICK jobs : jobs = Jobs(pieces, algos)
  OBVIOUS
<1>7. PICK blobs : blobs = Blobs(jobs)
  OBVIOUS
<1>8. \A i \in DOMAIN pieces : blobs[i] = Blob(pieces[i], algos[i])
  BY <1>6, <1>7 DEF Blobs, Jobs
<1>9. PICK form : form = Form("01", jobs, blobs)
  OBVIOUS
<1>10. Unpacked(form) = FlattenSeq(pieces)
  BY <1>4, <1>6, <1>8, <1>9, ContainerRead
<1>11. FlattenSeq(pieces) = d
  BY <1>3, AllJoined
<1>12. form.mark = "01"
  BY <1>9 DEF Form
<1>13. Decompress(form) = d
  BY <1>10, <1>11, <1>12 DEF Decompress
<1>14. Mixed(d, size, fixed) = form
  BY <1>3, <1>5, <1>6, <1>7, <1>9 DEF Mixed
<1>15. form # Raw(d)
  BY <1>12, NotRaw
<1> QED
  BY <1>12, <1>13, <1>14, <1>15 DEF Reads, LosesIn

LEMMA InputIs ==
  ASSUME NEW d \in Inputs
  PROVE  d \in Seq(Bytes)
  BY InputsAssumption

\* The pieces are values, no more of them than MaxJobs.
LEMMA PiecesInFacts ==
  ASSUME NEW cf \in Config, NEW d \in Seq(Bytes)
  PROVE  /\ PiecesIn(cf, d) \in Seq(Seq(Bytes))
         /\ Len(PiecesIn(cf, d)) <= PieceCount(d, cf.ChunkSize)
<1>1. PICK size : size = cf.ChunkSize
  OBVIOUS
<1>2. PICK most : most = cf.MaxParallelism
  OBVIOUS
<1>3. PICK n : n = PieceCount(d, size)
  OBVIOUS
<1>4. size \in Nat /\ size # 0 /\ most \in Nat /\ most # 0
  BY <1>1, <1>2 DEF Config
<1>5. n \in Nat
  BY <1>3, <1>4, PieceCountFacts
<1>6. AllPieces(d, size) \in Seq(Seq(Bytes)) /\ Len(AllPieces(d, size)) = n
  BY <1>3, <1>4, <1>5, PiecesAre DEF AllPieces
<1>7. Len(d) \div most \in Nat
  BY <1>4
<1>8. Pieces(d, Len(d) \div most, most) \in Seq(Seq(Bytes))
      /\ Len(Pieces(d, Len(d) \div most, most)) = most
  BY <1>4, <1>7, PiecesAre
<1>9. FewPieces(d, size, most) \in Seq(Seq(Bytes)) /\ Len(FewPieces(d, size, most)) <= n
  BY <1>3, <1>4, <1>5, <1>6, <1>8 DEF FewPieces
<1> QED
  BY <1>1, <1>2, <1>3, <1>5, <1>6, <1>9 DEF PiecesIn

LEMMA JobsAre ==
  ASSUME NEW pieces \in Seq(Seq(Bytes)), NEW algos
  PROVE  /\ DOMAIN Jobs(pieces, algos) = DOMAIN pieces
         /\ Len(Jobs(pieces, algos)) = Len(pieces)
         /\ \A i \in DOMAIN pieces :
              Jobs(pieces, algos)[i].data = pieces[i] /\ Jobs(pieces, algos)[i].algo = algos[i]
<1>1. PICK jobs : jobs = Jobs(pieces, algos)
  OBVIOUS
<1>2. jobs = [i \in DOMAIN pieces |-> [data |-> pieces[i], algo |-> algos[i]]]
  BY <1>1 DEF Jobs
<1>3. DOMAIN pieces = 1 .. Len(pieces) /\ Len(pieces) \in Nat
  OBVIOUS
<1>4. DOMAIN jobs = 1 .. Len(pieces)
  BY <1>2, <1>3
<1>5. jobs = [i \in 1 .. Len(pieces) |-> jobs[i]]
  BY <1>2, <1>3
<1>6. Len(jobs) = Len(pieces)
  BY <1>3, <1>5, AsSequence
<1> QED
  BY <1>1, <1>2, <1>3, <1>4, <1>6

\* When every piece has its blob, the container is read as the value, or as the value up to
\* where compressParallel stops cutting.
\* A tail that is cut off is missing.
LEMMA TailCut ==
  ASSUME NEW d \in Seq(Bytes), NEW n \in Nat, n # 0, Len(d) % n # 0
  PROVE  SubSeq(d, 1, n * (Len(d) \div n)) # d
<1>1. PICK l \in Nat : l = Len(d)
  OBVIOUS
<1>2. PICK q : q = l \div n
  OBVIOUS
<1>3. PICK r : r = l % n
  OBVIOUS
<1>4. q \in Nat /\ r \in Nat /\ r # 0 /\ l = n * q + r
  BY <1>1, <1>2, <1>3
<1>5. PICK m : m = n * q
  OBVIOUS
<1>6. m \in Nat /\ m < l
  BY <1>4, <1>5
<1>7. Len(SubSeq(d, 1, m)) = m
  BY <1>1, <1>6
<1> QED
  BY <1>1, <1>2, <1>5, <1>6, <1>7

LEMMA CutRead ==
  ASSUME NEW cf \in Config, NEW d \in Seq(Bytes), NEW jobs, NEW results, NEW mark,
         mark = IF cf.EnableParallel THEN "02" ELSE "03", ~cf.EnableMixedMode,
         jobs = Jobs(PiecesIn(cf, d), AlgosIn(cf, d)),
         \A i \in DOMAIN jobs : results[i] = Blob(jobs[i].data, jobs[i].algo)
  PROVE  Reads(cf, d, Form(mark, jobs, results))
<1>1. PICK pieces : pieces = PiecesIn(cf, d)
  OBVIOUS
<1>2. PICK algos : algos = AlgosIn(cf, d)
  OBVIOUS
<1>3. pieces \in Seq(Seq(Bytes))
  BY <1>1, PiecesInFacts
<1>4. \A i \in DOMAIN pieces : results[i] = Blob(pieces[i], algos[i])
  BY <1>1, <1>2, <1>3, JobsAre
<1>5. PICK form : form = Form(mark, jobs, results)
  OBVIOUS
<1>6. Unpacked(form) = FlattenSeq(pieces)
  BY <1>1, <1>2, <1>3, <1>4, <1>5, ContainerRead
<1>7. form.mark = mark /\ form # Raw(d)
  <2>1. form.mark = mark
    BY <1>5 DEF Form
  <2> QED
    BY <2>1, NotRaw
<1>8. Decompress(form) = FlattenSeq(pieces)
  BY <1>6, <1>7 DEF Decompress
<1>9. PICK size : size = cf.ChunkSize
  OBVIOUS
<1>10. PICK most : most = cf.MaxParallelism
  OBVIOUS
<1>11. size \in Nat /\ size # 0 /\ most \in Nat /\ most # 0
  BY <1>9, <1>10 DEF Config
<1>12. CASE ~cf.EnableParallel
  <2>1. FlattenSeq(pieces) = d
    BY <1>1, <1>9, <1>11, <1>12, AllJoined DEF PiecesIn
  <2> QED
    BY <1>5, <1>7, <1>8, <1>12, <2>1 DEF Reads, LosesIn
<1>13. CASE cf.EnableParallel
  <2>1. FlattenSeq(pieces) =
          IF PieceCount(d, size) > most THEN SubSeq(d, 1, most * (Len(d) \div most)) ELSE d
    BY <1>1, <1>9, <1>10, <1>11, <1>13, FewJoined DEF PiecesIn
  <2>2. CASE ~(PieceCount(d, size) > most)
    BY <1>5, <1>7, <1>8, <1>9, <1>10, <2>1, <2>2 DEF Reads, LosesIn
  <2>3. CASE PieceCount(d, size) > most /\ Len(d) % most # 0
    <3>1. SubSeq(d, 1, most * (Len(d) \div most)) # d
      BY <1>11, <2>3, TailCut
    <3> QED
      BY <1>5, <1>7, <1>8, <1>9, <1>10, <1>13, <2>1, <2>3, <3>1 DEF Reads, LosesIn
  <2>4. CASE PieceCount(d, size) > most /\ Len(d) % most = 0
    <3>1. PICK n : n = Len(d) \div most
      OBVIOUS
    <3>2. Len(d) \in Nat /\ most * n = Len(d)
      BY <1>11, <2>4, <3>1
    <3>3. SubSeq(d, 1, Len(d)) = d
      OBVIOUS
    <3> QED
      BY <1>5, <1>7, <1>8, <1>9, <1>10, <2>1, <2>4, <3>1, <3>2, <3>3 DEF Reads, LosesIn
  <2> QED
    BY <2>2, <2>3, <2>4
<1> QED
  BY <1>12, <1>13
---------------------------------------------------------------------------
\* RemoveAt takes one element out.
LEMMA RemovedFacts ==
  ASSUME NEW S, NEW s \in Seq(S), NEW n \in DOMAIN s
  PROVE  RemoveAt(s, n) \in Seq(S) /\ Len(RemoveAt(s, n)) = Len(s) - 1
<1> DEFINE a == SubSeq(s, 1, n - 1)
           b == SubSeq(s, n + 1, Len(s))
<1>1. n \in 1 .. Len(s) /\ Len(s) \in Nat
  OBVIOUS
<1>2. a \in Seq(S) /\ Len(a) = n - 1
  BY <1>1
<1>3. b \in Seq(S) /\ Len(b) = Len(s) - n
  BY <1>1
<1> HIDE DEF a, b
<1>4. a \o b \in Seq(S) /\ Len(a \o b) = Len(s) - 1
  BY <1>1, <1>2, <1>3
<1> QED
  BY <1>4 DEF RemoveAt, a, b

\* At most one entry gives way to a new one of its value.
LEMMA WithoutFacts ==
  ASSUME NEW S, NEW s \in Seq(S), NEW d
  PROVE  Without(s, d) \in Seq(S) /\ Len(Without(s, d)) <= Len(s)
<1>1. CASE Hits(s, d) = {}
  BY <1>1 DEF Without
<1>2. CASE Hits(s, d) # {}
  <2>1. PICK n : n = CHOOSE i \in Hits(s, d) : TRUE
    OBVIOUS
  <2>2. n \in DOMAIN s
    BY <1>2, <2>1 DEF Hits
  <2> QED
    BY <1>2, <2>1, <2>2, RemovedFacts DEF Without
<1> QED
  BY <1>1, <1>2

\* An insertion evicts before it inserts, so the cache never has more than CacheSize entries.
LEMMA CacheSetHolds ==
  ASSUME CacheHolds, config \in Config, UNCHANGED config, NEW d, NEW slice, CacheSet(d, slice),
         [key |-> d, slice |-> slice] \in Entries
  PROVE  CacheHolds'
<1>1. CASE ~config.EnableCache
  BY <1>1 DEF CacheHolds, CacheSet
<1>2. CASE config.EnableCache
  <2>1. PICK size : size = config.CacheSize
    OBVIOUS
  <2>2. PICK s : s = Kept
    OBVIOUS
  <2>3. size \in Nat /\ size # 0
    BY <2>1 DEF Config
  <2>4. cache \in Seq(Entries) /\ Len(cache) <= size /\ Len(cache) \in Nat
    BY <2>1 DEF CacheHolds
  <2>5. s \in Seq(Entries) /\ Len(s) < size
    <3>1. CASE Len(cache) >= size
      BY <2>1, <2>2, <2>3, <2>4, <3>1 DEF Kept
    <3>2. CASE ~(Len(cache) >= size)
      BY <2>1, <2>2, <2>3, <2>4, <3>2 DEF Kept
    <3> QED
      BY <3>1, <3>2
  <2>6. PICK t : t = Without(s, d)
    OBVIOUS
  <2>7. t \in Seq(Entries) /\ Len(t) <= Len(s)
    BY <2>5, <2>6, WithoutFacts
  <2>8. cache' = Append(t, [key |-> d, slice |-> slice])
    BY <1>2, <2>2, <2>6 DEF CacheSet
  <2>9. cache' \in Seq(Entries) /\ Len(cache') <= size
    BY <2>3, <2>5, <2>7, <2>8
  <2> QED
    BY <2>1, <2>9 DEF CacheHolds
<1> QED
  BY <1>1, <1>2

\* What the cache has of a value can be read unless its buffer was filled again.
LEMMA EntryRead ==
  ASSUME NEW cf, NEW e \in Entries
  PROVE  e.key \in Inputs /\ (~e.slice.spoilt => Reads(cf, e.key, e.slice.form))
<1>1. e.key \in Inputs /\ (~e.slice.spoilt => FormOf(e.slice.form, e.key))
  BY DEF Entries
<1>2. CASE e.slice.form = Raw(e.key)
  BY <1>1, <1>2, RawRead, InputIs
<1>3. CASE \E algo \in Algorithms \ {"none"} : e.slice.form = Plain(e.key, algo)
  BY <1>1, <1>3, PlainRead
<1> QED
  BY <1>1, <1>2, <1>3 DEF FormOf

\* A call that has returned or not begun to send.
LEMMA JoblessHolds ==
  ASSUME NEW cf, NEW at, NEW d, NEW slice,
         \/ at = "idle"
         \/ at = "missed" /\ d \in Inputs
         \/ at = "returned" /\ (~slice.spoilt => Reads(cf, d, slice.form))
  PROVE  CallHolds(cf, Jobless(at, d, slice))
<1>1. PICK r : r = Jobless(at, d, slice)
  OBVIOUS
<1>2. /\ r.at = at /\ r.data = d /\ r.results = <<>> /\ r.slice = slice
  BY <1>1 DEF Jobless
<1>3. DOMAIN r.results = {}
  BY <1>2
<1>4. CallHolds(cf, r)
  BY <1>2, <1>3 DEF CallHolds
<1> QED
  BY <1>1, <1>4

\* One call changes, and holds what it should.
LEMMA CallsHold ==
  ASSUME CompInv, \A b \in Callers : CallHolds(config, call[b]), UNCHANGED config,
         NEW c \in Callers, NEW r, call' = [call EXCEPT ![c] = r], CallHolds(config, r)
  PROVE  \A b \in Callers : CallHolds(config', call'[b])
<1>1. call'[c] = r /\ \A b \in Callers : b # c => call'[b] = call[b]
  BY DEF CompInv, CallsShaped
<1> QED
  BY <1>1

\* A value stored as it is, in a buffer filled with another one, is one of the two mixed.
LEMMA OverwrittenIs ==
  ASSUME NEW old \in Seq(Bytes), NEW d \in Seq(Bytes)
  PROVE  Overwritten(old, d) \in Seq(Bytes)
<1>1. \A i \in DOMAIN old : (IF i <= Len(d) THEN d[i] ELSE old[i]) \in Bytes
  OBVIOUS
<1>2. Overwritten(old, d) = [i \in 1 .. Len(old) |-> IF i <= Len(d) THEN d[i] ELSE old[i]]
  BY DEF Overwritten
<1>3. Overwritten(old, d) \in [1 .. Len(old) -> Bytes]
  BY <1>1, <1>2
<1> QED
  BY <1>3

\* An entry stays one when a buffer is filled again or given up.
LEMMA EntryRefilled ==
  ASSUME NEW e \in Entries, NEW c \in Callers, NEW d \in Inputs, NEW reuse
  PROVE  [e EXCEPT !.slice = Refilled(e.slice, c, d, reuse)] \in Entries
<1>1. PICK s : s = e.slice
  OBVIOUS
<1>2. /\ e.key \in Inputs /\ s \in Slices
      /\ s.owner # None => s.form \in RawForms
      /\ ~s.spoilt => FormOf(s.form, e.key)
  BY <1>1 DEF Entries
<1>3. PICK t : t = Refilled(s, c, d, reuse)
  OBVIOUS
<1>4. /\ t \in Slices
      /\ t.owner # None => t.form \in RawForms
      /\ ~t.spoilt => ~s.spoilt /\ t.form = s.form
  <2>1. CASE s.owner # c
    BY <1>2, <1>3, <2>1 DEF Refilled
  <2>2. CASE s.owner = c /\ reuse
    <3>1. s.form \in RawForms
      BY <1>2, <2>2, NoneAssumption
    <3>2. PICK old \in Seq(Bytes) : s.form = Raw(old)
      BY <3>1 DEF RawForms
    <3>3. PICK form : form = s.form
      OBVIOUS
    <3>4. form.parts[1].blob = Blob(old, "none")
      BY <3>2, <3>3, OneBlob DEF Raw
    <3>5. form.parts[1].blob.of = old
      BY <3>4 DEF Blob
    <3>6. PICK new \in Seq(Bytes) : new = Overwritten(old, d)
      BY OverwrittenIs, InputIs
    <3>7. t = [form |-> Raw(new), owner |-> c, spoilt |-> TRUE]
      BY <1>3, <2>2, <3>3, <3>5, <3>6 DEF Refilled
    <3>8. Raw(new) \in RawForms
      BY DEF RawForms
    <3> QED
      BY <3>7, <3>8 DEF Slices, Forms
  <2>3. CASE s.owner = c /\ ~reuse
    <3>1. t = [form |-> s.form, owner |-> None, spoilt |-> s.spoilt]
      BY <1>3, <2>3 DEF Refilled
    <3> QED
      BY <1>2, <3>1 DEF Slices
  <2> QED
    BY <2>1, <2>2, <2>3
<1>5. PICK g : g = [e EXCEPT !.slice = t]
  OBVIOUS
<1>6. g \in [key : Inputs, slice : Slices] /\ g.slice = t /\ g.key = e.key
  BY <1>2, <1>4, <1>5 DEF Entries
<1>7. g \in Entries
  BY <1>2, <1>4, <1>6 DEF Entries
<1> QED
  BY <1>1, <1>3, <1>5, <1>7

\* So does what a call holds.
LEMMA CallRefilled ==
  ASSUME NEW cf, NEW q, CallShape(q), CallHolds(cf, q), NEW c, NEW d, NEW reuse
  PROVE  CallHolds(cf, [q EXCEPT !.slice = Refilled(@, c, d, reuse)])
<1>1. PICK t : t = Refilled(q.slice, c, d, reuse)
  OBVIOUS
<1>2. ~t.spoilt => ~q.slice.spoilt /\ t.form = q.slice.form
  BY <1>1 DEF Refilled
<1>3. PICK r : r = [q EXCEPT !.slice = t]
  OBVIOUS
<1>4. /\ r.at = q.at /\ r.data = q.data /\ r.jobs = q.jobs /\ r.results = q.results
      /\ r.slice = t
  BY <1>3 DEF CallShape
<1>5. CallHolds(cf, r)
  BY <1>2, <1>4 DEF CallHolds
<1> QED
  BY <1>1, <1>3, <1>5

LEMMA StartCallHolds ==
  ASSUME ValueInv, NEW c \in Callers, NEW d \in Inputs, NEW reuse \in BOOLEAN,
         StartCall(c, d, reuse)
  PROVE  CacheHolds' /\ \A b \in Callers : CallHolds(config', call'[b])
<1>1. PICK entries :
        entries = [i \in DOMAIN cache |-> [cache[i] EXCEPT !.slice = Refilled(@, c, d, reuse)]]
  OBVIOUS
<1>2. cache' = entries /\ UNCHANGED config
  BY <1>1 DEF StartCall
<1>3. cache \in Seq(Entries) /\ Len(cache) <= config.CacheSize
  BY DEF ValueInv, CacheHolds
<1>4. \A i \in DOMAIN cache : entries[i] \in Entries
  <2> SUFFICES ASSUME NEW i \in DOMAIN cache
               PROVE  entries[i] \in Entries
    OBVIOUS
  <2>1. PICK e \in Entries : e = cache[i]
    BY <1>3
  <2>2. entries[i] = [e EXCEPT !.slice = Refilled(e.slice, c, d, reuse)]
    BY <1>1, <2>1
  <2> QED
    BY <2>2, EntryRefilled
<1>5. entries \in Seq(Entries) /\ Len(entries) = Len(cache)
  <2>1. PICK n \in Nat : n = Len(cache) /\ DOMAIN cache = 1 .. n
    BY <1>3
  <2>2. entries \in [1 .. n -> Entries] /\ entries = [i \in 1 .. n |-> entries[i]]
    BY <1>1, <1>4, <2>1
  <2>3. Len(entries) = n
    BY <2>2, AsSequence
  <2> QED
    BY <2>1, <2>2, <2>3
<1>6. CacheHolds'
  BY <1>2, <1>3, <1>5 DEF CacheHolds
<1>7. PICK mine :
        mine = IF config.EnableCache /\ Hits(entries, d) # {}
          THEN Jobless("returned", d, entries[CHOOSE i \in Hits(entries, d) : TRUE].slice)
          ELSE Jobless("missed", d, NoSlice)
  OBVIOUS
<1>8. call' = [b \in Callers |->
           IF b # c THEN [call[b] EXCEPT !.slice = Refilled(@, c, d, reuse)] ELSE mine]
  BY <1>1, <1>7 DEF StartCall
<1>9. CallHolds(config, mine)
  <2>1. CASE config.EnableCache /\ Hits(entries, d) # {}
    <3>1. PICK i : i = CHOOSE n \in Hits(entries, d) : TRUE
      OBVIOUS
    <3>2. i \in DOMAIN entries /\ entries[i].key = d
      BY <2>1, <3>1 DEF Hits
    <3>3. PICK slice : slice = entries[i].slice
      OBVIOUS
    <3>4. ~slice.spoilt => Reads(config, d, slice.form)
      BY <1>5, <3>2, <3>3, EntryRead
    <3> QED
      BY <1>7, <2>1, <3>1, <3>3, <3>4, JoblessHolds
  <2>2. CASE ~(config.EnableCache /\ Hits(entries, d) # {})
    BY <1>7, <2>2, JoblessHolds
  <2> QED
    BY <2>1, <2>2
<1>10. ASSUME NEW b \in Callers
      PROVE  CallHolds(config, call'[b])
  <2>1. CallShape(call[b]) /\ CallHolds(config, call[b])
    BY DEF ValueInv, CompInv, CallsShaped
  <2> QED
    BY <1>9, <1>8, <2>1, CallRefilled
<1> QED
  BY <1>2, <1>6, <1>10

\* A call that returns a form that can be read.
LEMMA ReturnHolds ==
  ASSUME ValueInv, NEW c \in Callers, NEW form, NEW owner,
         call' = Returned(c, Slice(form, owner)),
         Reads(config, call[c].data, form), UNCHANGED config
  PROVE  \A b \in Callers : CallHolds(config', call'[b])
<1>1. call' = [call EXCEPT ![c] = Jobless("returned", call[c].data, Slice(form, owner))]
  BY DEF Returned
<1>2. CallHolds(config, Jobless("returned", call[c].data, Slice(form, owner)))
  BY JoblessHolds DEF Slice
<1> QED
  BY <1>1, <1>2, CallsHold DEF ValueInv

\* A call that has cut its value has no results yet.
LEMMA CutHolds ==
  ASSUME ValueInv, NEW c \in Callers, call[c].at = "missed", ~config.EnableMixedMode,
         NEW jobs, CutIntoJobs(c, jobs), UNCHANGED config,
         jobs = Jobs(PiecesIn(config, call[c].data), AlgosIn(config, call[c].data))
  PROVE  CacheHolds' /\ \A b \in Callers : CallHolds(config', call'[b])
<1>1. CacheHolds'
  BY DEF ValueInv, CacheHolds, CutIntoJobs
<1>2. PICK q : q = call[c]
  OBVIOUS
<1>3. CallShape(q) /\ CallHolds(config, q)
  BY <1>2 DEF ValueInv, CompInv, CallsShaped
<1>4. DOMAIN q.results = {}
  BY <1>2, <1>3 DEF CallShape
<1>5. PICK r : r = [q EXCEPT !.at = "sending", !.jobs = jobs]
  OBVIOUS
<1>6. /\ r.at = "sending" /\ r.data = q.data /\ r.jobs = jobs /\ r.results = q.results
  BY <1>3, <1>5 DEF CallShape
<1>7. CallHolds(config, r)
  BY <1>2, <1>3, <1>4, <1>6 DEF CallHolds
<1>8. call' = [call EXCEPT ![c] = r]
  BY <1>2, <1>5 DEF CutIntoJobs
<1> QED
  BY <1>1, <1>7, <1>8, CallsHold DEF ValueInv

LEMMA CompressHolds ==
  ASSUME ValueInv, NEW c \in Callers, Compress(c)
  PROVE  CacheHolds' /\ \A b \in Callers : CallHolds(config', call'[b])
<1>1. PICK d : d = call[c].data
  OBVIOUS
<1>2. call[c].at = "missed" /\ UNCHANGED config /\ d \in Inputs /\ config \in Config
  BY <1>1 DEF Compress, ValueInv, CallHolds, CompInv
<1>3. CASE KeepRaw(c)
  <2>1. [key |-> d, slice |-> Slice(Raw(d), c)] \in Entries
    <3>1. Raw(d) \in RawForms
      BY <1>2, InputIs DEF RawForms
    <3> QED
      BY <1>2, <3>1 DEF Entries, Slices, Forms, Slice, FormOf
  <2>2. CacheHolds'
    BY <1>1, <1>2, <1>3, <2>1, CacheSetHolds DEF KeepRaw, ValueInv
  <2>3. Reads(config, d, Raw(d))
    BY <1>2, RawRead, InputIs
  <2> QED
    BY <1>1, <1>2, <1>3, <2>2, <2>3, ReturnHolds DEF KeepRaw
<1>4. CASE CompressMixed(c)
  <2>1. PICK form : form = Mixed(d, config.ChunkSize, config.algorithm)
    OBVIOUS
  <2>2. config.ChunkSize \in Nat /\ config.ChunkSize # 0
    BY <1>2 DEF Config
  <2>3. Reads(config, d, form)
    BY <1>2, <2>1, <2>2, InputIs, MixedRead
  <2>4. call' = Returned(c, Slice(form, None)) /\ CacheHolds'
    BY <1>1, <1>2, <1>4, <2>1 DEF CompressMixed, CacheHolds, ValueInv
  <2> QED
    BY <1>1, <1>2, <2>3, <2>4, ReturnHolds
<1>5. CASE CompressPlain(c)
  <2>1. PICK algo : algo = Algorithm(config.algorithm, d)
    OBVIOUS
  <2>2. algo \in Algorithms \ {"none"}
    BY <1>2, <2>1, AlgorithmChosen DEF Config
  <2>3. [key |-> d, slice |-> Slice(Plain(d, algo), None)] \in Entries
    BY <1>2, <2>2 DEF Entries, Slices, Forms, Slice, FormOf
  <2>4. /\ call' = Returned(c, Slice(Plain(d, algo), None))
        /\ CacheSet(d, Slice(Plain(d, algo), None))
    BY <1>1, <1>5, <2>1 DEF CompressPlain
  <2>5. CacheHolds'
    BY <1>2, <2>3, <2>4, CacheSetHolds DEF ValueInv
  <2>6. Reads(config, d, Plain(d, algo))
    BY <2>2, PlainRead
  <2> QED
    BY <1>1, <1>2, <2>4, <2>5, <2>6, ReturnHolds
<1>6. CASE ~config.EnableMixedMode /\ config.EnableParallel /\ CutIntoJobs(c, ParallelJobs(d))
  <2>1. ParallelJobs(d) = Jobs(PiecesIn(config, d), AlgosIn(config, d))
    BY <1>6 DEF ParallelJobs, PiecesIn, AlgosIn
  <2> QED
    BY <1>1, <1>2, <1>6, <2>1, CutHolds
<1>7. CASE ~config.EnableMixedMode /\ ~config.EnableParallel /\ CutIntoJobs(c, StreamJobs(d))
  <2>1. StreamJobs(d) = Jobs(PiecesIn(config, d), AlgosIn(config, d))
    BY <1>7 DEF StreamJobs, PiecesIn, AlgosIn
  <2> QED
    BY <1>1, <1>2, <1>7, <2>1, CutHolds
<1> QED
  BY <1>1, <1>3, <1>4, <1>5, <1>6, <1>7 DEF Compress
---------------------------------------------------------------------------
LEMMA SendJobHolds ==
  ASSUME ValueInv, NEW c \in Callers, SendJob(c)
  PROVE  CacheHolds' /\ \A b \in Callers : CallHolds(config', call'[b])
<1>1. CacheHolds'
  BY DEF ValueInv, CacheHolds, SendJob
<1>2. PICK q : q = call[c]
  OBVIOUS
<1>3. CallShape(q) /\ CallHolds(config, q)
  BY <1>2 DEF ValueInv, CompInv, CallsShaped
<1>4. PICK r : r = [q EXCEPT !.sent = q.sent + 1]
  OBVIOUS
<1>5. r.at = q.at /\ r.data = q.data /\ r.jobs = q.jobs /\ r.results = q.results
      /\ r.slice = q.slice
  BY <1>3, <1>4 DEF CallShape
<1>6. CallHolds(config, r)
  BY <1>3, <1>5 DEF CallHolds
<1>7. call' = [call EXCEPT ![c] = r] /\ UNCHANGED config
  BY <1>2, <1>4 DEF SendJob
<1> QED
  BY <1>1, <1>6, <1>7, CallsHold DEF ValueInv

\* When there is a result for every job, the container can be read.
LEMMA CollectHolds ==
  ASSUME ValueInv, NEW c \in Callers, Collect(c)
  PROVE  CacheHolds' /\ \A b \in Callers : CallHolds(config', call'[b])
<1>1. CacheHolds'
  BY DEF ValueInv, CacheHolds, Collect
<1>2. PICK q : q = call[c]
  OBVIOUS
<1>3. CallShape(q) /\ CallHolds(config, q) /\ config \in Config
  BY <1>2 DEF ValueInv, CompInv, CallsShaped
<1>4. PICK mark : mark = IF config.EnableParallel THEN "02" ELSE "03"
  OBVIOUS
<1>5. PICK form : form = Form(mark, q.jobs, q.results)
  OBVIOUS
<1>6. /\ q.at = "sending" /\ DOMAIN q.jobs \subseteq DOMAIN q.results
      /\ call' = Returned(c, Slice(form, None)) /\ UNCHANGED config
  BY <1>2, <1>4, <1>5 DEF Collect
<1>7. /\ ~config.EnableMixedMode /\ q.data \in Inputs
      /\ q.jobs = Jobs(PiecesIn(config, q.data), AlgosIn(config, q.data))
      /\ \A i \in DOMAIN q.jobs : q.results[i] = Blob(q.jobs[i].data, q.jobs[i].algo)
  BY <1>3, <1>6 DEF CallHolds
<1>8. Reads(config, q.data, form)
  BY <1>3, <1>4, <1>5, <1>7, InputIs, CutRead
<1> QED
  BY <1>1, <1>2, <1>6, <1>8, ReturnHolds

\* A worker gives the blob of the piece its job names.
LEMMA FinishJobHolds ==
  ASSUME ValueInv, NEW w \in Workers, FinishJob(w)
  PROVE  CacheHolds' /\ \A b \in Callers : CallHolds(config', call'[b])
<1>1. CacheHolds'
  BY DEF ValueInv, CacheHolds, FinishJob
<1>2. PICK j : j = hands[w]
  OBVIOUS
<1>3. PICK c : c = j.caller
  OBVIOUS
<1>4. c \in Callers
  BY <1>2, <1>3, ToExact, HeldCallers DEF ValueInv, FinishJob
<1>5. PICK q : q = call[c]
  OBVIOUS
<1>6. CallShape(q) /\ CallHolds(config, q)
  BY <1>4, <1>5 DEF ValueInv, CompInv, CallsShaped
<1>7. PICK i : i = j.id
  OBVIOUS
<1>8. PICK blob : blob = Blob(q.jobs[i].data, q.jobs[i].algo)
  OBVIOUS
<1>9. PICK done : done = Done(q.results, i, blob)
  OBVIOUS
<1>10. \A n \in DOMAIN done : done[n] = Blob(q.jobs[n].data, q.jobs[n].algo)
  <2>1. done = [n \in DOMAIN q.results \cup {i} |-> IF n = i THEN blob ELSE q.results[n]]
    BY <1>9 DEF Done
  <2> QED
    BY <1>6, <1>8, <2>1 DEF CallHolds
<1>11. PICK r : r = [q EXCEPT !.results = done]
  OBVIOUS
<1>12. r.at = q.at /\ r.data = q.data /\ r.jobs = q.jobs /\ r.results = done
       /\ r.slice = q.slice
  BY <1>6, <1>11 DEF CallShape
<1>13. CallHolds(config, r)
  BY <1>6, <1>10, <1>12 DEF CallHolds
<1>14. call' = [call EXCEPT ![c] = r] /\ UNCHANGED config
  BY <1>2, <1>3, <1>5, <1>7, <1>8, <1>9, <1>11 DEF FinishJob
<1> QED
  BY <1>1, <1>4, <1>13, <1>14, CallsHold DEF ValueInv

\* Steps that touch neither the cache nor the calls.
LEMMA OthersHold ==
  ASSUME ValueInv, UNCHANGED <<config, cache, call>>
  PROVE  CacheHolds' /\ \A b \in Callers : CallHolds(config', call'[b])
  BY DEF ValueInv, CacheHolds

\* The channel takes an item only when it has room, a nil only while some are to be sent,
\* and a call begins only within the bound.
LEMMA BoundedNext ==
  ASSUME ValueInv, [Next]_vars
  PROVE  Bounded'
<1>1. config \in Config /\ pool \in Seq(JobOf \cup {Nil}) /\ MaxCalls \in Nat
  BY CallBoundsAssumption DEF ValueInv, CompInv, Slots
<1>2. config.pool \in Nat /\ config.MaxParallelism \in Nat /\ Len(pool) \in Nat
  <2>1. config.MaxParallelism \in 1 .. Cardinality(Workers)
    BY <1>1 DEF Config
  <2> QED
    BY <1>1, <2>1 DEF Config
<1>3. /\ config \in Configs /\ Len(pool) <= config.pool
      /\ closing \in {"open", "cancelled", "closed"} /\ nils \in 0 .. config.MaxParallelism
      /\ crashed \in BOOLEAN /\ calls \in 0 .. MaxCalls
  BY DEF ValueInv, Bounded
<1>4. ASSUME NEW c \in Callers, NEW d \in Inputs, NEW reuse \in BOOLEAN,
            StartCall(c, d, reuse), UNCHANGED crashed
      PROVE  Bounded'
  <2>1. calls < MaxCalls /\ calls' = calls + 1 /\ UNCHANGED <<config, pool, closing, nils>>
    BY <1>4 DEF StartCall, closeVars
  <2> QED
    BY <1>1, <1>3, <1>4, <2>1 DEF Bounded
<1>5. ASSUME NEW c \in Callers, Compress(c) \/ Collect(c), UNCHANGED crashed
      PROVE  Bounded'
  <2>1. UNCHANGED <<config, pool, closing, nils, calls>>
    BY <1>5 DEF Compress, KeepRaw, CompressMixed, CutIntoJobs, CompressPlain, Collect, closeVars
  <2> QED
    BY <1>3, <1>5, <2>1 DEF Bounded
<1>6. ASSUME NEW c \in Callers, SendJob(c), UNCHANGED crashed
      PROVE  Bounded'
  <2>1. /\ Len(pool) < config.pool /\ pool' = Append(pool, Job(c, call[c].sent + 1))
        /\ UNCHANGED <<config, closing, nils, calls>>
    BY <1>6 DEF SendJob, HasRoom, closeVars
  <2>2. PICK j : j = Job(c, call[c].sent + 1)
    OBVIOUS
  <2>3. Len(pool') = Len(pool) + 1
    BY <1>1, <2>1, <2>2
  <2> QED
    BY <1>2, <1>3, <1>6, <2>1, <2>3 DEF Bounded
<1>7. ASSUME NEW c \in Callers, SendPanics(c)
      PROVE  Bounded'
  BY <1>3, <1>7 DEF Bounded, SendPanics, closeVars
<1>8. ASSUME NEW w \in Workers, TakeJob(w), UNCHANGED crashed
      PROVE  Bounded'
  <2>1. pool # <<>> /\ pool' = Tail(pool) /\ UNCHANGED <<config, closing, nils, calls>>
    BY <1>8 DEF TakeJob, closeVars
  <2>2. Len(pool') <= Len(pool)
    BY <1>1, <2>1
  <2>3. Len(pool') \in Nat
    BY <1>1, <2>1
  <2> QED
    BY <1>2, <1>3, <1>8, <2>1, <2>2, <2>3 DEF Bounded
<1>9. ASSUME NEW w \in Workers, Quit(w) \/ FinishJob(w), UNCHANGED crashed
      PROVE  Bounded'
  BY <1>3, <1>9 DEF Bounded, Quit, FinishJob, closeVars
<1>10. ASSUME CancelWorkers \/ CloseChannel, UNCHANGED crashed
       PROVE  Bounded'
  BY <1>3, <1>10 DEF Bounded, CancelWorkers, CloseChannel
<1>11. ASSUME SendNil, UNCHANGED crashed
       PROVE  Bounded'
  <2>1. /\ Len(pool) < config.pool /\ nils < config.MaxParallelism /\ pool' = Append(pool, Nil)
        /\ nils' = nils + 1 /\ UNCHANGED <<config, closing, calls>>
    BY <1>11 DEF SendNil, HasRoom
  <2>2. Len(pool') = Len(pool) + 1
    BY <1>1, <2>1
  <2> QED
    BY <1>2, <1>3, <1>11, <2>1, <2>2 DEF Bounded
<1>12. CASE UNCHANGED vars
  BY <1>3, <1>12 DEF Bounded, vars
<1> QED
  BY <1>4, <1>5, <1>6, <1>7, <1>8, <1>9, <1>10, <1>11, <1>12
     DEF Next, Alive, CallStep, WorkerStep, CloseStep

LEMMA ValueInit == Init => ValueInv
<1> SUFFICES ASSUME Init  PROVE ValueInv
  OBVIOUS
<1>1. CompInv /\ config \in Config
  BY InitInv DEF CompInv
<1>2. cache = <<>> /\ pool = <<>>
  BY DEF Init
<1>3. config.CacheSize \in Nat /\ config.pool \in Nat /\ config.MaxParallelism \in Nat
  <2>1. config.MaxParallelism \in 1 .. Cardinality(Workers)
    BY <1>1 DEF Config
  <2> QED
    BY <1>1, <2>1 DEF Config
<1>4. CacheHolds
  BY <1>2, <1>3 DEF CacheHolds
<1>5. Bounded
  <2>1. config \in Configs /\ closing = "open" /\ nils = 0 /\ crashed \in BOOLEAN /\ calls = 0
    BY DEF Init
  <2>2. Len(pool) = 0
    BY <1>2
  <2> QED
    BY <1>2, <1>3, <2>1, <2>2, CallBoundsAssumption DEF Bounded
<1>6. \A c \in Callers : CallHolds(config, call[c])
  <2>1. CallHolds(config, NoCall)
    BY JoblessHolds DEF NoCall
  <2> QED
    BY <2>1 DEF Init
<1> QED
  BY <1>1, <1>4, <1>5, <1>6 DEF ValueInv

LEMMA ValueNext == ValueInv /\ [Next]_vars => ValueInv'
<1> SUFFICES ASSUME ValueInv, [Next]_vars  PROVE ValueInv'
  OBVIOUS
<1>1. CompInv' /\ Bounded'
  BY NextInv, BoundedNext DEF ValueInv
<1> DEFINE Goal == CacheHolds' /\ \A b \in Callers : CallHolds(config', call'[b])
<1>2. ASSUME NEW c \in Callers, NEW d \in Inputs, NEW reuse \in BOOLEAN,
            StartCall(c, d, reuse)
      PROVE Goal
  BY <1>2, StartCallHolds
<1>3. ASSUME NEW c \in Callers, CallStep(c)  PROVE Goal
  BY <1>3, CompressHolds, SendJobHolds, CollectHolds DEF CallStep
<1>4. ASSUME NEW c \in Callers, SendPanics(c)  PROVE Goal
  BY <1>4, OthersHold DEF SendPanics
<1>5. ASSUME NEW w \in Workers, WorkerStep(w)  PROVE Goal
  <2>1. CASE FinishJob(w)
    BY <2>1, FinishJobHolds
  <2>2. CASE TakeJob(w) \/ Quit(w)
    BY <2>2, OthersHold DEF TakeJob, Quit
  <2> QED
    BY <1>5, <2>1, <2>2 DEF WorkerStep
<1>6. ASSUME CancelWorkers \/ CloseStep  PROVE Goal
  BY <1>6, OthersHold DEF CancelWorkers, CloseStep, SendNil, CloseChannel
<1>7. ASSUME UNCHANGED vars  PROVE Goal
  BY <1>7, OthersHold DEF vars
<1>8. Goal
  <2> HIDE DEF Goal
  <2> QED  BY <1>2, <1>3, <1>4, <1>5, <1>6, <1>7 DEF Next, Alive
<1> QED
  BY <1>1, <1>8 DEF ValueInv

\* ValueInv is inductive: whatever the configuration, however many callers and workers there
\* are, calls hold the jobs their values are cut into and the blobs of their own pieces, and
\* the cache holds slices, of which only those of a caller's buffer change, and only when it
\* is filled again (CompressWithSmartChoice, CompressionCache.set, worker).
THEOREM ValueInvariant == Spec => []ValueInv
  BY ValueInit, ValueNext, PTL DEF Spec

\* What CompressWithSmartChoice returns, from the cache or by any mode, Decompress turns back
\* into the value if, and only if, compressParallel left no tail of it uncut and it was not
\* stored as it is with a beginning like a stored form's: for values of any length, any
\* ChunkSize, number of workers and of callers, in whatever order the workers end their
\* jobs, and as long as nobody fills again the buffer the slice is a part of.
THEOREM ValuesComeBack == Spec => []RoundTrip
<1>1. ValueInv => RoundTrip
  BY DEF ValueInv, CallHolds, Reads, LosesIn, RoundTrip, Loses, TailLost
<1> QED
  BY <1>1, ValueInvariant, PTL

\* No call has more jobs than its value has pieces.
LEMMA FewJobs ==
  ASSUME ValueInv, NEW c \in Callers, call[c].at = "sending"
  PROVE  Len(call[c].jobs) <= MaxJobs
<1>1. PICK q : q = call[c]
  OBVIOUS
<1>2. PICK cf : cf = config
  OBVIOUS
<1>3. /\ cf \in Configs /\ cf \in Config /\ q.data \in Inputs
      /\ q.jobs = Jobs(PiecesIn(cf, q.data), AlgosIn(cf, q.data))
  BY <1>1, <1>2 DEF ValueInv, Bounded, CompInv, CallHolds
<1>4. PICK pieces : pieces = PiecesIn(cf, q.data)
  OBVIOUS
<1>5. pieces \in Seq(Seq(Bytes)) /\ Len(pieces) <= PieceCount(q.data, cf.ChunkSize)
  BY <1>3, <1>4, InputIs, PiecesInFacts
<1>6. Len(q.jobs) = Len(pieces)
  BY <1>3, <1>4, <1>5, JobsAre
<1>7. PICK n : n = PieceCount(q.data, cf.ChunkSize)
  OBVIOUS
<1>8. n <= MaxJobs /\ n \in Nat /\ Len(pieces) \in Nat /\ MaxJobs \in Nat
  <2>1. cf.ChunkSize \in Nat /\ cf.ChunkSize # 0
    BY <1>3 DEF Config
  <2>2. n \in Nat
    BY <1>3, <1>7, <2>1, InputIs, PieceCountFacts
  <2> QED
    BY <1>3, <1>5, <1>7, <2>2, PiecesAssumption, CallBoundsAssumption
<1> QED
  BY <1>1, <1>5, <1>6, <1>7, <1>8

\* So no item in the channel or in the hands of a worker has a larger number.
LEMMA AwaitedBound ==
  ASSUME ValueInv, NEW c \in Callers, NEW i \in Awaited(c)
  PROVE  i \in 1 .. MaxJobs
<1>1. PICK q : q = call[c]
  OBVIOUS
<1>2. CallShape(q) /\ i \in 1 .. q.sent
  BY <1>1 DEF ValueInv, CompInv, CallsShaped, Awaited
<1>3. q.at = "sending" /\ q.sent <= Len(q.jobs) /\ q.sent \in Nat /\ Len(q.jobs) \in Nat
  BY <1>2 DEF CallShape
<1>4. Len(q.jobs) <= MaxJobs
  BY <1>1, <1>3, FewJobs
<1> QED
  BY <1>2, <1>3, <1>4, CallBoundsAssumption

\* The types of the compressor's variables: the cache never holds more than CacheSize
\* entries, the channel no more than it has room for, and a call no more jobs than its value
\* has pieces (CompressionCache.set, startWorkerPool, compressParallel).
THEOREM TypeCorrect == Spec => []TypeOK
<1>1. ValueInv => TypeOK
  <2> SUFFICES ASSUME ValueInv  PROVE TypeOK
    OBVIOUS
  <2> DEFINE J == [caller : Callers, id : 1 .. MaxJobs]
  <2>1. Held(pool, hands) /\ Exact(pool, hands, Waiting)
        /\ \A c \in Callers : CallShape(call[c]) /\ Waiting[c] = Awaited(c)
    BY ToExact DEF ValueInv
  <2>2. \A n \in DOMAIN pool : pool[n] # Nil => pool[n] \in J
    <3> SUFFICES ASSUME NEW n \in DOMAIN pool, pool[n] # Nil
                 PROVE  pool[n] \in J
      OBVIOUS
    <3>1. pool[n] \in JobOf /\ pool[n].caller \in Callers
      BY <2>1, HeldCallers
    <3>2. pool[n].id \in Awaited(pool[n].caller)
      BY <2>1, <3>1 DEF Exact
    <3>3. pool[n].id \in 1 .. MaxJobs
      BY <3>1, <3>2, AwaitedBound
    <3> QED
      BY <3>1, <3>3 DEF JobOf
  <2>3. \A w \in Workers : hands[w].caller # None => hands[w] \in J
    <3> SUFFICES ASSUME NEW w \in Workers, hands[w].caller # None
                 PROVE  hands[w] \in J
      OBVIOUS
    <3>1. hands[w] \in JobOf /\ hands[w].caller \in Callers
      BY <2>1, HeldCallers
    <3>2. hands[w].id \in Awaited(hands[w].caller)
      BY <2>1, <3>1 DEF Exact
    <3>3. hands[w].id \in 1 .. MaxJobs
      BY <3>1, <3>2, AwaitedBound
    <3> QED
      BY <3>1, <3>3 DEF JobOf
  <2> HIDE DEF J
  <2>4. pool \in Seq(J \cup {Nil})
    <3>1. pool \in Seq(JobOf \cup {Nil})
      BY <2>1 DEF Held
    <3>2. /\ Len(pool) \in Nat /\ DOMAIN pool = 1 .. Len(pool)
          /\ pool = [n \in 1 .. Len(pool) |-> pool[n]]
      BY <3>1
    <3>3. \A n \in 1 .. Len(pool) : pool[n] \in J \cup {Nil}
      BY <2>2, <3>2
    <3> QED
      BY <3>2, <3>3
  <2>5. hands \in [Workers -> J \cup {Idle, Gone}]
    <3>1. hands \in [Workers -> JobOf \cup {Idle, Gone}]
      BY <2>1 DEF Held
    <3>2. \A w \in Workers : hands[w] \in J \cup {Idle, Gone}
      BY <2>3, <3>1, NoJob
    <3> QED
      BY <3>1, <3>2
  <2>6. \A e \in Range(cache) : e.key \in Inputs
    BY EntryRead DEF ValueInv, CacheHolds, Range
  <2>7. ASSUME NEW c \in Callers
        PROVE  /\ call[c].at \in {"idle", "missed", "sending", "returned"}
               /\ call[c].data \in Inputs \cup {<<>>}
               /\ call[c].sent \in 0 .. Len(call[c].jobs)
               /\ DOMAIN call[c].results \subseteq 1 .. call[c].sent
    <3>1. PICK q : q = call[c]
      OBVIOUS
    <3>2. CallShape(q) /\ CallHolds(config, q)
      BY <2>1, <3>1 DEF ValueInv
    <3>3. q.sent \in 0 .. Len(q.jobs)
      BY <3>2 DEF CallShape
    <3> QED
      BY <3>1, <3>2, <3>3 DEF CallShape, CallHolds
  <2> QED
    BY <2>4, <2>5, <2>6, <2>7 DEF J, TypeOK, ValueInv, Bounded, CacheHolds
<1> QED
  BY <1>1, ValueInvariant, PTL
===========================================================================
