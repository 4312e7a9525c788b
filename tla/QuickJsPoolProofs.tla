-------------------------- MODULE QuickJsPoolProofs --------------------------
(***************************************************************************)
(* Proofs about QuickJsPool, for any calls and any number of workers: the  *)
(* type invariant, the pending count, what a drop leaves behind, that the  *)
(* pool implements ScriptRuntimePool, and that it never comes to rest with *)
(* somebody waiting.                                                       *)
(***************************************************************************)
EXTENDS QuickJsPool, FiniteSetTheorems, TLAPS

WorkerSet == [pc : WorkerPcs, task : Calls \cup {None}]

-----------------------------------------------------------------------------
(* Facts about the channel and the vector of workers.                       *)

\* Sending appends one task to those in the channel.
LEMMA AppendFacts ==
  ASSUME NEW S, NEW q \in Seq(S), NEW c \in S
  PROVE  /\ Append(q, c) \in Seq(S)
         /\ Len(Append(q, c)) = Len(q) + 1
         /\ DOMAIN Append(q, c) = 1..(Len(q) + 1)
         /\ DOMAIN q = 1..Len(q)
         /\ Append(q, c)[Len(q) + 1] = c
         /\ \A k \in 1..Len(q) : Append(q, c)[k] = q[k]
  OBVIOUS

\* recv takes the first task; the others move up.
LEMMA TailFacts ==
  ASSUME NEW S, NEW q \in Seq(S), q # << >>
  PROVE  /\ Tail(q) \in Seq(S)
         /\ Head(q) \in S
         /\ Head(q) = q[1]
         /\ 1 \in DOMAIN q
         /\ DOMAIN q = 1..Len(q)
         /\ DOMAIN Tail(q) = 1..(Len(q) - 1)
         /\ \A k \in 1..(Len(q) - 1) : Tail(q)[k] = q[k + 1]
  OBVIOUS

\* A step of one worker replaces its record and nothing else.
LEMMA ExceptFacts ==
  ASSUME NEW S, NEW q \in Seq(S), NEW w \in DOMAIN q, NEW r \in S
  PROVE  LET p == [q EXCEPT ![w] = r]
         IN /\ p \in Seq(S) /\ Len(p) = Len(q) /\ DOMAIN p = DOMAIN q
            /\ p[w] = r
            /\ \A v \in DOMAIN q : v # w => p[v] = q[v]
  OBVIOUS

\* The index set of a sequence.
LEMMA IndexFacts ==
  ASSUME NEW S, NEW q \in Seq(S)
  PROVE  DOMAIN q = 1..Len(q) /\ Len(q) \in Nat /\ \A k \in DOMAIN q : q[k] \in S
  OBVIOUS

-----------------------------------------------------------------------------
(* The type invariant.                                                      *)

\* A worker's next record keeps the vector well typed, if it has a task exactly
\* when it is busy.
LEMMA WorkerTyped ==
  ASSUME TypeOK, NEW w \in DOMAIN workers, NEW p \in WorkerPcs, NEW t \in Calls \cup {None},
         p \in {"running", "replying"} <=> t # None,
         SetWorker(w, p, t)
  PROVE  /\ workers' \in Seq(WorkerSet)
         /\ \A v \in DOMAIN workers' :
              workers'[v].pc \in {"running", "replying"} <=> workers'[v].task # None
         /\ Len(workers') = Len(workers)
<1>1. workers \in Seq(WorkerSet)  BY Zenon DEF TypeOK, WorkerSet
<1>2. Worker(p, t) \in WorkerSet  BY Zenon DEF Worker, WorkerSet
<1>3. Worker(p, t).pc = p /\ Worker(p, t).task = t  BY Zenon DEF Worker
<1>4. workers' = [workers EXCEPT ![w] = Worker(p, t)]  BY Zenon DEF SetWorker
<1>5. /\ workers' \in Seq(WorkerSet) /\ Len(workers') = Len(workers)
      /\ DOMAIN workers' = DOMAIN workers /\ workers'[w] = Worker(p, t)
      /\ \A v \in DOMAIN workers : v # w => workers'[v] = workers[v]
  BY <1>1, <1>2, <1>4, ExceptFacts
<1>6. \A v \in DOMAIN workers :
        workers[v].pc \in {"running", "replying"} <=> workers[v].task # None
  BY Zenon DEF TypeOK
<1> QED BY <1>3, <1>5, <1>6, Zenon

\* The initial state is well typed.
LEMMA TypeInit == Init => TypeOK
  BY DEF Init, TypeOK, Inside, Ended

\* A step of a caller keeps the types; the count it reads must not be negative.
LEMMA TypeCalls ==
  ASSUME TypeOK, pending \in Nat, NEW c \in Calls, CallStep(c)
  PROVE  TypeOK'
<1> USE DEF TypeOK, SetCall, Inside
<1>1. CASE Snapshot(c)  BY <1>1, Zenon DEF Snapshot
<1>2. CASE LetGo(c)  BY <1>2, Zenon DEF LetGo
<1>3. CASE Count(c)  BY <1>3 DEF Count
<1>4. CASE ensure_worker_capacity(c)
  <2>1. CASE UNCHANGED workers  BY <1>4, <2>1, Zenon DEF ensure_worker_capacity
  <2>2. CASE workers' = Append(workers, Worker("starting", None))
    <3>1. workers \in Seq(WorkerSet) /\ Worker("starting", None) \in WorkerSet
      BY Zenon DEF WorkerSet, Worker, WorkerPcs
    <3>2. /\ workers' \in Seq(WorkerSet) /\ Len(workers') = Len(workers) + 1
          /\ DOMAIN workers' = 1..(Len(workers) + 1) /\ DOMAIN workers = 1..Len(workers)
          /\ workers'[Len(workers) + 1] = Worker("starting", None)
          /\ \A k \in 1..Len(workers) : workers'[k] = workers[k]
      BY <2>2, <3>1, AppendFacts
    <3>3. Worker("starting", None).pc = "starting" /\ Worker("starting", None).task = None
      BY Zenon DEF Worker
    <3>4. \A w \in DOMAIN workers' :
            workers'[w].pc \in {"running", "replying"} <=> workers'[w].task # None
      <4>1. \A w \in 1..Len(workers) :
              workers'[w].pc \in {"running", "replying"} <=> workers'[w].task # None
        BY <3>2, Zenon
      <4>2. \A w \in DOMAIN workers' : w \in 1..Len(workers) \/ w = Len(workers) + 1
        BY <3>1, <3>2, IndexFacts, SMTT(30)
      <4> QED BY <3>2, <3>3, <4>1, <4>2, ZenonT(40)
    <3>5. joined \in 0..Len(workers')  BY <3>2
    <3> QED BY <1>4, <3>2, <3>4, <3>5, ZenonT(40) DEF ensure_worker_capacity, WorkerSet
  <2> QED BY <1>4, <2>1, <2>2, Zenon DEF ensure_worker_capacity
<1>5. CASE Refuse(c)  BY <1>5 DEF Refuse
<1>6. CASE Send(c)  BY <1>6, AppendFacts, ZenonT(40) DEF Send
<1>7. CASE Cancel(c)  BY <1>7, Zenon DEF Cancel
<1> QED BY <1>1, <1>2, <1>3, <1>4, <1>5, <1>6, <1>7, ZenonT(40) DEF CallStep, Proceed

\* A step of a worker keeps the types.
LEMMA TypeWorkers ==
  ASSUME TypeOK, NEW w \in DOMAIN workers, WorkerStep(w)
  PROVE  TypeOK'
<1> USE DEF WorkerSet
<1>1. workers[w] \in WorkerSet  BY IndexFacts, ZenonT(40) DEF TypeOK
<1>2. workers[w].task \in Calls \cup {None}  BY <1>1, Zenon
<1>3. None \notin Calls  BY PoolAssumption, ZenonT(40)
<1>4. CASE StartWorker(w)
  <2>1. PICK p \in {"idle", "failed"} : SetWorker(w, p, None)  BY <1>4, Zenon DEF StartWorker
  <2>2. p \in WorkerPcs  BY Zenon DEF WorkerPcs, Ended
  <2> QED BY <1>4, <2>1, <2>2, WorkerTyped, ZenonT(40) DEF StartWorker, TypeOK
<1>5. CASE LockReceiver(w)
  BY <1>5, WorkerTyped, Zenon DEF LockReceiver, TypeOK, WorkerPcs
<1>6. CASE Recv(w)
  <2>1. Head(queue) \in Calls /\ Tail(queue) \in Seq(Calls)
    BY <1>6, TailFacts, Zenon DEF Recv, TypeOK
  <2>2. SetWorker(w, "running", Head(queue))  BY <1>6, Zenon DEF Recv
  <2> QED BY <1>3, <1>6, <2>1, <2>2, WorkerTyped, ZenonT(40) DEF Recv, TypeOK, WorkerPcs
<1>7. CASE Disconnected(w)
  BY <1>7, WorkerTyped, Zenon DEF Disconnected, TypeOK, WorkerPcs, Ended
<1>8. CASE Execute(w)
  <2>1. workers[w].task \in Calls  BY <1>2, <1>8, Zenon DEF Execute, AtWorker, TypeOK
  <2>2. SetWorker(w, "replying", workers[w].task)  BY <1>8, Zenon DEF Execute
  <2>3. "replying" \in WorkerPcs /\ "replying" \in {"running", "replying"}
    BY Zenon DEF WorkerPcs
  <2>4. workers[w].task # None  BY <2>1, <1>3, Zenon
  <2>5. /\ workers' \in Seq(WorkerSet)
        /\ \A v \in DOMAIN workers' :
             workers'[v].pc \in {"running", "replying"} <=> workers'[v].task # None
        /\ Len(workers') = Len(workers)
    BY <2>1, <2>2, <2>3, <2>4, WorkerTyped, ZenonT(40)
  <2>6. pending' \in Int  BY <1>8 DEF Execute, TypeOK
  <2> QED BY <1>8, <2>1, <2>5, <2>6, Zenon DEF Execute, TypeOK, WorkerSet
<1>9. CASE Reply(w)
  BY <1>9, WorkerTyped, Zenon DEF Reply, TypeOK, WorkerPcs, Inside
<1> QED BY <1>4, <1>5, <1>6, <1>7, <1>8, <1>9, ZenonT(40) DEF WorkerStep

\* Every step keeps the types.
LEMMA TypeNext == TypeOK /\ pending \in Nat /\ [Next]_vars => TypeOK'
<1> SUFFICES ASSUME TypeOK, pending \in Nat, [Next]_vars PROVE TypeOK'
  BY Zenon
<1>1. CASE Release  BY <1>1, Zenon DEF Release, TypeOK
<1>2. CASE DropStep
  <2>1. CASE Join
    <3>1. joined + 1 \in 0..Len(workers)  BY <2>1, IndexFacts DEF Join, TypeOK
    <3> QED BY <2>1, <3>1, ZenonT(40) DEF Join, TypeOK
  <2> QED BY <1>2, <2>1, Zenon DEF DropStep, Drop, Dropped, TypeOK
<1>3. CASE \E c \in Calls : CallStep(c)  BY <1>3, TypeCalls, Zenon
<1>4. CASE \E w \in DOMAIN workers : WorkerStep(w)  BY <1>4, TypeWorkers, Zenon
<1>5. CASE UNCHANGED vars  BY <1>5, Zenon DEF vars, TypeOK
<1> QED BY <1>1, <1>2, <1>3, <1>4, <1>5, Zenon DEF Next

-----------------------------------------------------------------------------
(* Where a task is: in the channel, with one worker, or done.               *)

Distinct == \A i, j \in DOMAIN queue : queue[i] = queue[j] => i = j
Unique ==
  \A v, w \in DOMAIN workers :
    workers[v].task = workers[w].task /\ workers[v].task # None => v = w

Placed ==
  /\ Distinct
  /\ Unique
  /\ \A c \in Queued : c \notin Running /\ c \notin executed
  /\ \A c \in Running : c \notin executed
  /\ \A w \in DOMAIN workers : workers[w].pc = "replying" => workers[w].task \in executed
  /\ \A c \in Queued \cup Running \cup executed : call[c] \in {"waiting", "done"}

\* What is queued and what runs are calls.
LEMMA Tasks ==
  ASSUME TypeOK
  PROVE  Queued \subseteq Calls /\ Running \subseteq Calls
<1>1. \A k \in DOMAIN queue : queue[k] \in Calls  BY IndexFacts, Zenon DEF TypeOK
<1>2. \A w \in DOMAIN workers : workers[w].pc = "running" => workers[w].task \in Calls
  <2>1. \A w \in DOMAIN workers : workers[w] \in WorkerSet
    BY IndexFacts, Zenon DEF TypeOK, WorkerSet
  <2> QED BY <2>1, Zenon DEF TypeOK, WorkerSet
<1> QED BY <1>1, <1>2, Zenon DEF Queued, Running

\* Sending puts the task into the channel.
LEMMA QueuedAppend ==
  ASSUME TypeOK, NEW c \in Calls, queue' = Append(queue, c)
  PROVE  /\ Queued' = Queued \cup {c}
         /\ Distinct /\ c \notin Queued => Distinct'
<1>1. /\ DOMAIN queue' = 1..(Len(queue) + 1) /\ DOMAIN queue = 1..Len(queue)
      /\ queue'[Len(queue) + 1] = c
      /\ \A k \in 1..Len(queue) : queue'[k] = queue[k]
      /\ Len(queue) \in Nat
  BY AppendFacts, IndexFacts DEF TypeOK
<1>2. \A k \in DOMAIN queue' : k \in DOMAIN queue \/ k = Len(queue) + 1
  BY <1>1
<1>3. \A k \in DOMAIN queue : k \in DOMAIN queue' /\ queue'[k] = queue[k]
  BY <1>1
<1>4. Len(queue) + 1 \in DOMAIN queue'  BY <1>1
<1>5. Queued' = {queue'[k] : k \in DOMAIN queue'}  BY Zenon DEF Queued
<1>6. Queued' = Queued \cup {c}  BY <1>1, <1>2, <1>3, <1>4, <1>5, ZenonT(40) DEF Queued
<1>7. ASSUME Distinct, c \notin Queued PROVE Distinct'
  <2>1. \A k \in DOMAIN queue : queue[k] # c  BY <1>7, Zenon DEF Queued
  <2> QED BY <1>1, <1>2, <1>3, <1>7, <2>1 DEF Distinct
<1> QED BY <1>6, <1>7, Zenon

\* recv takes the first task out of it.
LEMMA QueuedTail ==
  ASSUME TypeOK, Distinct, queue # << >>, queue' = Tail(queue)
  PROVE  /\ Head(queue) \in Queued
         /\ Queued' = Queued \ {Head(queue)}
         /\ Distinct'
<1>1. /\ Head(queue) = queue[1] /\ 1 \in DOMAIN queue
      /\ DOMAIN queue = 1..Len(queue) /\ DOMAIN queue' = 1..(Len(queue) - 1)
      /\ \A k \in 1..(Len(queue) - 1) : queue'[k] = queue[k + 1]
      /\ Len(queue) \in Nat
  BY TailFacts, IndexFacts, Zenon DEF TypeOK
<1>2. \A k \in DOMAIN queue' : k + 1 \in DOMAIN queue /\ queue'[k] = queue[k + 1] /\ k + 1 # 1
  BY <1>1
<1>3. \A k \in DOMAIN queue : k # 1 => k - 1 \in DOMAIN queue' /\ queue'[k - 1] = queue[k]
  <2> SUFFICES ASSUME NEW k \in DOMAIN queue, k # 1
               PROVE  k - 1 \in DOMAIN queue' /\ queue'[k - 1] = queue[k]
    BY Zenon
  <2>1. k - 1 \in 1..(Len(queue) - 1) /\ (k - 1) + 1 = k  BY <1>1
  <2> QED BY <1>1, <2>1, Zenon
<1>4. Head(queue) \in Queued  BY <1>1, Zenon DEF Queued
<1>5. ASSUME NEW c \in Queued' PROVE c \in Queued \ {Head(queue)}
  <2>1. PICK k \in DOMAIN queue' : c = queue'[k]  BY <1>5, Zenon DEF Queued
  <2>2. k + 1 \in DOMAIN queue /\ c = queue[k + 1] /\ k + 1 # 1  BY <1>2, <2>1, Zenon
  <2> QED BY <1>1, <2>2, Zenon DEF Queued, Distinct
<1>6. ASSUME NEW c \in Queued \ {Head(queue)} PROVE c \in Queued'
  <2>1. PICK k \in DOMAIN queue : c = queue[k]  BY <1>6, Zenon DEF Queued
  <2>2. k # 1  BY <1>1, <1>6, <2>1, Zenon
  <2> QED BY <1>3, <2>1, <2>2, Zenon DEF Queued
<1>7. Distinct'
  <2> SUFFICES ASSUME NEW i \in DOMAIN queue', NEW j \in DOMAIN queue', queue'[i] = queue'[j]
               PROVE  i = j
    BY Zenon DEF Distinct
  <2>1. i + 1 = j + 1  BY <1>2, ZenonT(40) DEF Distinct
  <2> QED BY <1>1, <2>1
<1> QED BY <1>4, <1>5, <1>6, <1>7, Zenon

\* The vector after a step of worker w.
LEMMA WorkerSets ==
  ASSUME TypeOK, NEW w \in DOMAIN workers, NEW p, NEW t, SetWorker(w, p, t)
  PROVE  /\ DOMAIN workers' = DOMAIN workers
         /\ workers'[w].pc = p /\ workers'[w].task = t
         /\ \A v \in DOMAIN workers : v # w => workers'[v] = workers[v]
<1>1. workers' = [workers EXCEPT ![w] = Worker(p, t)]  BY Zenon DEF SetWorker
<1>2. workers' = [v \in DOMAIN workers |-> IF v = w THEN Worker(p, t) ELSE workers[v]]
  <2>1. workers \in Seq(WorkerSet)  BY Zenon DEF TypeOK, WorkerSet
  <2> QED BY <1>1, <2>1, IndexFacts, Zenon
<1>3. Worker(p, t).pc = p /\ Worker(p, t).task = t  BY Zenon DEF Worker
<1> QED BY <1>2, <1>3, Zenon

\* Steps that neither start nor end a script leave the running ones alone.
LEMMA RunningSame ==
  ASSUME TypeOK, NEW w \in DOMAIN workers, NEW p, NEW t, SetWorker(w, p, t),
         workers[w].pc # "running", p # "running"
  PROVE  Running' = Running
<1>1. /\ DOMAIN workers' = DOMAIN workers /\ workers'[w].pc = p
      /\ \A v \in DOMAIN workers : v # w => workers'[v] = workers[v]
  BY WorkerSets, Zenon
<1>2. \A v \in DOMAIN workers : /\ workers'[v].pc = "running" <=> workers[v].pc = "running"
                                /\ workers[v].pc = "running" => workers'[v].task = workers[v].task
  BY <1>1, Zenon
<1> QED BY <1>1, <1>2, ZenonT(40) DEF Running

\* A worker that takes a task runs it.
LEMMA RunningStarts ==
  ASSUME TypeOK, NEW w \in DOMAIN workers, NEW t, SetWorker(w, "running", t),
         workers[w].pc # "running"
  PROVE  Running' = Running \cup {t}
<1>1. /\ DOMAIN workers' = DOMAIN workers
      /\ workers'[w].pc = "running" /\ workers'[w].task = t
      /\ \A v \in DOMAIN workers : v # w => workers'[v] = workers[v]
  BY WorkerSets, Zenon
<1>2. ASSUME NEW c \in Running' PROVE c \in Running \cup {t}
  <2>1. PICK v \in DOMAIN workers' : workers'[v].pc = "running" /\ c = workers'[v].task
    BY <1>2, Zenon DEF Running
  <2> QED BY <1>1, <2>1, Zenon DEF Running
<1>3. ASSUME NEW c \in Running PROVE c \in Running'
  <2>1. PICK v \in DOMAIN workers : workers[v].pc = "running" /\ c = workers[v].task
    BY <1>3, Zenon DEF Running
  <2>2. v # w  BY <2>1, Zenon
  <2> QED BY <1>1, <2>1, <2>2, ZenonT(40) DEF Running
<1>4. t \in Running'  BY <1>1, Zenon DEF Running
<1> QED BY <1>2, <1>3, <1>4, Zenon

\* A worker that has run its script runs it no more.
LEMMA RunningEnds ==
  ASSUME TypeOK, Unique, NEW w \in DOMAIN workers, NEW p, NEW t, SetWorker(w, p, t),
         workers[w].pc = "running", p # "running"
  PROVE  workers[w].task \in Running /\ Running' = Running \ {workers[w].task}
<1>1. /\ DOMAIN workers' = DOMAIN workers /\ workers'[w].pc = p
      /\ \A v \in DOMAIN workers : v # w => workers'[v] = workers[v]
  BY WorkerSets, Zenon
<1>2. workers[w].task # None  BY Zenon DEF TypeOK
<1>3. ASSUME NEW c \in Running' PROVE c \in Running \ {workers[w].task}
  <2>1. PICK v \in DOMAIN workers' : workers'[v].pc = "running" /\ c = workers'[v].task
    BY <1>3, Zenon DEF Running
  <2>2. v # w /\ v \in DOMAIN workers /\ workers'[v] = workers[v]  BY <1>1, <2>1, Zenon
  <2>3. workers[v].task # workers[w].task  BY <1>2, <2>2, Zenon DEF Unique
  <2> QED BY <2>1, <2>2, <2>3, ZenonT(40) DEF Running
<1>4. ASSUME NEW c \in Running \ {workers[w].task} PROVE c \in Running'
  <2>1. PICK v \in DOMAIN workers : workers[v].pc = "running" /\ c = workers[v].task
    BY <1>4, Zenon DEF Running
  <2>2. v # w  BY <1>4, <2>1, Zenon
  <2> QED BY <1>1, <2>1, <2>2, Zenon DEF Running
<1>5. workers[w].task \in Running  BY Zenon DEF Running
<1> QED BY <1>3, <1>4, <1>5, ZenonT(40)

\* A new worker starts without a task.
LEMMA SpawnFacts ==
  ASSUME TypeOK, workers' = Append(workers, Worker("starting", None))
  PROVE  /\ Len(workers') = Len(workers) + 1
         /\ Running' = Running
         /\ \A v \in DOMAIN workers : v \in DOMAIN workers' /\ workers'[v] = workers[v]
         /\ \A v \in DOMAIN workers' : \/ v \in DOMAIN workers
                                        \/ /\ v = Len(workers) + 1
                                           /\ workers'[v].pc = "starting"
                                           /\ workers'[v].task = None
<1>1. workers \in Seq(WorkerSet) /\ Worker("starting", None) \in WorkerSet
  BY Zenon DEF WorkerSet, Worker, WorkerPcs, TypeOK
<1>2. /\ Len(workers') = Len(workers) + 1 /\ Len(workers) \in Nat
      /\ DOMAIN workers' = 1..(Len(workers) + 1) /\ DOMAIN workers = 1..Len(workers)
      /\ workers'[Len(workers) + 1] = Worker("starting", None)
      /\ \A k \in 1..Len(workers) : workers'[k] = workers[k]
  BY <1>1, AppendFacts, IndexFacts
<1>3. Worker("starting", None).pc = "starting" /\ Worker("starting", None).task = None
  BY Zenon DEF Worker
<1>4. \A v \in DOMAIN workers : v \in DOMAIN workers' /\ workers'[v] = workers[v]
  BY <1>2
<1>5. \A v \in DOMAIN workers' : v \in DOMAIN workers \/ v = Len(workers) + 1
  BY <1>2
<1>6. Running' = Running  BY <1>2, <1>3, <1>4, <1>5, ZenonT(40) DEF Running
<1> QED BY <1>2, <1>3, <1>4, <1>5, <1>6, ZenonT(40)

\* At first no task is anywhere.
LEMMA PlacedInit == Init => Placed
  BY DEF Init, Placed, Distinct, Unique, Queued, Running

\* A step of a caller keeps every task in its one place.
LEMMA PlacedCalls ==
  ASSUME TypeOK, Placed, NEW c \in Calls, CallStep(c)
  PROVE  Placed'
<1>1. /\ Queued \subseteq Calls /\ Running \subseteq Calls /\ executed \subseteq Calls
      /\ call \in [Calls -> Inside \cup {"new", "done"}]
  BY Tasks, Zenon DEF TypeOK
<1>2. ASSUME NEW from, NEW to, SetCall(c, from, to),
             from \notin {"waiting", "done"} \/ to \in {"waiting", "done"},
             UNCHANGED <<queue, executed>>, UNCHANGED workers
      PROVE  Placed'
  <2>1. UNCHANGED <<Queued, Running, Distinct, Unique>>
    BY <1>2, Zenon DEF Queued, Running, Distinct, Unique
  <2>2. \A d \in Queued \cup Running \cup executed : call'[d] \in {"waiting", "done"}
    BY <1>1, <1>2, Zenon DEF Placed, SetCall
  <2> QED BY <1>2, <2>1, <2>2, Zenon DEF Placed
<1>3. CASE Snapshot(c)  BY <1>2, <1>3, Zenon DEF Snapshot
<1>4. CASE LetGo(c)  BY <1>2, <1>4, Zenon DEF LetGo
<1>5. CASE Count(c)  BY <1>2, <1>5, Zenon DEF Count
<1>6. CASE ensure_worker_capacity(c)
  <2>1. CASE UNCHANGED workers  BY <1>2, <1>6, <2>1, Zenon DEF ensure_worker_capacity
  <2>2. CASE workers' = Append(workers, Worker("starting", None))
    <3>1. /\ Running' = Running
          /\ \A v \in DOMAIN workers : v \in DOMAIN workers' /\ workers'[v] = workers[v]
          /\ \A v \in DOMAIN workers' : \/ v \in DOMAIN workers
                                         \/ /\ v = Len(workers) + 1
                                            /\ workers'[v].pc = "starting"
                                            /\ workers'[v].task = None
      BY <2>2, SpawnFacts, Zenon
    <3>2. PICK to \in {"ready", "refused"} : SetCall(c, "counted", to)
      BY <1>6, Zenon DEF ensure_worker_capacity
    <3>3. UNCHANGED <<queue, executed>>  BY <1>6, Zenon DEF ensure_worker_capacity
    <3>4. UNCHANGED <<Queued, Distinct>>  BY <3>3, Zenon DEF Queued, Distinct
    <3>5. Unique'  BY <3>1, ZenonT(40) DEF Unique, Placed
    <3>6. \A w \in DOMAIN workers' : workers'[w].pc = "replying" => workers'[w].task \in executed
      BY <3>1, Zenon DEF Placed
    <3>7. \A d \in Queued \cup Running \cup executed : call'[d] \in {"waiting", "done"}
      BY <1>1, <3>2, Zenon DEF Placed, SetCall
    <3> QED BY <3>1, <3>3, <3>4, <3>5, <3>6, <3>7, Zenon DEF Placed
  <2> QED BY <1>6, <2>1, <2>2, Zenon DEF ensure_worker_capacity
<1>7. CASE Refuse(c)  BY <1>2, <1>7, Zenon DEF Refuse
<1>8. CASE Send(c)
  <2>1. /\ queue' = Append(queue, c) /\ UNCHANGED <<workers, executed>>
        /\ SetCall(c, "ready", "waiting")
    BY <1>8, Zenon DEF Send
  <2>2. c \notin Queued \cup Running \cup executed  BY <2>1, Zenon DEF Placed, SetCall
  <2>3. Queued' = Queued \cup {c} /\ Distinct'  BY <2>1, <2>2, QueuedAppend, ZenonT(40) DEF Placed
  <2>4. UNCHANGED <<Running, Unique>>  BY <2>1, Zenon DEF Running, Unique
  <2>5. \A d \in Queued \cup {c} \cup Running \cup executed : call'[d] \in {"waiting", "done"}
    BY <1>1, <2>1, Zenon DEF Placed, SetCall
  <2> QED BY <2>1, <2>2, <2>3, <2>4, <2>5, ZenonT(40) DEF Placed
<1>9. CASE Cancel(c)  BY <1>2, <1>9, Zenon DEF Cancel
<1> QED BY <1>3, <1>4, <1>5, <1>6, <1>7, <1>8, <1>9, Zenon DEF CallStep, Proceed

\* So does a step of a worker.
LEMMA PlacedWorkers ==
  ASSUME TypeOK, Placed, NEW w \in DOMAIN workers, WorkerStep(w)
  PROVE  Placed'
<1>1. ASSUME NEW p, SetWorker(w, p, None), workers[w].pc # "running",
             p \notin {"running", "replying"}, UNCHANGED <<queue, executed, call>>
      PROVE  Placed'
  <2>1. Running' = Running  BY <1>1, RunningSame, Zenon
  <2>2. UNCHANGED <<Queued, Distinct>>  BY <1>1, Zenon DEF Queued, Distinct
  <2>3. /\ DOMAIN workers' = DOMAIN workers
        /\ workers'[w].pc = p /\ workers'[w].task = None
        /\ \A v \in DOMAIN workers : v # w => workers'[v] = workers[v]
    BY <1>1, WorkerSets, Zenon
  <2>4. Unique'  BY <2>3, Zenon DEF Unique, Placed
  <2>5. \A v \in DOMAIN workers' : workers'[v].pc = "replying" => workers'[v].task \in executed
    BY <1>1, <2>3, Zenon DEF Placed
  <2> QED BY <1>1, <2>1, <2>2, <2>4, <2>5, Zenon DEF Placed
<1>2. CASE StartWorker(w)
  <2>1. PICK p \in {"idle", "failed"} : SetWorker(w, p, None)  BY <1>2, Zenon DEF StartWorker
  <2> QED BY <1>1, <1>2, <2>1, Zenon DEF StartWorker, AtWorker
<1>3. CASE LockReceiver(w)  BY <1>1, <1>3, Zenon DEF LockReceiver, AtWorker
<1>4. CASE Recv(w)
  <2>1. /\ SetWorker(w, "running", Head(queue)) /\ workers[w].pc = "holding"
        /\ queue # << >> /\ queue' = Tail(queue) /\ UNCHANGED <<executed, call>>
    BY <1>4, Zenon DEF Recv, AtWorker
  <2>2. /\ Head(queue) \in Queued /\ Queued' = Queued \ {Head(queue)} /\ Distinct'
    BY <2>1, QueuedTail, Zenon DEF Placed
  <2>3. Running' = Running \cup {Head(queue)}  BY <2>1, RunningStarts, Zenon
  <2>4. /\ DOMAIN workers' = DOMAIN workers
        /\ workers'[w].pc = "running" /\ workers'[w].task = Head(queue)
        /\ \A v \in DOMAIN workers : v # w => workers'[v] = workers[v]
    BY <2>1, WorkerSets, Zenon
  <2>5. \A v \in DOMAIN workers : workers[v].task # Head(queue)
    <3> SUFFICES ASSUME NEW v \in DOMAIN workers, workers[v].task = Head(queue) PROVE FALSE
      BY Zenon
    <3>1. Head(queue) # None  BY <2>1, TailFacts, PoolAssumption DEF TypeOK
    <3>2. workers[v].pc \in {"running", "replying"}  BY <3>1, Zenon DEF TypeOK
    <3>3. workers[v].pc = "running" => Head(queue) \in Running  BY Zenon DEF Running
    <3>4. workers[v].pc = "replying" => Head(queue) \in executed  BY Zenon DEF Placed
    <3> QED BY <2>2, <3>2, <3>3, <3>4, Zenon DEF Placed
  <2>6. Unique'  BY <2>4, <2>5, ZenonT(40) DEF Unique, Placed
  <2>7. \A v \in DOMAIN workers' : workers'[v].pc = "replying" => workers'[v].task \in executed
    BY <2>4, Zenon DEF Placed
  <2> QED BY <2>1, <2>2, <2>3, <2>6, <2>7, ZenonT(40) DEF Placed
<1>5. CASE Disconnected(w)  BY <1>1, <1>5, Zenon DEF Disconnected, AtWorker
<1>6. CASE Execute(w)
  <2> DEFINE t == workers[w].task
  <2>1. /\ SetWorker(w, "replying", t) /\ workers[w].pc = "running"
        /\ executed' = executed \cup {t} /\ UNCHANGED <<queue, call>>
    BY <1>6, Zenon DEF Execute, AtWorker
  <2>2. t \in Running /\ Running' = Running \ {t}  BY <2>1, RunningEnds, Zenon DEF Placed
  <2>3. UNCHANGED <<Queued, Distinct>>  BY <2>1, Zenon DEF Queued, Distinct
  <2>4. /\ DOMAIN workers' = DOMAIN workers
        /\ workers'[w].pc = "replying" /\ workers'[w].task = t
        /\ \A v \in DOMAIN workers : v # w => workers'[v] = workers[v]
    BY <2>1, WorkerSets, Zenon
  <2> HIDE DEF t
  <2>5. Unique'  BY <2>4 DEF Unique, Placed, t
  <2>6. \A v \in DOMAIN workers' : workers'[v].pc = "replying" => workers'[v].task \in executed'
    BY <2>1, <2>4, Zenon DEF Placed
  <2> QED BY <2>1, <2>2, <2>3, <2>5, <2>6, Zenon DEF Placed
<1>7. CASE Reply(w)
  <2> DEFINE t == workers[w].task
  <2>1. /\ SetWorker(w, "idle", None) /\ workers[w].pc = "replying"
        /\ call' = [call EXCEPT ![t] = "done"] /\ UNCHANGED <<queue, executed>>
    BY <1>7, Zenon DEF Reply, AtWorker
  <2>2. Running' = Running  BY <2>1, RunningSame, Zenon
  <2>3. UNCHANGED <<Queued, Distinct>>  BY <2>1, Zenon DEF Queued, Distinct
  <2>4. /\ DOMAIN workers' = DOMAIN workers
        /\ workers'[w].pc = "idle" /\ workers'[w].task = None
        /\ \A v \in DOMAIN workers : v # w => workers'[v] = workers[v]
    BY <2>1, WorkerSets, Zenon
  <2>5. Unique'  BY <2>4, ZenonT(40) DEF Unique, Placed
  <2>6. \A v \in DOMAIN workers' : workers'[v].pc = "replying" => workers'[v].task \in executed
    BY <2>4, Zenon DEF Placed
  <2>7. \A d \in Queued \cup Running \cup executed : call'[d] \in {"waiting", "done"}
    <3>1. \A d \in Queued \cup Running \cup executed : d \in Calls  BY Tasks, Zenon DEF TypeOK
    <3> QED BY <2>1, <3>1, ZenonT(40) DEF Placed, TypeOK
  <2> QED BY <2>1, <2>2, <2>3, <2>5, <2>6, <2>7, Zenon DEF Placed
<1> QED BY <1>2, <1>3, <1>4, <1>5, <1>6, <1>7, ZenonT(40) DEF WorkerStep

\* So does every step.
LEMMA PlacedNext == TypeOK /\ Placed /\ [Next]_vars => Placed'
<1> SUFFICES ASSUME TypeOK, Placed, [Next]_vars PROVE Placed'
  BY Zenon
<1>1. CASE UNCHANGED <<queue, workers, executed, call>>
  BY <1>1 DEF Placed, Distinct, Unique, Queued, Running
<1>2. CASE \E c \in Calls : CallStep(c)  BY <1>2, PlacedCalls, Zenon
<1>3. CASE \E w \in DOMAIN workers : WorkerStep(w)  BY <1>3, PlacedWorkers, Zenon
<1> QED BY <1>1, <1>2, <1>3, Zenon DEF Next, Release, DropStep, Drop, Join, Dropped, vars

-----------------------------------------------------------------------------
(* The life of the pool and of its workers.                                 *)

Life ==
  /\ Len(workers) <= MaxWorkers
  /\ tx <=> pool \in {"live", "released"}
  /\ pool \in {"joining", "gone"} => \A c \in Calls : call[c] \notin Inside
  /\ \A w \in DOMAIN workers : w <= joined => workers[w].pc \in Ended
  /\ pool = "gone" => joined = Len(workers)
  /\ \A w \in DOMAIN workers : workers[w].pc = "exited" => queue = << >> /\ ~tx
  /\ (queue # << >> \/ \E c \in Calls : call[c] = "ready") => Len(workers) > 0

\* A new pool has no workers and nothing to do.
LEMMA LifeInit == Init => Life
  BY PoolAssumption, SMTT(30) DEF Init, Life

\* A caller holds the pool, spawns below the limit, and has a worker before it
\* sends.
LEMMA LifeCalls ==
  ASSUME TypeOK, Life, NEW c \in Calls, CallStep(c)
  PROVE  Life'
<1>0. /\ Len(workers) \in Nat /\ DOMAIN workers = 1..Len(workers)
      /\ joined \in Nat /\ joined <= Len(workers) /\ MaxWorkers \in Nat /\ MaxWorkers > 0
      /\ call \in [Calls -> Inside \cup {"new", "done"}]
  BY IndexFacts, PoolAssumption DEF TypeOK
<1>1. ASSUME NEW from, NEW to, SetCall(c, from, to), from \in Inside \/ pool = "live",
             to = "ready" => Len(workers) > 0,
             UNCHANGED <<queue, tx, joined>>, UNCHANGED workers, UNCHANGED pool
      PROVE  Life'
  <2>1. pool \in {"joining", "gone"} => FALSE  BY <1>1, Zenon DEF Life, SetCall
  <2>2. (\E d \in Calls : call'[d] = "ready") =>
          Len(workers) > 0 \/ \E d \in Calls : call[d] = "ready"
    BY <1>0, <1>1, Zenon DEF SetCall
  <2> QED BY <1>1, <2>1, <2>2, Zenon DEF Life
<1>2. CASE Snapshot(c)  BY <1>1, <1>2, Zenon DEF Snapshot
<1>3. CASE LetGo(c)  BY <1>1, <1>3, Zenon DEF LetGo, Inside
<1>4. CASE Count(c)  BY <1>1, <1>4, Zenon DEF Count, Inside
<1>5. CASE ensure_worker_capacity(c)
  <2>1. CASE UNCHANGED workers
    <3>1. ~ShouldSpawn(seen[c]) => Len(workers) > 0  BY <1>0 DEF ShouldSpawn
    <3>2. \/ ~ShouldSpawn(seen[c]) /\ SetCall(c, "counted", "ready")
          \/ SetCall(c, "counted", "refused")
          \/ ShouldSpawn(seen[c]) /\ workers' = Append(workers, Worker("starting", None))
      BY <1>5, Zenon DEF ensure_worker_capacity
    <3>3. ~(workers' = Append(workers, Worker("starting", None)))
      <4>1. workers' = Append(workers, Worker("starting", None)) => Len(workers') = Len(workers) + 1
        BY SpawnFacts, Zenon
      <4>2. Len(workers') = Len(workers)  BY <2>1, Zenon
      <4>3. Len(workers) + 1 # Len(workers)
        <5>1. \A n \in Nat : n + 1 # n  OBVIOUS
        <5> QED BY <1>0, <5>1, Zenon
      <4> QED BY <4>1, <4>2, <4>3, Zenon
    <3> QED BY <1>1, <1>5, <2>1, <3>1, <3>2, <3>3, ZenonT(40) DEF ensure_worker_capacity, Inside
  <2>2. CASE ~(UNCHANGED workers)
    <3>1. /\ ShouldSpawn(seen[c]) /\ SetCall(c, "counted", "ready")
          /\ workers' = Append(workers, Worker("starting", None))
          /\ UNCHANGED <<pool, tx, queue, joined>>
      BY <1>5, <2>2, Zenon DEF ensure_worker_capacity
    <3>2. /\ Len(workers') = Len(workers) + 1
          /\ \A v \in DOMAIN workers : v \in DOMAIN workers' /\ workers'[v] = workers[v]
          /\ \A v \in DOMAIN workers' : \/ v \in DOMAIN workers
                                         \/ /\ v = Len(workers) + 1
                                            /\ workers'[v].pc = "starting"
                                            /\ workers'[v].task = None
      BY <3>1, SpawnFacts, Zenon
    <3>3. Len(workers') <= MaxWorkers /\ Len(workers') > 0
      BY <1>0, <3>1, <3>2 DEF ShouldSpawn
    <3>4. pool \notin {"joining", "gone"}  BY <3>1, Zenon DEF Life, SetCall, Inside
    <3>5. \A w \in DOMAIN workers' : w <= joined => workers'[w].pc \in Ended
      <4>1. ~(Len(workers) + 1 <= joined)  BY <1>0
      <4> QED BY <3>2, <4>1, Zenon DEF Life
    <3>6. \A w \in DOMAIN workers' : workers'[w].pc = "exited" => queue = << >> /\ ~tx
      BY <3>2, Zenon DEF Life
    <3> QED BY <3>1, <3>3, <3>4, <3>5, <3>6, ZenonT(40) DEF Life
  <2> QED BY <2>1, <2>2, Zenon
<1>6. CASE Refuse(c)  BY <1>1, <1>6, Zenon DEF Refuse, Inside
<1>7. CASE Send(c)
  <2>1. /\ tx /\ SetCall(c, "ready", "waiting")
        /\ UNCHANGED <<pool, tx, workers, joined>>
    BY <1>7, Zenon DEF Send
  <2>2. pool \notin {"joining", "gone"}  BY <2>1, Zenon DEF Life
  <2>3. Len(workers) > 0  BY <2>1, Zenon DEF Life, SetCall
  <2>4. \A w \in DOMAIN workers : workers[w].pc # "exited"  BY <2>1, Zenon DEF Life
  <2> QED BY <2>1, <2>2, <2>3, <2>4, Zenon DEF Life
<1>8. CASE Cancel(c)  BY <1>1, <1>8, ZenonT(40) DEF Cancel, Inside
<1> QED BY <1>2, <1>3, <1>4, <1>5, <1>6, <1>7, <1>8, Zenon DEF CallStep, Proceed

\* A worker that has ended stays so; one exits only when nothing can come.
LEMMA LifeWorkers ==
  ASSUME TypeOK, Life, NEW w \in DOMAIN workers, WorkerStep(w)
  PROVE  Life'
<1>0. workers \in Seq(WorkerSet)  BY Zenon DEF TypeOK, WorkerSet
<1>1. ASSUME NEW p, NEW t, SetWorker(w, p, t), workers[w].pc \notin Ended,
             p = "exited" => queue = << >> /\ ~tx,
             queue' = queue \/ (queue # << >> /\ queue' = Tail(queue)),
             call' = call \/ call' = [call EXCEPT ![workers[w].task] = "done"],
             UNCHANGED <<pool, tx, joined>>
      PROVE  Life'
  <2>1. /\ DOMAIN workers' = DOMAIN workers /\ workers'[w].pc = p
        /\ \A v \in DOMAIN workers : v # w => workers'[v] = workers[v]
    BY <1>1, WorkerSets, Zenon
  <2>2. Len(workers') = Len(workers)
    <3>1. workers' = [workers EXCEPT ![w] = Worker(p, t)]  BY <1>1, Zenon DEF SetWorker
    <3> QED BY <1>0, <3>1
  <2>3. \A v \in DOMAIN workers' : v <= joined => workers'[v].pc \in Ended
    BY <1>1, <2>1, Zenon DEF Life
  <2>4. \A v \in DOMAIN workers' : workers'[v].pc = "exited" => queue' = << >> /\ ~tx
    <3>1. \A v \in DOMAIN workers : workers[v].pc = "exited" => queue = << >> /\ ~tx
      BY Zenon DEF Life
    <3>2. queue = << >> => queue' = << >>  BY <1>1, Zenon
    <3> QED BY <1>1, <2>1, <3>1, <3>2, Zenon
  <2>5. \A c \in Calls : call'[c] = call[c] \/ call'[c] = "done"
    BY <1>1, Zenon DEF TypeOK
  <2>6. queue' # << >> => queue # << >>  BY <1>1, Zenon
  <2>7. (\E c \in Calls : call'[c] = "ready") => \E c \in Calls : call[c] = "ready"
    BY <2>5, Zenon
  <2>8. \A c \in Calls : call[c] \notin Inside => call'[c] \notin Inside
    BY <2>5, Zenon DEF Inside
  <2> QED BY <1>1, <2>2, <2>3, <2>4, <2>6, <2>7, <2>8, Zenon DEF Life
<1>2. CASE StartWorker(w)
  <2>1. PICK p \in {"idle", "failed"} : SetWorker(w, p, None)  BY <1>2, Zenon DEF StartWorker
  <2> QED BY <1>1, <1>2, <2>1, Zenon DEF StartWorker, AtWorker, Ended
<1>3. CASE LockReceiver(w)  BY <1>1, <1>3, Zenon DEF LockReceiver, AtWorker, Ended
<1>4. CASE Recv(w)  BY <1>1, <1>4, Zenon DEF Recv, AtWorker, Ended
<1>5. CASE Disconnected(w)  BY <1>1, <1>5, Zenon DEF Disconnected, AtWorker, Ended
<1>6. CASE Execute(w)  BY <1>1, <1>6, Zenon DEF Execute, AtWorker, Ended
<1>7. CASE Reply(w)  BY <1>1, <1>7, Zenon DEF Reply, AtWorker, Ended
<1> QED BY <1>2, <1>3, <1>4, <1>5, <1>6, <1>7, Zenon DEF WorkerStep

\* Every step keeps the order in which a pool ends.
LEMMA LifeNext == TypeOK /\ Life /\ [Next]_vars => Life'
<1> SUFFICES ASSUME TypeOK, Life, [Next]_vars PROVE Life'
  BY Zenon
<1>1. CASE Release  BY <1>1, Zenon DEF Release, Life
<1>2. CASE Drop  BY <1>2, Zenon DEF Drop, Life
<1>3. CASE Join
  <2>1. \A w \in DOMAIN workers : w <= joined + 1 => w <= joined \/ w = joined + 1
    BY IndexFacts DEF TypeOK
  <2> QED BY <1>3, <2>1, Zenon DEF Join, Life
<1>4. CASE Dropped  BY <1>4, Zenon DEF Dropped, Life
<1>5. CASE \E c \in Calls : CallStep(c)  BY <1>5, LifeCalls, Zenon
<1>6. CASE \E w \in DOMAIN workers : WorkerStep(w)  BY <1>6, LifeWorkers, Zenon
<1>7. CASE UNCHANGED vars  BY <1>7, Zenon DEF vars, Life
<1> QED BY <1>1, <1>2, <1>3, <1>4, <1>5, <1>6, <1>7, Zenon DEF Next, DropStep

\* What the drop leaves behind follows from the life of the pool.
LEMMA DropLeavesNothingHolds == TypeOK /\ Life => DropLeavesNothing
<1> SUFFICES ASSUME TypeOK, Life, pool = "gone" PROVE DropLeavesNothing
  BY Zenon DEF DropLeavesNothing
<1>1. DOMAIN workers = 1..Len(workers)  BY IndexFacts, Zenon DEF TypeOK
<1>2. \A w \in DOMAIN workers : w <= joined  BY <1>1 DEF Life
<1>3. \A w \in DOMAIN workers : workers[w].pc \in Ended  BY <1>2, Zenon DEF Life
<1>4. queue # << >> => \A w \in DOMAIN workers : workers[w].pc = "failed"
  BY <1>3, Zenon DEF Life, Ended
<1>5. queue # << >> => workers # << >>  BY DEF Life
<1> QED BY <1>3, <1>4, <1>5, Zenon DEF DropLeavesNothing, AllFailed

-----------------------------------------------------------------------------
(* The pending count.                                                       *)

Counted == {c \in Calls : call[c] \in {"counted", "refused", "ready"}}
Pending == Counted \cup Queued \cup Running
Counts == IsFiniteSet(Pending) /\ PendingCounts

\* The count is a natural number.
LEMMA CountsNat == Counts => pending \in Nat
  BY FS_CardinalityType, Zenon DEF Counts, PendingCounts, Pending, Counted

\* A new pool has no pending tasks.
LEMMA CountsInit == Init => Counts
<1> SUFFICES ASSUME Init PROVE Counts
  BY Zenon
<1>1. Pending = {}  BY DEF Init, Pending, Counted, Queued, Running
<1>2. IsFiniteSet({}) /\ Cardinality({}) = 0  BY FS_EmptySet, Zenon
<1>3. pending = Cardinality(Pending)  BY <1>1, <1>2, Zenon DEF Init
<1> QED BY <1>1, <1>2, <1>3, Zenon DEF Counts, PendingCounts, Pending, Counted

\* Who moves on without being counted or counted down changes nothing.
LEMMA CountsSame ==
  ASSUME Counts, Pending' = Pending, pending' = pending
  PROVE  Counts'
<1>1. pending = Cardinality(Pending)  BY Zenon DEF Counts, PendingCounts, Pending, Counted
<1>2. pending' = Cardinality(Pending')  BY <1>1, Zenon
<1>3. IsFiniteSet(Pending')  BY Zenon DEF Counts
<1> QED BY <1>2, <1>3, Zenon DEF Counts, PendingCounts, Pending, Counted

\* fetch_add counts a call that was not counted.
LEMMA CountsUp ==
  ASSUME Counts, NEW c, c \notin Pending, Pending' = Pending \cup {c}, pending' = pending + 1
  PROVE  Counts'
<1>1. pending = Cardinality(Pending) /\ IsFiniteSet(Pending)
  BY Zenon DEF Counts, PendingCounts, Pending, Counted
<1>2. IsFiniteSet(Pending') /\ Cardinality(Pending') = Cardinality(Pending) + 1
  BY <1>1, FS_AddElement, Zenon
<1>3. pending' = Cardinality(Pending')  BY <1>1, <1>2, Zenon
<1> QED BY <1>2, <1>3, Zenon DEF Counts, PendingCounts, Pending, Counted

\* fetch_sub counts one down that was.
LEMMA CountsDown ==
  ASSUME Counts, NEW c, c \in Pending, Pending' = Pending \ {c}, pending' = pending - 1
  PROVE  Counts'
<1>1. pending = Cardinality(Pending) /\ IsFiniteSet(Pending)
  BY Zenon DEF Counts, PendingCounts, Pending, Counted
<1>2. IsFiniteSet(Pending') /\ Cardinality(Pending') = Cardinality(Pending) - 1
  BY <1>1, FS_RemoveElement, Zenon
<1>3. pending' = Cardinality(Pending')  BY <1>1, <1>2, Zenon
<1> QED BY <1>2, <1>3, Zenon DEF Counts, PendingCounts, Pending, Counted

\* Counted tasks are neither in the channel nor with a worker.
LEMMA CountedApart ==
  ASSUME Placed, NEW c, call[c] \notin {"waiting", "done"}
  PROVE  c \notin Queued /\ c \notin Running
  BY Zenon DEF Placed

\* Each step of a caller keeps the count true.
LEMMA CountsCalls ==
  ASSUME TypeOK, Placed, Counts, NEW c \in Calls, CallStep(c)
  PROVE  Counts'
<1>0. call \in [Calls -> Inside \cup {"new", "done"}]  BY Zenon DEF TypeOK
<1>1. CASE Snapshot(c)
  <2>1. Counted' = Counted /\ UNCHANGED <<Queued, Running>>
    BY <1>0, <1>1, Zenon DEF Snapshot, SetCall, Counted, Queued, Running
  <2> QED BY <1>1, <2>1, CountsSame, Zenon DEF Snapshot, Pending
<1>2. CASE LetGo(c)
  <2>1. Counted' = Counted /\ UNCHANGED <<Queued, Running>>
    BY <1>0, <1>2, Zenon DEF LetGo, SetCall, Counted, Queued, Running
  <2> QED BY <1>2, <2>1, CountsSame, Zenon DEF LetGo, Pending
<1>3. CASE Count(c)
  <2>1. c \notin Counted /\ Counted' = Counted \cup {c} /\ UNCHANGED <<Queued, Running>>
    BY <1>0, <1>3, Zenon DEF Count, SetCall, Counted, Queued, Running
  <2>2. c \notin Pending  BY <1>3, <2>1, CountedApart, Zenon DEF Count, SetCall, Pending
  <2>3. Pending' = Pending \cup {c}  BY <2>1, Zenon DEF Pending
  <2> QED BY <1>3, <2>2, <2>3, CountsUp, Zenon DEF Count
<1>4. CASE ensure_worker_capacity(c)
  <2>1. PICK to \in {"ready", "refused"} : SetCall(c, "counted", to)
    BY <1>4, Zenon DEF ensure_worker_capacity
  <2>2. Counted' = Counted  BY <1>0, <2>1, Zenon DEF SetCall, Counted
  <2>3. Queued' = Queued  BY <1>4, Zenon DEF ensure_worker_capacity, Queued
  <2>4. Running' = Running
    <3>1. CASE UNCHANGED workers  BY <3>1, Zenon DEF Running
    <3>2. CASE workers' = Append(workers, Worker("starting", None))  BY <3>2, SpawnFacts, Zenon
    <3> QED BY <1>4, <3>1, <3>2, Zenon DEF ensure_worker_capacity
  <2> QED BY <1>4, <2>2, <2>3, <2>4, CountsSame, Zenon DEF ensure_worker_capacity, Pending
<1>5. CASE Refuse(c)
  <2>1. c \in Counted /\ Counted' = Counted \ {c} /\ UNCHANGED <<Queued, Running>>
    BY <1>0, <1>5, Zenon DEF Refuse, SetCall, Counted, Queued, Running
  <2>2. c \notin Queued /\ c \notin Running  BY <1>5, CountedApart, Zenon DEF Refuse, SetCall
  <2>3. c \in Pending /\ Pending' = Pending \ {c}  BY <2>1, <2>2, Zenon DEF Pending
  <2> QED BY <1>5, <2>3, CountsDown, Zenon DEF Refuse
<1>6. CASE Send(c)
  <2>1. c \in Counted /\ Counted' = Counted \ {c} /\ Running' = Running
    BY <1>0, <1>6, Zenon DEF Send, SetCall, Counted, Running
  <2>2. Queued' = Queued \cup {c}  BY <1>6, QueuedAppend, Zenon DEF Send
  <2>3. Pending' = Pending  BY <2>1, <2>2, Zenon DEF Pending
  <2> QED BY <1>6, <2>3, CountsSame, Zenon DEF Send
<1>7. CASE Cancel(c)
  <2>1. Counted' = Counted /\ UNCHANGED <<Queued, Running>>
    BY <1>0, <1>7, Zenon DEF Cancel, SetCall, Counted, Queued, Running
  <2> QED BY <1>7, <2>1, CountsSame, Zenon DEF Cancel, Pending
<1> QED BY <1>1, <1>2, <1>3, <1>4, <1>5, <1>6, <1>7, Zenon DEF CallStep, Proceed

\* Each step of a worker keeps the count true.
LEMMA CountsWorkers ==
  ASSUME TypeOK, Placed, Counts, NEW w \in DOMAIN workers, WorkerStep(w)
  PROVE  Counts'
<1>1. ASSUME NEW p, NEW t, SetWorker(w, p, t), workers[w].pc # "running", p # "running",
             UNCHANGED <<queue, pending>>, Counted' = Counted
      PROVE  Counts'
  <2>1. Running' = Running  BY <1>1, RunningSame, Zenon
  <2>2. Queued' = Queued  BY <1>1, Zenon DEF Queued
  <2>3. Pending' = Pending  BY <1>1, <2>1, <2>2, Zenon DEF Pending
  <2> QED BY <1>1, <2>3, CountsSame, Zenon
<1>2. ASSUME UNCHANGED call PROVE Counted' = Counted  BY <1>2, Zenon DEF Counted
<1>3. CASE StartWorker(w)
  <2>1. PICK p \in {"idle", "failed"} : SetWorker(w, p, None)  BY <1>3, Zenon DEF StartWorker
  <2> QED BY <1>1, <1>2, <1>3, <2>1, Zenon DEF StartWorker, AtWorker
<1>4. CASE LockReceiver(w)  BY <1>1, <1>2, <1>4, Zenon DEF LockReceiver, AtWorker
<1>5. CASE Recv(w)
  <2>1. /\ SetWorker(w, "running", Head(queue)) /\ workers[w].pc = "holding"
        /\ queue # << >> /\ queue' = Tail(queue) /\ UNCHANGED <<pending, call>>
    BY <1>5, Zenon DEF Recv, AtWorker
  <2>2. Head(queue) \in Queued /\ Queued' = Queued \ {Head(queue)}
    BY <2>1, QueuedTail, Zenon DEF Placed
  <2>3. Running' = Running \cup {Head(queue)}  BY <2>1, RunningStarts, Zenon
  <2>4. Counted' = Counted  BY <1>2, <2>1, Zenon
  <2>5. Pending' = Pending  BY <2>2, <2>3, <2>4, Zenon DEF Pending
  <2> QED BY <2>1, <2>5, CountsSame, Zenon
<1>6. CASE Disconnected(w)  BY <1>1, <1>2, <1>6, Zenon DEF Disconnected, AtWorker
<1>7. CASE Execute(w)
  <2> DEFINE t == workers[w].task
  <2>1. /\ SetWorker(w, "replying", t) /\ workers[w].pc = "running"
        /\ pending' = pending - 1 /\ UNCHANGED <<queue, call>>
    BY <1>7, Zenon DEF Execute, AtWorker
  <2>2. t \in Running /\ Running' = Running \ {t}  BY <2>1, RunningEnds, Zenon DEF Placed
  <2>3. Counted' = Counted /\ Queued' = Queued  BY <1>2, <2>1, Zenon DEF Queued
  <2> HIDE DEF t
  <2>4. t \notin Queued  BY <2>2, Zenon DEF Placed
  <2>5. t \notin Counted  BY <2>2, Zenon DEF Placed, Counted
  <2>6. t \in Pending /\ Pending' = Pending \ {t}  BY <2>2, <2>3, <2>4, <2>5, Zenon DEF Pending
  <2> QED BY <2>1, <2>6, CountsDown, Zenon
<1>8. CASE Reply(w)
  <2> DEFINE t == workers[w].task
  <2>1. /\ SetWorker(w, "idle", None) /\ workers[w].pc = "replying"
        /\ call' = [call EXCEPT ![t] = "done"] /\ UNCHANGED <<queue, pending>>
    BY <1>8, Zenon DEF Reply, AtWorker
  <2>2. t \in executed  BY <2>1, Zenon DEF Placed
  <2>3. call[t] \in {"waiting", "done"}  BY <2>2, Zenon DEF Placed
  <2>4. Counted' = Counted
    <3> HIDE DEF t
    <3> QED BY <2>1, <2>2, <2>3, Zenon DEF Counted, TypeOK
  <2> QED BY <1>1, <2>1, <2>4, Zenon
<1> QED BY <1>3, <1>4, <1>5, <1>6, <1>7, <1>8, Zenon DEF WorkerStep

\* Every step keeps the count true.
LEMMA CountsNext == TypeOK /\ Placed /\ Counts /\ [Next]_vars => Counts'
<1> SUFFICES ASSUME TypeOK, Placed, Counts, [Next]_vars PROVE Counts'
  BY Zenon
<1>1. CASE UNCHANGED <<queue, workers, call, pending>>
  <2>1. UNCHANGED Pending  BY <1>1, Zenon DEF Pending, Counted, Queued, Running
  <2> QED BY <1>1, <2>1, CountsSame, Zenon
<1>2. CASE \E c \in Calls : CallStep(c)  BY <1>2, CountsCalls, Zenon
<1>3. CASE \E w \in DOMAIN workers : WorkerStep(w)  BY <1>3, CountsWorkers, Zenon
<1> QED BY <1>1, <1>2, <1>3, Zenon DEF Next, Release, DropStep, Drop, Join, Dropped, vars

-----------------------------------------------------------------------------
(* The invariants.                                                          *)

PoolInv == TypeOK /\ Placed /\ Life /\ Counts

\* The four parts together are inductive: the types need the count not to be
\* negative, and the count needs to know where tasks are.
LEMMA PoolInvariant == Spec => []PoolInv
<1>1. Init => PoolInv  BY TypeInit, PlacedInit, LifeInit, CountsInit, Zenon DEF PoolInv
<1>2. PoolInv /\ [Next]_vars => PoolInv'
  BY TypeNext, PlacedNext, LifeNext, CountsNext, CountsNat, Zenon DEF PoolInv
<1> QED BY <1>1, <1>2, PTL DEF Spec

\* TypeOK, in every state of the pool, for any calls and any limit of workers.
THEOREM TypeOKAlways == Spec => []TypeOK
<1>1. PoolInv => TypeOK  BY Zenon DEF PoolInv
<1> QED BY <1>1, PoolInvariant, PTL

\* PendingCounts: pending_tasks counts exactly the calls on their way into the
\* channel, in it or being executed, whatever threads fail and callers leave.
THEOREM PendingCountsAlways == Spec => []PendingCounts
<1>1. PoolInv => PendingCounts  BY Zenon DEF PoolInv, Counts
<1> QED BY <1>1, PoolInvariant, PTL

\* DropLeavesNothing: once the drop has returned no thread of the pool is left,
\* and no task, unless every worker failed to start.
THEOREM DropLeavesNothingAlways == Spec => []DropLeavesNothing
<1>1. PoolInv => DropLeavesNothing  BY DropLeavesNothingHolds, Zenon DEF PoolInv
<1> QED BY <1>1, PoolInvariant, PTL

-----------------------------------------------------------------------------
(* The pool implements ScriptRuntimePool.                                   *)

Waiting == {c \in Calls : call[c] = "waiting"}

\* While one of at most MaxWorkers workers holds the receiver, the others run
\* fewer than MaxWorkers scripts.
LEMMA RoomToRun ==
  ASSUME TypeOK, Life, NEW w \in DOMAIN workers, workers[w].pc # "running"
  PROVE  Cardinality(Running) < MaxWorkers
<1> DEFINE S == {v \in DOMAIN workers : workers[v].pc = "running"}
           I == 1..Len(workers)
           f == [v \in S |-> workers[v].task]
<1>1. DOMAIN workers = I /\ Len(workers) \in Nat  BY IndexFacts, Zenon DEF TypeOK
<1>2. IsFiniteSet(I) /\ Cardinality(I) = Len(workers)
  <2>1. 1 \in Int /\ Len(workers) \in Int  BY <1>1
  <2>2. /\ IsFiniteSet(1..Len(workers))
        /\ Cardinality(1..Len(workers)) = IF 1 > Len(workers) THEN 0 ELSE Len(workers) - 1 + 1
    BY <2>1, FS_Interval, Zenon
  <2> QED BY <1>1, <2>2
<1>3. IsFiniteSet(I \ {w}) /\ Cardinality(I \ {w}) = Len(workers) - 1
  <2> HIDE DEF I
  <2>1. w \in I  BY <1>1, Zenon
  <2> QED BY <1>2, <2>1, FS_RemoveElement, Zenon
<1>4. S \in SUBSET (I \ {w})  BY <1>1, Zenon
<1>5. f \in Surjection(S, Running)  BY Zenon DEF Running, Surjection
<1> HIDE DEF S, I, f
<1>6. IsFiniteSet(S) /\ Cardinality(S) <= Len(workers) - 1  BY <1>3, <1>4, FS_Subset
<1>7. IsFiniteSet(Running) /\ Cardinality(Running) <= Cardinality(S)
  BY <1>5, <1>6, FS_Surjection, Zenon
<1>8. Cardinality(Running) \in Nat /\ Cardinality(S) \in Nat  BY <1>6, <1>7, FS_CardinalityType, Zenon
<1> QED BY <1>1, <1>6, <1>7, <1>8, PoolAssumption DEF Life

\* The initial states map to initial states.
LEMMA ImplementsInit == Init => Abstract!Init
  BY DEF Init, Abstract!Init, Queued, Running

\* A step of a caller submits its task, cancels its wait, or is not seen.
LEMMA ImplementsCalls ==
  ASSUME PoolInv, NEW c \in Calls, CallStep(c)
  PROVE  Abstract!Next \/ UNCHANGED Abstract!poolVars
<1>0. call \in [Calls -> Inside \cup {"new", "done"}] /\ TypeOK /\ Placed
  BY Zenon DEF PoolInv, TypeOK
<1>1. ASSUME NEW from, NEW to, SetCall(c, from, to), from # "waiting", to # "waiting",
             UNCHANGED <<queue, executed, tx>>, Running' = Running
      PROVE  UNCHANGED Abstract!poolVars
  <2>1. Waiting' = Waiting  BY <1>0, <1>1, Zenon DEF Waiting, SetCall
  <2>2. Queued' = Queued  BY <1>1, Zenon DEF Queued
  <2> QED BY <1>1, <2>1, <2>2, Zenon DEF Abstract!poolVars, Waiting
<1>2. ASSUME UNCHANGED workers PROVE Running' = Running  BY <1>2, Zenon DEF Running
<1>3. CASE Snapshot(c)  BY <1>1, <1>2, <1>3, Zenon DEF Snapshot
<1>4. CASE LetGo(c)  BY <1>1, <1>2, <1>4, Zenon DEF LetGo
<1>5. CASE Count(c)  BY <1>1, <1>2, <1>5, Zenon DEF Count
<1>6. CASE ensure_worker_capacity(c)
  <2>1. PICK to \in {"ready", "refused"} : SetCall(c, "counted", to)
    BY <1>6, Zenon DEF ensure_worker_capacity
  <2>2. Running' = Running
    <3>1. CASE workers' = Append(workers, Worker("starting", None))  BY <1>0, <3>1, SpawnFacts, Zenon
    <3> QED BY <1>2, <1>6, <3>1, Zenon DEF ensure_worker_capacity
  <2>3. UNCHANGED <<queue, executed, tx>>  BY <1>6, Zenon DEF ensure_worker_capacity
  <2> QED BY <1>1, <2>1, <2>2, <2>3, Zenon
<1>7. CASE Refuse(c)  BY <1>1, <1>2, <1>7, Zenon DEF Refuse
<1>8. CASE Send(c)
  <2>1. /\ tx /\ SetCall(c, "ready", "waiting")
        /\ queue' = Append(queue, c) /\ UNCHANGED <<tx, workers, executed>>
    BY <1>8, Zenon DEF Send
  <2>2. c \notin Queued \cup Running \cup executed  BY <1>0, <2>1, Zenon DEF Placed, SetCall
  <2>3. Queued' = Queued \cup {c}  BY <1>0, <2>1, QueuedAppend, Zenon
  <2>4. Waiting' = Waiting \cup {c}  BY <1>0, <2>1, Zenon DEF Waiting, SetCall
  <2>5. Running' = Running  BY <1>2, <2>1, Zenon
  <2>6. Abstract!Submit(c)
    BY <2>1, <2>2, <2>3, <2>4, <2>5, Zenon DEF Abstract!Submit, Waiting
  <2> QED BY <2>6, Zenon DEF Abstract!Next
<1>9. CASE Cancel(c)
  <2>1. SetCall(c, "waiting", "done") /\ UNCHANGED <<queue, tx, workers, executed>>
    BY <1>9, Zenon DEF Cancel
  <2>2. c \in Waiting /\ Waiting' = Waiting \ {c}  BY <1>0, <2>1, Zenon DEF Waiting, SetCall
  <2>3. UNCHANGED <<Queued, Running>>  BY <2>1, Zenon DEF Queued, Running
  <2>4. Abstract!Cancel(c)  BY <2>1, <2>2, <2>3, Zenon DEF Abstract!Cancel, Waiting
  <2> QED BY <2>4, Zenon DEF Abstract!Next
<1> QED BY <1>3, <1>4, <1>5, <1>6, <1>7, <1>8, <1>9, ZenonT(40) DEF CallStep, Proceed

\* A step of a worker starts, finishes or answers one call, or is not seen.
LEMMA ImplementsWorkers ==
  ASSUME PoolInv, NEW w \in DOMAIN workers, WorkerStep(w)
  PROVE  Abstract!Next \/ UNCHANGED Abstract!poolVars
<1>0. TypeOK /\ Placed /\ Life /\ call \in [Calls -> Inside \cup {"new", "done"}]
  BY Zenon DEF PoolInv, TypeOK
<1>1. ASSUME UNCHANGED call PROVE Waiting' = Waiting  BY <1>1, Zenon DEF Waiting
<1>2. ASSUME NEW p, SetWorker(w, p, None), workers[w].pc # "running", p # "running",
             UNCHANGED <<queue, executed, tx, call>>
      PROVE  UNCHANGED Abstract!poolVars
  <2>1. Running' = Running  BY <1>0, <1>2, RunningSame, Zenon
  <2>2. Queued' = Queued /\ Waiting' = Waiting  BY <1>1, <1>2, Zenon DEF Queued
  <2> QED BY <1>2, <2>1, <2>2, Zenon DEF Abstract!poolVars, Waiting
<1>3. CASE StartWorker(w)
  <2>1. PICK p \in {"idle", "failed"} : SetWorker(w, p, None)  BY <1>3, Zenon DEF StartWorker
  <2> QED BY <1>2, <1>3, <2>1, Zenon DEF StartWorker, AtWorker
<1>4. CASE LockReceiver(w)  BY <1>2, <1>4, Zenon DEF LockReceiver, AtWorker
<1>5. CASE Recv(w)
  <2> DEFINE h == Head(queue)
  <2>1. /\ SetWorker(w, "running", h) /\ workers[w].pc = "holding"
        /\ queue # << >> /\ queue' = Tail(queue) /\ UNCHANGED <<tx, executed, call>>
    BY <1>5, Zenon DEF Recv, AtWorker
  <2>2. h \in Queued /\ Queued' = Queued \ {h}  BY <1>0, <2>1, QueuedTail, Zenon DEF Placed
  <2>3. Running' = Running \cup {h}  BY <1>0, <2>1, RunningStarts, Zenon
  <2>4. Waiting' = Waiting  BY <1>1, <2>1, Zenon
  <2>5. Cardinality(Running) < MaxWorkers  BY <1>0, <2>1, RoomToRun, Zenon
  <2> HIDE DEF h
  <2>6. h \in Calls  BY <1>0, <2>2, Tasks, Zenon
  <2>7. Abstract!Cardinality(Running) < MaxWorkers
    BY <2>5, Zenon DEF Abstract!Cardinality, Cardinality
  <2>8. Abstract!Start(h)
    BY <2>1, <2>2, <2>3, <2>4, <2>7, Zenon DEF Abstract!Start, Waiting
  <2> QED BY <2>6, <2>8, Zenon DEF Abstract!Next
<1>6. CASE Disconnected(w)  BY <1>2, <1>6, Zenon DEF Disconnected, AtWorker
<1>7. CASE Execute(w)
  <2> DEFINE t == workers[w].task
  <2>1. /\ SetWorker(w, "replying", t) /\ workers[w].pc = "running"
        /\ executed' = executed \cup {t} /\ UNCHANGED <<queue, call, tx>>
    BY <1>7, Zenon DEF Execute, AtWorker
  <2>2. t \in Running /\ Running' = Running \ {t}  BY <1>0, <2>1, RunningEnds, Zenon DEF Placed
  <2>3. Queued' = Queued /\ Waiting' = Waiting  BY <1>1, <2>1, Zenon DEF Queued
  <2> HIDE DEF t
  <2>4. t \in Calls  BY <1>0, <2>2, Tasks, Zenon
  <2>5. Abstract!Finish(t)  BY <2>1, <2>2, <2>3, Zenon DEF Abstract!Finish, Waiting
  <2> QED BY <2>4, <2>5, Zenon DEF Abstract!Next
<1>8. CASE Reply(w)
  <2>0. workers[w].task \in executed /\ workers[w].task \in Calls
    BY <1>0, <1>8, Zenon DEF Placed, TypeOK, Reply, AtWorker
  <2>1. PICK t \in Calls : t = workers[w].task  BY <2>0, Zenon
  <2>2. t \in executed  BY <2>0, <2>1, Zenon
  <2>3. /\ SetWorker(w, "idle", None) /\ workers[w].pc = "replying"
        /\ call' = [call EXCEPT ![t] = "done"] /\ UNCHANGED <<queue, executed, tx>>
    BY <1>8, <2>1, Zenon DEF Reply, AtWorker
  <2>4. Running' = Running /\ Queued' = Queued  BY <1>0, <2>3, RunningSame, Zenon DEF Queued
  <2>5. Waiting' = Waiting \ {t}  BY <1>0, <2>3, Zenon DEF Waiting
  <2>6. CASE t \in Waiting
    <3>1. Abstract!Answer(t)
      BY <2>2, <2>3, <2>4, <2>5, <2>6, Zenon DEF Abstract!Answer, Waiting
    <3> QED BY <3>1, Zenon DEF Abstract!Next
  <2>7. CASE t \notin Waiting
    <3>1. Waiting' = Waiting  BY <2>5, <2>7, Zenon
    <3> QED BY <2>3, <2>4, <3>1, Zenon DEF Abstract!poolVars, Waiting
  <2> QED BY <2>6, <2>7, Zenon
<1> QED BY <1>3, <1>4, <1>5, <1>6, <1>7, <1>8, Zenon DEF WorkerStep

\* Every step of the pool is one of the abstract pool, or none.
LEMMA ImplementsNext == PoolInv /\ [Next]_vars => [Abstract!Next]_(Abstract!poolVars)
<1> SUFFICES ASSUME PoolInv, [Next]_vars
             PROVE  Abstract!Next \/ UNCHANGED Abstract!poolVars
  BY Zenon
<1>1. CASE UNCHANGED <<queue, workers, call, executed, tx>>
  <2>1. UNCHANGED <<Waiting, Queued, Running>>  BY <1>1, Zenon DEF Waiting, Queued, Running
  <2> QED BY <1>1, <2>1, Zenon DEF Abstract!poolVars, Waiting
<1>2. CASE Drop
  <2>1. UNCHANGED <<Waiting, Queued, Running, executed>> /\ tx' = FALSE
    BY <1>2, Zenon DEF Drop, Waiting, Queued, Running
  <2>2. Waiting = {}  BY <1>2, Zenon DEF Drop, Waiting, Inside
  <2>3. tx  BY <1>2, Zenon DEF Drop, PoolInv, Life
  <2>4. tx = TRUE  BY <2>3, Zenon DEF PoolInv, TypeOK
  <2>5. Abstract!Close  BY <2>1, <2>2, <2>4, Zenon DEF Abstract!Close, Waiting
  <2> QED BY <2>5, Zenon DEF Abstract!Next
<1>3. CASE \E c \in Calls : CallStep(c)  BY <1>3, ImplementsCalls, Zenon
<1>4. CASE \E w \in DOMAIN workers : WorkerStep(w)  BY <1>4, ImplementsWorkers, Zenon
<1> QED BY <1>1, <1>2, <1>3, <1>4, Zenon DEF Next, Release, DropStep, Join, Dropped, vars

\* ImplementsRuntimePool: for any calls and any plugins.workers, what execute, the
\* worker threads and the drop do is what the plugin stages rely on.
THEOREM ImplementsRuntimePoolAlways == Spec => ImplementsRuntimePool
<1>1. Spec => Init /\ [][Next]_vars  BY Zenon DEF Spec
<1> QED BY <1>1, ImplementsInit, ImplementsNext, PoolInvariant, PTL
        DEF ImplementsRuntimePool, Abstract!Spec
-----------------------------------------------------------------------------
(* Nobody waits for nothing.                                                *)

Served(c) == \E w \in DOMAIN workers : workers[w].task = c
Owed == \A c \in Calls : call[c] = "waiting" => c \in Queued \/ Served(c)

\* A worker's step that leaves the channel alone and at most drops the task of a
\* call that waits no more.
LEMMA OwedWorker ==
  ASSUME TypeOK, Owed, NEW w \in DOMAIN workers, NEW p, NEW t, SetWorker(w, p, t),
         UNCHANGED queue,
         t = workers[w].task \/ workers[w].task = None \/ call'[workers[w].task] # "waiting",
         \A c \in Calls : call'[c] = "waiting" => call[c] = "waiting"
  PROVE  Owed'
<1>1. /\ DOMAIN workers' = DOMAIN workers /\ workers'[w].task = t
      /\ \A v \in DOMAIN workers : v # w => workers'[v] = workers[v]
  BY WorkerSets, Zenon
<1>2. Queued' = Queued  BY Zenon DEF Queued
<1> SUFFICES ASSUME NEW c \in Calls, call'[c] = "waiting" PROVE c \in Queued \/ Served(c)'
  BY <1>2, Zenon DEF Owed
<1>3. c \in Queued \/ Served(c)  BY Zenon DEF Owed
<1>4. ASSUME NEW v \in DOMAIN workers, workers[v].task = c PROVE Served(c)'
  <2>1. CASE v # w  BY <1>1, <1>4, <2>1, Zenon DEF Served
  <2>2. CASE v = w
    <3>1. workers[w].task # None  BY <1>4, <2>2, PoolAssumption, Zenon
    <3>2. t = c  BY <1>4, <2>2, <3>1, Zenon
    <3> QED BY <1>1, <3>2, Zenon DEF Served
  <2> QED BY <2>1, <2>2, Zenon
<1> QED BY <1>3, <1>4, Zenon DEF Served

\* recv loses no task but the first.
LEMMA QueuedLeft ==
  ASSUME TypeOK, queue # << >>, queue' = Tail(queue), NEW c \in Queued
  PROVE  c = Head(queue) \/ c \in Queued'
<1>1. /\ Head(queue) = queue[1] /\ DOMAIN queue = 1..Len(queue) /\ Len(queue) \in Nat
      /\ DOMAIN queue' = 1..(Len(queue) - 1)
      /\ \A k \in 1..(Len(queue) - 1) : queue'[k] = queue[k + 1]
  BY TailFacts, IndexFacts, Zenon DEF TypeOK
<1>2. PICK k \in DOMAIN queue : c = queue[k]  BY Zenon DEF Queued
<1>3. CASE k = 1  BY <1>1, <1>2, <1>3, Zenon
<1>4. CASE k # 1
  <2>1. k - 1 \in 1..(Len(queue) - 1) /\ (k - 1) + 1 = k  BY <1>1, <1>4
  <2>2. k - 1 \in DOMAIN queue' /\ queue'[k - 1] = c  BY <1>1, <1>2, <2>1, Zenon
  <2> QED BY <2>2, Zenon DEF Queued
<1> QED BY <1>3, <1>4, Zenon

\* A caller that awaits a reply has its task in the channel or with a worker.
LEMMA OwedNext == TypeOK /\ Owed /\ [Next]_vars => Owed'
<1> SUFFICES ASSUME TypeOK, Owed, [Next]_vars PROVE Owed'
  BY Zenon
<1>0. call \in [Calls -> Inside \cup {"new", "done"}]  BY Zenon DEF TypeOK
<1>1. CASE UNCHANGED <<queue, workers, call>>
  BY <1>1, Zenon DEF Owed, Queued, Served
<1>2. ASSUME NEW c \in Calls, CallStep(c) PROVE Owed'
  <2>1. CASE Send(c)
    <3>1. Queued' = Queued \cup {c}  BY <2>1, QueuedAppend, Zenon DEF Send
    <3>2. \A d \in Calls : d # c => call'[d] = call[d]  BY <1>0, <2>1, Zenon DEF Send, SetCall
    <3>3. \A d : Served(d)' <=> Served(d)  BY <2>1, Zenon DEF Send, Served
    <3> QED BY <3>1, <3>2, <3>3, Zenon DEF Owed
  <2>2. CASE ~Send(c)
    <3>1. Queued' = Queued  BY <1>2, <2>2, Zenon DEF CallStep, Proceed, Snapshot, LetGo, Count,
            ensure_worker_capacity, Refuse, Cancel, Queued
    <3>2. \A d \in Calls : call'[d] = "waiting" => call[d] = "waiting"
      <4>1. PICK to \in {"held", "done", "counted", "ready", "refused"} :
              call' = [call EXCEPT ![c] = to]
        BY <1>2, <2>2, Zenon DEF CallStep, Proceed, Snapshot, LetGo, Count,
             ensure_worker_capacity, Refuse, Cancel, SetCall
      <4> QED BY <1>0, <4>1, Zenon
    <3>3. \A v \in DOMAIN workers : v \in DOMAIN workers' /\ workers'[v] = workers[v]
      <4>1. CASE workers' = workers  BY <4>1, Zenon
      <4>2. CASE workers' = Append(workers, Worker("starting", None))  BY <4>2, SpawnFacts, Zenon
      <4> QED BY <1>2, <2>2, <4>1, <4>2, Zenon DEF CallStep, Proceed, Snapshot, LetGo, Count,
                   ensure_worker_capacity, Refuse, Cancel
    <3>4. \A d : Served(d) => Served(d)'  BY <3>3, Zenon DEF Served
    <3> QED BY <3>1, <3>2, <3>4, Zenon DEF Owed
  <2> QED BY <2>1, <2>2, Zenon
<1>3. ASSUME NEW w \in DOMAIN workers, WorkerStep(w) PROVE Owed'
  <2>1. CASE StartWorker(w) \/ LockReceiver(w) \/ Disconnected(w)
    <3>1. PICK p : SetWorker(w, p, None)
      BY <2>1, Zenon DEF StartWorker, LockReceiver, Disconnected
    <3>2. workers[w].task = None
      BY <2>1, Zenon DEF StartWorker, LockReceiver, Disconnected, AtWorker, TypeOK
    <3>3. UNCHANGED <<queue, call>>  BY <2>1, Zenon DEF StartWorker, LockReceiver, Disconnected
    <3> QED BY <3>1, <3>2, <3>3, OwedWorker, Zenon
  <2>2. CASE Execute(w)  BY <2>2, OwedWorker, Zenon DEF Execute
  <2>3. CASE Reply(w)
    <3>1. /\ workers[w].task \in Calls
          /\ SetWorker(w, "idle", None) /\ UNCHANGED queue
          /\ call' = [call EXCEPT ![workers[w].task] = "done"]
      <4>1. workers[w].task # None /\ workers[w] \in WorkerSet
        BY <2>3, IndexFacts, Zenon DEF Reply, AtWorker, TypeOK, WorkerSet
      <4> QED BY <2>3, <4>1, Zenon DEF Reply, WorkerSet
    <3>2. /\ call'[workers[w].task] # "waiting"
          /\ \A c \in Calls : call'[c] = "waiting" => call[c] = "waiting"
      BY <1>0, <3>1, Zenon
    <3> QED BY <3>1, <3>2, OwedWorker, Zenon
  <2>4. CASE Recv(w)
    <3>0. PICK h : h = Head(queue)  BY Zenon
    <3>1. /\ SetWorker(w, "running", h) /\ queue # << >> /\ queue' = Tail(queue)
          /\ UNCHANGED call /\ workers[w].task = None
      BY <2>4, <3>0, Zenon DEF Recv, AtWorker, TypeOK
    <3>2. \A c \in Queued : c = h \/ c \in Queued'  BY <3>0, <3>1, QueuedLeft, Zenon
    <3>3. /\ DOMAIN workers' = DOMAIN workers /\ workers'[w].task = h
          /\ \A v \in DOMAIN workers : v # w => workers'[v] = workers[v]
      BY <3>1, WorkerSets, Zenon
    <3>4. Served(h)'  BY <3>3, Zenon DEF Served
    <3>5. \A c \in Calls : Served(c) => Served(c)'
      BY <3>1, <3>3, PoolAssumption, Zenon DEF Served
    <3> QED BY <3>1, <3>2, <3>4, <3>5, Zenon DEF Owed
  <2> QED BY <1>3, <2>1, <2>2, <2>3, <2>4, Zenon DEF WorkerStep
<1> QED BY <1>1, <1>2, <1>3, Zenon DEF Next, Release, DropStep, Drop, Join, Dropped, vars

\* One worker that has not ended can act, or the one that it waits for can, when
\* there is a task in the channel or the sender is gone.
LEMMA SomebodyActs ==
  ASSUME TypeOK, NEW w \in DOMAIN workers, workers[w].pc \notin Ended, queue # << >> \/ ~tx
  PROVE  \E v \in DOMAIN workers : CanAct(v)
<1>1. workers[w].pc \in WorkerPcs
  <2>1. workers[w] \in WorkerSet  BY IndexFacts, Zenon DEF TypeOK, WorkerSet
  <2> QED BY <2>1, Zenon DEF WorkerSet
<1>2. CASE \E v \in DOMAIN workers : workers[v].pc = "holding"  BY <1>2, Zenon DEF CanAct
<1>3. CASE \A v \in DOMAIN workers : workers[v].pc # "holding"
  <2>1. workers[w].pc \in {"starting", "idle", "running", "replying"}
    BY <1>1, <1>3, Zenon DEF WorkerPcs
  <2> QED BY <1>3, <2>1, Zenon DEF CanAct
<1> QED BY <1>2, <1>3, Zenon

\* NobodyIsStuck follows from where the tasks and the workers are.
LEMMA NobodyIsStuckHolds == PoolInv /\ Owed => NobodyIsStuck
<1> SUFFICES ASSUME TypeOK, Life, Owed PROVE NobodyIsStuck
  BY Zenon DEF PoolInv
<1>1. ASSUME NEW c \in Calls, call[c] = "ready" PROVE tx
  <2>1. call[c] \in Inside  BY <1>1, Zenon DEF Inside
  <2> QED BY <2>1, Zenon DEF Life, TypeOK
<1>2. ASSUME NEW c \in Calls, call[c] = "waiting", ~AllFailed
      PROVE  \E w \in DOMAIN workers : CanAct(w)
  <2>1. CASE Served(c)
    <3>1. PICK w \in DOMAIN workers : workers[w].task = c  BY <2>1, Zenon DEF Served
    <3>2. workers[w].pc \in {"running", "replying"}  BY <3>1, PoolAssumption, Zenon DEF TypeOK
    <3> QED BY <3>2, Zenon DEF CanAct
  <2>2. CASE c \in Queued
    <3>1. queue # << >>  BY <2>2 DEF Queued
    <3>2. workers # << >>  BY <3>1 DEF Life
    <3>3. PICK w \in DOMAIN workers : workers[w].pc # "failed"
      BY <1>2, <3>2, Zenon DEF AllFailed
    <3>4. workers[w].pc \notin Ended  BY <3>1, <3>3, Zenon DEF Life, Ended
    <3> QED BY <3>1, <3>4, SomebodyActs, Zenon
  <2> QED BY <1>2, <2>1, <2>2, Zenon DEF Owed
<1>3. ASSUME pool = "joining", joined # Len(workers), workers[joined + 1].pc \notin Ended
      PROVE  \E w \in DOMAIN workers : CanAct(w)
  <2>1. joined + 1 \in DOMAIN workers  BY <1>3, IndexFacts DEF TypeOK
  <2>2. ~tx  BY <1>3, Zenon DEF Life
  <2> QED BY <1>3, <2>1, <2>2, SomebodyActs, Zenon
<1> QED BY <1>1, <1>2, <1>3, Zenon DEF NobodyIsStuck

\* NobodyIsStuck: for any calls and any plugins.workers, a call never waits, and
\* the drop never joins, with every worker blocked.
THEOREM NobodyIsStuckAlways == Spec => []NobodyIsStuck
<1>1. Init => Owed  BY Zenon DEF Init, Owed
<1>2. PoolInv /\ Owed /\ [Next]_vars => Owed'  BY OwedNext, Zenon DEF PoolInv
<1>3. Spec => Init /\ [][Next]_vars  BY Zenon DEF Spec
<1> QED BY <1>1, <1>2, <1>3, PoolInvariant, NobodyIsStuckHolds, PTL
=============================================================================
