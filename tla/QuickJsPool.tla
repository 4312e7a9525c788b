----------------------------- MODULE QuickJsPool -----------------------------
(***************************************************************************)
(* The QuickJS worker pool (plugins/quickjs/engine.rs).                    *)
(*                                                                         *)
(* A plugin registry owns one pool; requests hold the registry while they  *)
(* run plugin stages.  A call counts itself, makes sure there are workers, *)
(* puts a task into the channel and awaits the reply.  Workers are threads *)
(* that take turns at the one receiver, which sits behind a mutex that a   *)
(* worker keeps while it blocks in recv.  The last owner to let go of the  *)
(* pool drops it: the sender goes, and the drop joins every worker.        *)
(* A panic aborts the process (release profile) and is not modelled, so no *)
(* lock is ever poisoned.                                                  *)
(***************************************************************************)
EXTENDS Integers, Sequences, FiniteSets

CONSTANTS
  Calls,        \* calls of execute, each made at most once
  MaxWorkers,   \* plugins.workers
  Faults,       \* whether threads and runtimes may fail to start
  None

ASSUME PoolAssumption ==
  /\ MaxWorkers \in Nat \ {0}
  /\ Faults \in BOOLEAN
  /\ None \notin Calls

VARIABLES
  pool,      \* who is left: "live", "released" by the registry, "joining", "gone"
  tx,        \* whether the sender is there
  queue,     \* the tasks in the channel
  workers,   \* the spawned workers, [pc, task]; the vector of join handles
  joined,    \* how many of them the drop has joined
  pending,   \* pending_tasks
  call,      \* [c]: where the caller is
  seen,      \* [c]: the count that the call's fetch_add returned, plus one
  executed   \* history: the calls whose script has run

vars == <<pool, tx, queue, workers, joined, pending, call, seen, executed>>

Worker(pc, t) == [pc |-> pc, task |-> t]
AtWorker(w, pc) == w \in DOMAIN workers /\ workers[w].pc = pc
SetWorker(w, pc, t) == workers' = [workers EXCEPT ![w] = Worker(pc, t)]
SetCall(c, from, to) == call[c] = from /\ call' = [call EXCEPT ![c] = to]

Ended == {"failed", "exited"}
Inside == {"held", "counted", "refused", "ready", "waiting"}

Init ==
  /\ pool = "live"
  /\ tx = TRUE
  /\ queue = << >>
  /\ workers = << >>
  /\ joined = 0
  /\ pending = 0
  /\ call = [c \in Calls |-> "new"]
  /\ seen = [c \in Calls |-> 0]
  /\ executed = {}

-----------------------------------------------------------------------------
(* The callers.                                                             *)

\* A request takes a snapshot of the registry, and with it a share of the pool.
Snapshot(c) ==
  /\ pool = "live"
  /\ SetCall(c, "new", "held")
  /\ UNCHANGED <<pool, tx, queue, workers, joined, pending, seen, executed>>

\* It ends without a (further) stage to run.
LetGo(c) ==
  /\ SetCall(c, "held", "done")
  /\ UNCHANGED <<pool, tx, queue, workers, joined, pending, seen, executed>>

\* execute: the call counts itself.
Count(c) ==
  /\ SetCall(c, "held", "counted")
  /\ pending' = pending + 1
  /\ seen' = [seen EXCEPT ![c] = pending + 1]
  /\ UNCHANGED <<pool, tx, queue, workers, joined, executed>>

\* Mutant: one worker too many.
ShouldSpawn_OffByOne(n) ==
  Len(workers) = 0 \/ (n > Len(workers) /\ Len(workers) <= MaxWorkers)

\* Handles of workers that have failed stay in the vector, and count.
ShouldSpawn(n) ==
  Len(workers) = 0 \/ (n > Len(workers) /\ Len(workers) < MaxWorkers)

\* ensure_worker_capacity, under the lock of the vector, with the count read
\* before; the thread may fail to start.
ensure_worker_capacity(c) ==
  /\ seen' = [seen EXCEPT ![c] = 0]
  /\ \/ /\ ~ShouldSpawn(seen[c])
        /\ SetCall(c, "counted", "ready")
        /\ UNCHANGED workers
     \/ /\ ShouldSpawn(seen[c])
        /\ SetCall(c, "counted", "ready")
        /\ workers' = Append(workers, Worker("starting", None))
     \/ /\ Faults
        /\ ShouldSpawn(seen[c])
        /\ SetCall(c, "counted", "refused")
        /\ UNCHANGED workers
  /\ UNCHANGED <<pool, tx, queue, joined, pending, executed>>

\* Mutant: a call that is refused stays counted.
Refuse_StaysCounted(c) ==
  /\ SetCall(c, "refused", "done")
  /\ UNCHANGED <<pool, tx, queue, workers, joined, pending, seen, executed>>

\* execute: without a worker the call takes itself back and fails.
Refuse(c) ==
  /\ SetCall(c, "refused", "done")
  /\ pending' = pending - 1
  /\ UNCHANGED <<pool, tx, queue, workers, joined, seen, executed>>

\* execute: the task is sent, the caller awaits its reply.  The pool keeps the
\* receiver, so sending never fails.
Send(c) ==
  /\ tx
  /\ SetCall(c, "ready", "waiting")
  /\ queue' = Append(queue, c)
  /\ UNCHANGED <<pool, tx, workers, joined, pending, seen, executed>>

\* The request is dropped at its await (the client has gone).
Cancel(c) ==
  /\ SetCall(c, "waiting", "done")
  /\ UNCHANGED <<pool, tx, queue, workers, joined, pending, seen, executed>>

-----------------------------------------------------------------------------
(* The workers: quickjs_worker_loop.                                        *)

\* QuickJsWorker::new: runtime, loader, context and console bridge.
StartWorker(w) ==
  /\ AtWorker(w, "starting")
  /\ \/ SetWorker(w, "idle", None)
     \/ Faults /\ SetWorker(w, "failed", None)
  /\ UNCHANGED <<pool, tx, queue, joined, pending, call, seen, executed>>

\* Mutant: the worker that got a task never gives the receiver back.
LockReceiver_NeverReleased(w) ==
  /\ AtWorker(w, "idle")
  /\ \A v \in DOMAIN workers : workers[v].pc \notin {"holding", "running", "replying"}
  /\ executed = {}
  /\ SetWorker(w, "holding", None)
  /\ UNCHANGED <<pool, tx, queue, joined, pending, call, seen, executed>>

\* The worker gets the receiver.  It keeps it until recv returns.
LockReceiver(w) ==
  /\ AtWorker(w, "idle")
  /\ \A v \in DOMAIN workers : workers[v].pc # "holding"
  /\ SetWorker(w, "holding", None)
  /\ UNCHANGED <<pool, tx, queue, joined, pending, call, seen, executed>>

\* recv returns the oldest task; the receiver is free again.
Recv(w) ==
  /\ AtWorker(w, "holding")
  /\ queue # << >>
  /\ SetWorker(w, "running", Head(queue))
  /\ queue' = Tail(queue)
  /\ UNCHANGED <<pool, tx, joined, pending, call, seen, executed>>

\* recv fails once the sender is gone and the channel is empty.
Disconnected(w) ==
  /\ AtWorker(w, "holding")
  /\ queue = << >>
  /\ ~tx
  /\ SetWorker(w, "exited", None)
  /\ UNCHANGED <<pool, tx, queue, joined, pending, call, seen, executed>>

\* QuickJsWorker::execute: the entry module is prepared, the handler taken from
\* the cache or imported, called, and its result encoded.  Whether that succeeds
\* only matters to the caller.  The count goes down before the reply.
Execute(w) ==
  /\ AtWorker(w, "running")
  /\ SetWorker(w, "replying", workers[w].task)
  /\ executed' = executed \cup {workers[w].task}
  /\ pending' = pending - 1
  /\ UNCHANGED <<pool, tx, queue, joined, call, seen>>

\* The caller gets its result, if it still waits.
Reply(w) ==
  /\ AtWorker(w, "replying")
  /\ SetWorker(w, "idle", None)
  /\ call' = [call EXCEPT ![workers[w].task] = "done"]
  /\ UNCHANGED <<pool, tx, queue, joined, pending, seen, executed>>

-----------------------------------------------------------------------------
(* The end of the pool.                                                     *)

\* A reload replaces the registry, or the process ends.
Release ==
  /\ pool = "live"
  /\ pool' = "released"
  /\ UNCHANGED <<tx, queue, workers, joined, pending, call, seen, executed>>

\* Mutant: the sender is kept over the join.
Drop_KeepsSender ==
  /\ pool = "released"
  /\ \A c \in Calls : call[c] \notin Inside
  /\ pool' = "joining"
  /\ UNCHANGED <<tx, queue, workers, joined, pending, call, seen, executed>>

\* Drop, in the task that lets go last: the sender is taken.
Drop ==
  /\ pool = "released"
  /\ \A c \in Calls : call[c] \notin Inside
  /\ pool' = "joining"
  /\ tx' = FALSE
  /\ UNCHANGED <<queue, workers, joined, pending, call, seen, executed>>

\* The worker whose turn it is has ended.
Join ==
  /\ pool = "joining"
  /\ joined < Len(workers)
  /\ workers[joined + 1].pc \in Ended
  /\ joined' = joined + 1
  /\ UNCHANGED <<pool, tx, queue, workers, pending, call, seen, executed>>

\* Mutant: the threads are left to themselves.
Dropped_NoJoin ==
  /\ pool = "joining"
  /\ pool' = "gone"
  /\ UNCHANGED <<tx, queue, workers, joined, pending, call, seen, executed>>

Dropped ==
  /\ pool = "joining"
  /\ joined = Len(workers)
  /\ pool' = "gone"
  /\ UNCHANGED <<tx, queue, workers, joined, pending, call, seen, executed>>

-----------------------------------------------------------------------------

\* What a caller does by itself, once it has a share of the pool.
Proceed(c) == Count(c) \/ LetGo(c) \/ ensure_worker_capacity(c) \/ Refuse(c) \/ Send(c)
CallStep(c) == Snapshot(c) \/ Proceed(c) \/ Cancel(c)
WorkerStep(w) ==
  \/ StartWorker(w)
  \/ LockReceiver(w)
  \/ Recv(w)
  \/ Disconnected(w)
  \/ Execute(w)
  \/ Reply(w)
DropStep == Drop \/ Join \/ Dropped

Next ==
  \/ Release
  \/ DropStep
  \/ \E c \in Calls : CallStep(c)
  \/ \E w \in DOMAIN workers : WorkerStep(w)

\* Threads and tasks that can run do; scripts return.
Fairness ==
  /\ WF_vars(DropStep)
  /\ \A c \in Calls : WF_vars(Proceed(c))
  /\ \A w \in 1..MaxWorkers : WF_vars(WorkerStep(w))

Spec == Init /\ [][Next]_vars /\ Fairness

-----------------------------------------------------------------------------
(* Properties.                                                              *)

WorkerPcs == {"starting", "idle", "holding", "running", "replying"} \cup Ended

\* The variables have the types of the Rust declarations; busy workers have a
\* task.
TypeOK ==
  /\ pool \in {"live", "released", "joining", "gone"}
  /\ tx \in BOOLEAN
  /\ queue \in Seq(Calls)
  /\ workers \in Seq([pc : WorkerPcs, task : Calls \cup {None}])
  /\ \A w \in DOMAIN workers :
       workers[w].pc \in {"running", "replying"} <=> workers[w].task # None
  /\ joined \in 0..Len(workers)
  /\ pending \in Int
  /\ call \in [Calls -> Inside \cup {"new", "done"}]
  /\ seen \in [Calls -> Nat]
  /\ executed \subseteq Calls

Running == {workers[w].task : w \in {v \in DOMAIN workers : workers[v].pc = "running"}}
Queued == {queue[k] : k \in DOMAIN queue}

\* pending_tasks is the number of calls that are on their way into the channel,
\* in it or being executed: no path through execute and the worker loop, refused
\* and cancelled calls included, counts a call twice or forgets to count it down.
\* (A count that only grows would keep asking for workers; one that wraps would
\* too.)
PendingCounts ==
  pending = Cardinality({c \in Calls : call[c] \in {"counted", "refused", "ready"}}
                        \cup Queued \cup Running)

AllFailed == workers # << >> /\ \A w \in DOMAIN workers : workers[w].pc = "failed"

\* When the drop returns, no thread of the pool is left, and no task is left
\* in the channel unless every worker failed to start.
DropLeavesNothing ==
  pool = "gone" =>
    /\ \A w \in DOMAIN workers : workers[w].pc \in Ended
    /\ queue = << >> \/ AllFailed

\* What the worker w needs to take its next step: a task or the end of the channel
\* while it holds the receiver, a free receiver while it waits for its turn.
CanAct(w) ==
  \/ workers[w].pc \in {"starting", "running", "replying"}
  \/ workers[w].pc = "idle" /\ \A v \in DOMAIN workers : workers[v].pc # "holding"
  \/ workers[w].pc = "holding" /\ (queue # << >> \/ ~tx)

\* The pool never comes to rest with somebody still waiting.  A caller about to
\* send finds the sender; while a caller awaits a reply some worker can take a
\* step, unless all of them failed to start; and while the drop waits for a
\* worker, that worker has ended or some worker can take a step.  (The receiver's
\* mutex is held across recv, so an idle worker may well wait for one that waits.)
NobodyIsStuck ==
  /\ \A c \in Calls : call[c] = "ready" => tx
  /\ \A c \in Calls : call[c] = "waiting" => AllFailed \/ \E w \in DOMAIN workers : CanAct(w)
  /\ pool = "joining" =>
       \/ joined = Len(workers)
       \/ workers[joined + 1].pc \in Ended
       \/ \E w \in DOMAIN workers : CanAct(w)

\* A call is answered, although workers start late, share one receiver and serve
\* tasks whose callers are gone.  Only when no worker has been able to start does
\* a caller wait for ever: the pool keeps the receiver alive, and counts the
\* failed threads as workers.
CallsAreAnswered ==
  \A c \in Calls : call[c] = "waiting" ~> (call[c] # "waiting" \/ AllFailed)

\* A replaced registry's pool is dropped, and the drop returns: its owners let
\* go, and no worker that it joins waits for a task or for the receiver for ever.
PoolIsDropped == pool = "released" ~> (pool = "gone" \/ AllFailed)

Abstract ==
  INSTANCE ScriptRuntimePool WITH
    Capacity <- MaxWorkers,
    waiting <- {c \in Calls : call[c] = "waiting"},
    queued <- Queued,
    running <- Running,
    ended <- executed,
    open <- tx

\* The pool is what the plugin stages rely on: no script runs twice, at most
\* MaxWorkers run at a time, no caller is answered before its own script has
\* run, and the sender does not go while a caller waits.
ImplementsRuntimePool == Abstract!Spec
=============================================================================
