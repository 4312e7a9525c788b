--------------------------- MODULE WorkerRegistry ---------------------------
(***************************************************************************)
(* Tracked workers (workers/registry.rs, supervisor.rs and shutdown.rs).   *)
(*                                                                         *)
(* Workers::spawn starts two tasks: a wrapper, whose handle the caller     *)
(* gets, and the worker, which the wrapper spawns and awaits.  The         *)
(* registry has one entry per name; starting writes it, and the wrapper    *)
(* writes it again once the worker has returned.                           *)
(***************************************************************************)
EXTENDS Integers, Sequences, FiniteSets

CONSTANTS
  Names,      \* the names workers are spawned under
  MaxStarts,  \* bound: how often anything is started under one name
  None

VARIABLES
  registry,   \* [name]: None, "Running", "Finished"
  task,       \* [<<name, start>>]: where the wrapper and its worker are
  told        \* the workers whose ShutdownJoinHandle has sent its oneshot

worker_vars == <<registry, task, told>>

(***************************************************************************)
(* none      not started                                                   *)
(* running   the worker runs, or will with the wrapper's first poll, which *)
(*           only an abort can prevent, and the wrapper awaits it          *)
(* returned  the worker has returned, the wrapper has not noticed yet      *)
(* done      both have ended                                               *)
(* orphan    the wrapper was aborted, the worker runs on                   *)
(* dropped   the wrapper was aborted and there is no worker                *)
(***************************************************************************)
Tasks == Names \X (1..MaxStarts)

NoTasks == [w \in Tasks |-> "none"]
NoEntries == [n \in Names |-> None]

\* The worker itself is alive.
Alive(w) == task[w] \in {"running", "orphan"}

\* The wrapper has ended: awaiting its handle returns.
Joined(w) == task[w] \in {"none", "done", "dropped"}

\* Mutant: the entry of an earlier worker of the same name is kept.
mark_running_KeepsEntry(name) ==
  registry' = [registry EXCEPT ![name] = IF @ = None THEN "Running" ELSE @]

mark_running(name) == registry' = [registry EXCEPT ![name] = "Running"]

mark_finished(name) == registry' = [registry EXCEPT ![name] = IF @ = None THEN @ ELSE "Finished"]

spawn(w) ==
  /\ mark_running(w[1])
  /\ task' = [task EXCEPT ![w] = "running"]
  /\ UNCHANGED told

\* The worker's function or future is over.
Return(w) ==
  /\ Alive(w)
  /\ task' = [task EXCEPT ![w] = IF @ = "running" THEN "returned" ELSE "dropped"]
  /\ UNCHANGED <<registry, told>>

log_worker_completion(w) ==
  /\ task[w] = "returned"
  /\ mark_finished(w[1])
  /\ task' = [task EXCEPT ![w] = "done"]
  /\ UNCHANGED told

\* JoinHandle::abort on the handle that spawn returned reaches the wrapper only; the
\* worker is not there to run on if it has returned or was never polled.
abort(w) ==
  /\ \E s \in (IF task[w] = "running" THEN {"orphan", "dropped"} ELSE {"dropped"}) :
       task' = [task EXCEPT ![w] = s]
  /\ UNCHANGED <<registry, told>>

\* ShutdownJoinHandle::shutdown sends, then awaits the wrapper: Joined(w).
Tell(w) ==
  /\ told' = told \cup {w}
  /\ UNCHANGED <<registry, task>>
=============================================================================
