-------------------------- MODULE ScriptRuntimePool --------------------------
(***************************************************************************)
(* What the plugin stages rely on when they call ScriptRuntimePool::execute *)
(* (plugins/mod.rs): a call's script runs at most once, never more scripts *)
(* than the pool has capacity at a time, the caller gets an answer only    *)
(* after its own script has run, and a pool that still owes an answer is   *)
(* not closed.                                                             *)
(***************************************************************************)
EXTENDS Integers, FiniteSets

CONSTANTS
  Calls,      \* the calls of execute
  Capacity    \* how many scripts may run at a time

VARIABLES
  waiting,    \* the calls whose callers await an answer
  queued,     \* the calls whose script has not been started
  running,    \* the calls whose script runs
  ended,      \* the calls whose script has run
  open        \* whether calls are taken

poolVars == <<waiting, queued, running, ended, open>>

Init ==
  /\ waiting = {}
  /\ queued = {}
  /\ running = {}
  /\ ended = {}
  /\ open = TRUE

Submit(c) ==
  /\ open
  /\ c \notin queued \cup running \cup ended
  /\ queued' = queued \cup {c}
  /\ waiting' = waiting \cup {c}
  /\ UNCHANGED <<running, ended, open>>

Start(c) ==
  /\ c \in queued
  /\ Cardinality(running) < Capacity
  /\ queued' = queued \ {c}
  /\ running' = running \cup {c}
  /\ UNCHANGED <<waiting, ended, open>>

Finish(c) ==
  /\ c \in running
  /\ running' = running \ {c}
  /\ ended' = ended \cup {c}
  /\ UNCHANGED <<waiting, queued, open>>

Answer(c) ==
  /\ c \in waiting \cap ended
  /\ waiting' = waiting \ {c}
  /\ UNCHANGED <<queued, running, ended, open>>

\* The caller goes away; its script may still run.
Cancel(c) ==
  /\ c \in waiting
  /\ waiting' = waiting \ {c}
  /\ UNCHANGED <<queued, running, ended, open>>

Close ==
  /\ open
  /\ waiting = {}
  /\ open' = FALSE
  /\ UNCHANGED <<waiting, queued, running, ended>>

Next ==
  \/ Close
  \/ \E c \in Calls : Submit(c) \/ Start(c) \/ Finish(c) \/ Answer(c) \/ Cancel(c)

Spec == Init /\ [][Next]_poolVars
=============================================================================
