------------------------------- MODULE TaskPromise -------------------------------
(***************************************************************************)
(* What the controller promises about the tasks of a job, to somebody who  *)
(* knows nothing of its tables, counters and handlers: who is working on   *)
(* each task, what has become of it, and whose scripts have succeeded.     *)
(* The promise ends for a task when an agent replays a result of it from   *)
(* its journal; from then on anybody may be working on it.                 *)
(***************************************************************************)

CONSTANTS
  Tasks,
  Agents

VARIABLES
  holders,     \* the agents working on each task
  outcome,     \* what has become of it
  produced     \* the tasks whose script has succeeded in some attempt

promiseVars == <<holders, outcome, produced>>

--------------------------------------------------------------------------------
Outcomes == {"open",       \* not begun, or to be repeated
             "held",       \* an agent is working on it
             "done",       \* its success is stored
             "failed",     \* its failure is stored, and it may be retried
             "cancelled",
             "stranded",   \* its agent has vanished; nothing offers it again
             "disputed"}   \* a journaled result of it was replayed

Becomes(t, s, H) == outcome'[t] = s /\ holders'[t] = H

Claim(t) ==
  /\ outcome[t] = "open"
  /\ \E a \in Agents : /\ \A u \in Tasks : a \notin holders[u]
                       /\ Becomes(t, "held", {a})

\* The one holder reports.  A success is an earned one.
Report(t) ==
  /\ outcome[t] = "held"
  /\ \/ t \in produced /\ Becomes(t, "done", {})
     \/ Becomes(t, "failed", {})

\* The holder, or its call, is gone before a result is stored.
GiveUp(t) ==
  /\ outcome[t] = "held"
  /\ Becomes(t, "stranded", {}) \/ Becomes(t, "cancelled", {})

Cancel(t) ==
  /\ outcome[t] \in {"open", "stranded"}
  /\ Becomes(t, "cancelled", {})

Retry(t) ==
  /\ outcome[t] = "failed"
  /\ Becomes(t, "open", {})

\* A progress update arrives after the result and marks the task as running.
LateProgress(t) ==
  /\ outcome[t] \in {"open", "failed", "cancelled"}
  /\ Becomes(t, "stranded", {})

Replayed(t) == outcome'[t] = "disputed"

TaskStep(t) ==
  \/ Claim(t) \/ Report(t) \/ GiveUp(t) \/ Cancel(t) \/ Retry(t) \/ LateProgress(t)
  \/ Replayed(t)
  \/ outcome[t] # "disputed" /\ Becomes(t, outcome[t], holders[t])

--------------------------------------------------------------------------------
PromiseInit ==
  /\ holders = [t \in Tasks |-> {}]
  /\ outcome = [t \in Tasks |-> "open"]
  /\ produced = {}

\* One statement may move several tasks: a cancel, a retry, a restart.
PromiseNext ==
  /\ holders' \in [Tasks -> SUBSET Agents]
  /\ outcome' \in [Tasks -> Outcomes]
  /\ \A t \in Tasks : outcome[t] = "disputed" => outcome'[t] = "disputed"
  /\ \A t \in Tasks : TaskStep(t)
  /\ produced \subseteq produced'
  /\ \A t \in produced' \ produced : outcome[t] \in {"held", "disputed"}

PromiseSpec == PromiseInit /\ [][PromiseNext]_promiseVars

================================================================================
