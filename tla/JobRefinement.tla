------------------------------ MODULE JobRefinement ------------------------------
(***************************************************************************)
(* JobDispatch, with all its statements, crashes and lost calls, keeps     *)
(* TaskPromise: the mapping forgets the job rows, the counters, the loop,  *)
(* the requests and the program counters.                                  *)
(***************************************************************************)
EXTENDS JobDispatch

HoldersOf(t) == {a \in Agents : Holds(a, t)}

\* A stored success that a late progress UPDATE set to running is still done: no
\* statement hands such a row out, whatever it says.
OutcomeOf(t) ==
  IF t \in history.replayed THEN "disputed"
  ELSE IF HoldersOf(t) # {} THEN "held"
  ELSE IF task[t].status = "completed" THEN "done"
  ELSE IF task[t].status = "running" /\ t \in history.completed THEN "done"
  ELSE IF task[t].status \in {"none", "pending"} THEN "open"
  ELSE IF task[t].status \in {"failed", "cancelled"} THEN task[t].status
  ELSE "stranded"

Promise == INSTANCE TaskPromise WITH
  holders  <- [t \in Tasks |-> HoldersOf(t)],
  outcome  <- [t \in Tasks |-> OutcomeOf(t)],
  produced <- history.produced

\* Every behaviour of the dispatcher, with its crashes, cuts, cancels, retries
\* and late updates, is one the promise allows: a task is claimed only when it
\* is open and by an agent that works on nothing else, only its holder's report
\* settles it, a success is stored only after the script succeeded, no task is
\* handed out after it, and a task whose agent has vanished is offered to nobody.
KeepsPromise == Promise!PromiseSpec

================================================================================
