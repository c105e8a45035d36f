------------------------------ MODULE JobDispatch ------------------------------
(***************************************************************************)
(* The life of an encode job on the controller: the dispatch loop expands  *)
(* it into one task per chunk, agents claim the tasks, run their scripts   *)
(* and report, operators cancel and retry.  Every actor works on the same  *)
(* two Postgres tables, jobs and tasks, one SQL statement at a time and    *)
(* without a transaction around a handler, so an action below is one       *)
(* statement (or one event of an agent process) and handlers interleave    *)
(* between their statements.                                               *)
(*                                                                         *)
(* A definition named X_Something before a definition X is a seeded fault: *)
(* X as a plausible bug would have it.  Nothing uses it; README.md says    *)
(* which property refutes it.                                              *)
(***************************************************************************)
EXTENDS Integers, FiniteSets, Sequences

CONSTANTS
  Jobs,          \* job rows; the number is the place in the claim order
                 \* (priority DESC, created_at ASC)
  Agents,        \* agent processes
  Chunks,        \* Chunks[j]: length of the job's chunk_boundaries, 0 if none
  Tagged,        \* the jobs created with a non-empty target_tags
  NoAgent,       \* a NULL agent_id
  MaxAgentCrashes, MaxControllerCrashes, MaxLosses, MaxCancels, MaxRetries,
                 \* how often each event may happen in a behaviour
  RenderMayFail,          \* may rendering a chunk's scripts fail?
  ProgressMayLag,         \* may a progress UPDATE run after the agent moved on?
  ClaimsDuringExpansion,  \* may an agent poll while a job is being expanded?
  Commands                \* are the commands "job cancel" and "job retry" used?

ASSUME DispatchAssumption ==
  /\ Jobs \subseteq Nat \ {0}
  /\ Chunks \in [Jobs -> Nat]
  /\ Tagged \subseteq Jobs
  /\ NoAgent \notin Agents
  /\ {MaxAgentCrashes, MaxControllerCrashes, MaxLosses, MaxCancels, MaxRetries}
       \subseteq Nat
  /\ {RenderMayFail, ProgressMayLag, ClaimsDuringExpansion, Commands} \subseteq BOOLEAN

VARIABLES
  job,       \* jobs: status and the denormalised counters
  task,      \* tasks: status, agent_id, whether script_dir is set
  engine,    \* the dispatch loop's goroutine
  agent,     \* each agent process with the RPC handler that serves it
  journal,   \* each agent's unsynced offline_results, in insertion order
  progress,  \* the task whose "running" UPDATE is in flight for an agent
  api,       \* per job, the cancel and the retry request being served
  spent,     \* how many crashes, losses and requests happened so far
  history    \* auxiliary: what really happened to each task

vars == <<job, task, engine, agent, journal, progress, api, spent, history>>

--------------------------------------------------------------------------------
(* Rows and processes                                                      *)

NoJob  == 0
NoTask == <<0, 0>>
Tasks  == UNION {{<<j, c>> : c \in 1..Chunks[j]} : j \in Jobs}

JobOf(t) == t[1]
TasksOf(j) == {t \in Tasks : JobOf(t) = j}

\* The tasks table's claim order within the candidate rows.
Precedes(t, u) == t[1] < u[1] \/ (t[1] = u[1] /\ t[2] < u[2])

JobStatus  == {"absent", "queued", "assigned", "running",
               "completed", "failed", "cancelled"}
TaskStatus == {"none", "pending", "assigned", "running",
               "completed", "failed", "cancelled"}

NewJob  == [status |-> "queued", total |-> 0, pending |-> 0, running |-> 0,
            completed |-> 0, failed |-> 0]
NewTask == [status |-> "pending", agent |-> NoAgent, scripts |-> FALSE]

IdleEngine == [pc |-> "idle", todo |-> {}, cur |-> NoJob, chunk |-> 0]

PollPcs   == {"poll_counts", "poll_job"}
ScriptPcs == {"started", "progressed"}
ResultPcs == {"res_task", "res_counts", "res_check", "res_write", "res_ack"}
AgentPcs  == {"down", "idle"} \cup PollPcs \cup ScriptPcs \cup ResultPcs

\* at > 0: the result being served is journal[a][at], on a sync stream.
AgentAt(pc) == [pc |-> pc, task |-> NoTask, scripts |-> FALSE, ok |-> FALSE,
                verdict |-> "none", at |-> 0]

--------------------------------------------------------------------------------
(* Store statements used by several handlers                               *)

Count(j, s) == Cardinality({t \in TasksOf(j) : task[t].status = s})

TotalTasks_OpenOnly(j) ==
  Cardinality({t \in TasksOf(j) : task[t].status \notin {"none", "cancelled"}})
TotalTasks(j) == Cardinality({t \in TasksOf(j) : task[t].status # "none"})

\* UpdateJobTaskCounts: one UPDATE whose subqueries count the tasks table.
UpdateJobTaskCounts(j) ==
  job' = [job EXCEPT ![j] =
           [status    |-> @.status,
            total     |-> TotalTasks(j),
            pending   |-> Count(j, "pending"),
            running   |-> Count(j, "running"),
            completed |-> Count(j, "completed"),
            failed    |-> Count(j, "failed")]]

UpdateJobStatus(j, s) == job' = [job EXCEPT ![j].status = s]

UpdateTaskStatus(t, s) == task' = [task EXCEPT ![t].status = s]

GetJobsNeedingExpansion ==
  {j \in Jobs : job[j].status = "queued" /\ job[j].total = 0}

Claimable_Assigned ==
  {t \in Tasks : /\ task[t].status \in {"pending", "assigned"}
                 /\ job[JobOf(t)].status \in {"queued", "running"}
                 /\ JobOf(t) \notin Tagged}
Claimable_RunningOnly ==
  {t \in Tasks : /\ task[t].status = "pending"
                 /\ job[JobOf(t)].status = "running"
                 /\ JobOf(t) \notin Tagged}

\* The rows ClaimNextTask may take.  An agent's poll carries no tags, so the
\* overlap test with a non-empty target_tags is never true.
Claimable ==
  {t \in Tasks : /\ task[t].status = "pending"
                 /\ job[JobOf(t)].status \in {"queued", "running"}
                 /\ JobOf(t) \notin Tagged}

--------------------------------------------------------------------------------
(* Job creation and the dispatch loop                                      *)

CreateJob(j) ==
  /\ job[j].status = "absent"
  /\ job' = [job EXCEPT ![j] = NewJob]
  /\ UNCHANGED <<task, engine, agent, journal, progress, api, spent, history>>

EngineTick ==
  /\ engine.pc = "idle"
  /\ GetJobsNeedingExpansion # {}
  /\ engine' = [engine EXCEPT !.pc = "next", !.todo = GetJobsNeedingExpansion]
  /\ UNCHANGED <<job, task, agent, journal, progress, api, spent, history>>

\* The list read by the tick is walked to its end, however stale it is by
\* then.  A job without chunk boundaries is logged and skipped.
EngineNextJob ==
  /\ engine.pc = "next"
  /\ \E j \in engine.todo :
       /\ \A k \in engine.todo : j <= k
       /\ engine' = IF Chunks[j] = 0
                    THEN [engine EXCEPT !.todo = @ \ {j}]
                    ELSE [pc |-> "create", todo |-> engine.todo \ {j},
                          cur |-> j, chunk |-> 1]
  /\ UNCHANGED <<job, task, agent, journal, progress, api, spent, history>>

EngineTickDone ==
  /\ engine.pc = "next"
  /\ engine.todo = {}
  /\ engine' = IdleEngine
  /\ UNCHANGED <<job, task, agent, journal, progress, api, spent, history>>

EngineTask == <<engine.cur, engine.chunk>>

\* CreateTask: the INSERT makes the row claimable before its scripts exist.
EngineCreateTask ==
  /\ engine.pc = "create"
  /\ task[EngineTask].status = "none"
  /\ task' = [task EXCEPT ![EngineTask] = NewTask]
  /\ engine' = [engine EXCEPT !.pc = "script"]
  /\ UNCHANGED <<job, agent, journal, progress, api, spent, history>>

\* UNIQUE (job_id, chunk_index): the row is there from an earlier expansion.
EngineCreateConflict ==
  /\ engine.pc = "create"
  /\ task[EngineTask].status # "none"
  /\ engine' = [engine EXCEPT !.pc = "fail"]
  /\ UNCHANGED <<job, task, agent, journal, progress, api, spent, history>>

EngineRenderFails ==
  /\ engine.pc = "script"
  /\ RenderMayFail
  /\ engine' = [engine EXCEPT !.pc = "fail"]
  /\ UNCHANGED <<job, task, agent, journal, progress, api, spent, history>>

MoreChunks_OffByOne == engine.chunk <= Chunks[engine.cur]
MoreChunks == engine.chunk < Chunks[engine.cur]

\* Render succeeded: SetTaskScriptDir, then the next chunk or the epilogue.
EngineSetScriptDir ==
  /\ engine.pc = "script"
  /\ task' = [task EXCEPT ![EngineTask].scripts = TRUE]
  /\ engine' = IF MoreChunks
               THEN [engine EXCEPT !.pc = "create", !.chunk = @ + 1]
               ELSE [engine EXCEPT !.pc = "counts"]
  /\ UNCHANGED <<job, agent, journal, progress, api, spent, history>>

EngineCounts ==
  /\ engine.pc = "counts"
  /\ UpdateJobTaskCounts(engine.cur)
  /\ engine' = [engine EXCEPT !.pc = "requeue"]
  /\ history' = [history EXCEPT !.expanded = @ \cup {engine.cur}]
  /\ UNCHANGED <<task, agent, journal, progress, api, spent>>

EngineNextAfterJob == [engine EXCEPT !.pc = "next", !.cur = NoJob, !.chunk = 0]

\* "keep status as queued": written whatever the status has become.
EngineRequeue ==
  /\ engine.pc = "requeue"
  /\ UpdateJobStatus(engine.cur, "queued")
  /\ engine' = EngineNextAfterJob
  /\ UNCHANGED <<task, agent, journal, progress, api, spent, history>>

\* The error path: the counters are not refreshed.
EngineFailJob ==
  /\ engine.pc = "fail"
  /\ UpdateJobStatus(engine.cur, "failed")
  /\ engine' = EngineNextAfterJob
  /\ UNCHANGED <<task, agent, journal, progress, api, spent, history>>

EngineStep ==
  \/ EngineTick \/ EngineNextJob \/ EngineTickDone
  \/ EngineCreateTask \/ EngineCreateConflict
  \/ EngineRenderFails \/ EngineSetScriptDir
  \/ EngineCounts \/ EngineRequeue \/ EngineFailJob

--------------------------------------------------------------------------------
(* PollTask                                                                *)

ClaimNextTask(a) ==
  /\ agent[a].pc = "idle"
  /\ ClaimsDuringExpansion \/ engine.cur = NoJob
  /\ \E t \in Claimable :
       /\ \A u \in Claimable : u = t \/ Precedes(t, u)
       /\ task' = [task EXCEPT ![t].status = "assigned", ![t].agent = a]
       /\ agent' = [agent EXCEPT ![a] = [AgentAt("poll_counts") EXCEPT
                                           !.task = t, !.scripts = task[t].scripts]]
  /\ UNCHANGED <<job, engine, journal, progress, api, spent, history>>

PollCounts(a) ==
  /\ agent[a].pc = "poll_counts"
  /\ UpdateJobTaskCounts(JobOf(agent[a].task))
  /\ agent' = [agent EXCEPT ![a].pc = "poll_job"]
  /\ UNCHANGED <<task, engine, journal, progress, api, spent, history>>

\* An assignment without scripts fails at once.  (validateTask has other checks
\* that may fail; FinishScript covers them.)
ValidateTask(a) == agent[a].scripts

\* The job leaves "assigned", a status nothing ever gives it, and the
\* assignment reaches the agent.
PollJob(a) ==
  LET j == JobOf(agent[a].task) IN
  /\ agent[a].pc = "poll_job"
  /\ job' = [job EXCEPT ![j].status = IF @ = "assigned" THEN "running" ELSE @]
  /\ agent' = [agent EXCEPT ![a].pc =
                 IF ValidateTask(a) THEN "started" ELSE "res_task"]
  /\ UNCHANGED <<task, engine, journal, progress, api, spent, history>>

--------------------------------------------------------------------------------
(* The script, and ReportProgress                                          *)

\* The stream's first update for the task; later ones change nothing.
SendProgress(a) ==
  /\ agent[a].pc = "started"
  /\ progress[a] = NoTask
  /\ agent' = [agent EXCEPT ![a].pc = "progressed"]
  /\ progress' = [progress EXCEPT ![a] = agent[a].task]
  /\ UNCHANGED <<job, task, engine, journal, api, spent, history>>

ReportProgress(a) ==
  /\ progress[a] # NoTask
  /\ UpdateTaskStatus(progress[a], "running")
  /\ progress' = [progress EXCEPT ![a] = NoTask]
  /\ UNCHANGED <<job, engine, agent, journal, api, spent, history>>

\* The agent cancelled the stream before the handler's UPDATE was sent.
DropProgress(a) ==
  /\ progress[a] # NoTask
  /\ agent[a].pc # "progressed"
  /\ progress' = [progress EXCEPT ![a] = NoTask]
  /\ UNCHANGED <<job, task, engine, agent, journal, api, spent, history>>

\* The script exits, or the task's timeout kills it.
FinishScript(a) ==
  /\ agent[a].pc \in ScriptPcs
  /\ ProgressMayLag \/ progress[a] = NoTask
  /\ \E ok \in BOOLEAN :
       /\ agent' = [agent EXCEPT ![a].pc = "res_task", ![a].ok = ok]
       /\ history' = IF ok THEN [history EXCEPT !.produced = @ \cup {agent[a].task}]
                           ELSE history
  /\ UNCHANGED <<job, task, engine, journal, progress, api, spent>>

--------------------------------------------------------------------------------
(* ReportResult and SyncOfflineResults                                     *)

ResultStatus_Always(a) == "completed"
ResultStatus(a) == IF agent[a].ok THEN "completed" ELSE "failed"

\* processResult: CompleteTask or FailTask, by id, whatever the row holds.
\* On a sync stream the lookup before it rejects nothing, because a replayed
\* result always carries offline_result.
ProcessResult(a) ==
  LET t == agent[a].task IN
  /\ agent[a].pc = "res_task"
  /\ UpdateTaskStatus(t, ResultStatus(a))
  /\ agent' = [agent EXCEPT ![a].pc = "res_counts"]
  /\ history' = [history EXCEPT
                   !.completed = IF agent[a].ok THEN @ \cup {t} ELSE @,
                   !.replayed  = IF agent[a].at > 0 THEN @ \cup {t} ELSE @]
  /\ UNCHANGED <<job, engine, journal, progress, api, spent>>

ResultCounts_ActiveOnly(a) ==
  LET j == JobOf(agent[a].task) IN
  /\ agent[a].pc = "res_counts"
  /\ IF job[j].status = "cancelled" THEN UNCHANGED job ELSE UpdateJobTaskCounts(j)
  /\ agent' = [agent EXCEPT ![a].pc = "res_check"]
  /\ UNCHANGED <<task, engine, journal, progress, api, spent, history>>
ResultCounts(a) ==
  /\ agent[a].pc = "res_counts"
  /\ UpdateJobTaskCounts(JobOf(agent[a].task))
  /\ agent' = [agent EXCEPT ![a].pc = "res_check"]
  /\ UNCHANGED <<task, engine, journal, progress, api, spent, history>>

RowVerdict_Completed(row) == "completed"
RowVerdict(row) == IF row.failed > 0 THEN "failed" ELSE "completed"

\* checkJobCompletion reads the job row ...
CheckJobCompletion(a) ==
  LET row == job[JobOf(agent[a].task)] IN
  /\ agent[a].pc = "res_check"
  /\ agent' = [agent EXCEPT ![a] =
                 IF row.pending > 0 \/ row.running > 0
                 THEN [@ EXCEPT !.pc = "res_ack"]
                 ELSE [@ EXCEPT !.pc = "res_write",
                        !.verdict = RowVerdict(row)]]
  /\ UNCHANGED <<job, task, engine, journal, progress, api, spent, history>>

\* ... and writes the verdict over whatever the status is by then.
WriteVerdict(a) ==
  /\ agent[a].pc = "res_write"
  /\ UpdateJobStatus(JobOf(agent[a].task), agent[a].verdict)
  /\ agent' = [agent EXCEPT ![a].pc = "res_ack", ![a].verdict = "none"]
  /\ UNCHANGED <<task, engine, journal, progress, api, spent, history>>

Replay(a, i) == [AgentAt("res_task") EXCEPT !.task = journal[a][i].task,
                                            !.ok = journal[a][i].ok, !.at = i]

\* The reply arrives.  A sync stream goes on to its next result; at its end
\* the agent marks the whole batch synced.
ResultAcked(a) ==
  LET at == agent[a].at IN
  /\ agent[a].pc = "res_ack"
  /\ IF 0 < at /\ at < Len(journal[a])
     THEN /\ agent' = [agent EXCEPT ![a] = Replay(a, at + 1)]
          /\ UNCHANGED journal
     ELSE /\ agent' = [agent EXCEPT ![a] = AgentAt("idle")]
          /\ journal' = IF at > 0 THEN [journal EXCEPT ![a] = <<>>] ELSE journal
  /\ UNCHANGED <<job, task, engine, progress, api, spent, history>>

--------------------------------------------------------------------------------
(* Agent processes, lost calls and crashes                                 *)

\* A start syncs the journal once, before the first poll.
StartAgent(a) ==
  /\ agent[a].pc = "down"
  /\ agent' = [agent EXCEPT ![a] = IF journal[a] = <<>> THEN AgentAt("idle")
                                                        ELSE Replay(a, 1)]
  /\ UNCHANGED <<job, task, engine, journal, progress, api, spent, history>>

\* What an agent is left with when the call it waits for returns an error: a
\* poll is repeated, a result is saved offline, a sync is given up.
InCall(a) == agent[a].pc \in PollPcs \cup ResultPcs
AgentAfterLoss(a) == IF InCall(a) THEN AgentAt("idle") ELSE agent[a]
JournalAfterLoss(a) ==
  IF agent[a].pc \in ResultPcs /\ agent[a].at = 0
  THEN Append(journal[a], [task |-> agent[a].task, ok |-> agent[a].ok])
  ELSE journal[a]

\* The connection breaks during a call: the handler's context is cancelled
\* between two statements, or the reply is lost after the last one.
LoseCall(a) ==
  /\ InCall(a)
  /\ spent.loss < MaxLosses
  /\ spent' = [spent EXCEPT !.loss = @ + 1]
  /\ agent' = [agent EXCEPT ![a] = AgentAfterLoss(a)]
  /\ journal' = [journal EXCEPT ![a] = JournalAfterLoss(a)]
  /\ UNCHANGED <<job, task, engine, progress, api, history>>

CrashAgent(a) ==
  /\ agent[a].pc # "down"
  /\ spent.agentCrash < MaxAgentCrashes
  /\ spent' = [spent EXCEPT !.agentCrash = @ + 1]
  /\ agent' = [agent EXCEPT ![a] = AgentAt("down")]
  /\ progress' = IF ProgressMayLag THEN progress
                                   ELSE [progress EXCEPT ![a] = NoTask]
  /\ UNCHANGED <<job, task, engine, journal, api, history>>

IdleApi == [cancel |-> "idle", retry |-> "idle"]

\* The controller restarts: the loop and every handler stop where they are; a
\* command is a process of its own.
CrashController ==
  /\ spent.ctlCrash < MaxControllerCrashes
  /\ spent' = [spent EXCEPT !.ctlCrash = @ + 1]
  /\ engine' = IdleEngine
  /\ agent' = [a \in Agents |-> AgentAfterLoss(a)]
  /\ journal' = [a \in Agents |-> JournalAfterLoss(a)]
  /\ progress' = [a \in Agents |-> NoTask]
  /\ api' \in {[j \in Jobs |-> IdleApi], IF Commands THEN api ELSE [j \in Jobs |-> IdleApi]}
  /\ UNCHANGED <<job, task, history>>

--------------------------------------------------------------------------------
(* POST /jobs/{id}/cancel and /jobs/{id}/retry, and the commands that make *)
(* the same two statements without looking at the job                      *)

\* A request that finds its precondition false is refused and changes nothing.
CancelRead(j) ==
  /\ api[j].cancel = "idle"
  /\ spent.cancel < MaxCancels
  /\ job[j].status \notin (IF Commands THEN {"absent"}
                           ELSE {"absent", "cancelled", "completed"})
  /\ spent' = [spent EXCEPT !.cancel = @ + 1]
  /\ api' = [api EXCEPT ![j].cancel = "status"]
  /\ UNCHANGED <<job, task, engine, agent, journal, progress, history>>

CancelStatus(j) ==
  /\ api[j].cancel = "status"
  /\ UpdateJobStatus(j, "cancelled")
  /\ api' = [api EXCEPT ![j].cancel = "tasks"]
  /\ UNCHANGED <<task, engine, agent, journal, progress, spent, history>>

Cancellable_Assigned == {"assigned"}
Cancellable_NotRunning == {"pending", "assigned", "completed", "failed"}
Cancellable == {"pending", "assigned"}

CancelPendingTasks(j) ==
  /\ api[j].cancel = "tasks"
  /\ task' = [t \in Tasks |->
                IF JobOf(t) = j /\ task[t].status \in Cancellable
                THEN [task[t] EXCEPT !.status = "cancelled"] ELSE task[t]]
  /\ api' = [api EXCEPT ![j].cancel = "idle"]
  /\ UNCHANGED <<job, engine, agent, journal, progress, spent, history>>

RetryRead(j) ==
  /\ api[j].retry = "idle"
  /\ spent.retry < MaxRetries
  /\ job[j].status \in (IF Commands THEN JobStatus \ {"absent"} ELSE {"failed"})
  /\ spent' = [spent EXCEPT !.retry = @ + 1]
  /\ api' = [api EXCEPT ![j].retry = "tasks"]
  /\ UNCHANGED <<job, task, engine, agent, journal, progress, history>>

Retryable_Finished == {"failed", "completed"}
Retryable == {"failed"}

RetryFailedTasks(j) ==
  /\ api[j].retry = "tasks"
  /\ task' = [t \in Tasks |->
                IF JobOf(t) = j /\ task[t].status \in Retryable
                THEN [task[t] EXCEPT !.status = "pending", !.agent = NoAgent]
                ELSE task[t]]
  /\ api' = [api EXCEPT ![j].retry = "status"]
  /\ UNCHANGED <<job, engine, agent, journal, progress, spent, history>>

RetryStatus(j) ==
  /\ api[j].retry = "status"
  /\ UpdateJobStatus(j, "queued")
  /\ api' = [api EXCEPT ![j].retry = "idle"]
  /\ UNCHANGED <<task, engine, agent, journal, progress, spent, history>>

\* The client goes away: the request's context ends between two statements.  Or
\* the command is interrupted.
LoseRequest(j) ==
  /\ spent.loss < MaxLosses
  /\ spent' = [spent EXCEPT !.loss = @ + 1]
  /\ \/ /\ api[j].cancel # "idle"
        /\ api' = [api EXCEPT ![j].cancel = "idle"]
     \/ /\ api[j].retry # "idle"
        /\ api' = [api EXCEPT ![j].retry = "idle"]
  /\ UNCHANGED <<job, task, engine, agent, journal, progress, history>>

--------------------------------------------------------------------------------
Init ==
  /\ job = [j \in Jobs |-> [NewJob EXCEPT !.status = "absent"]]
  /\ task = [t \in Tasks |-> [NewTask EXCEPT !.status = "none"]]
  /\ engine = IdleEngine
  /\ agent = [a \in Agents |-> AgentAt("down")]
  /\ journal = [a \in Agents |-> <<>>]
  /\ progress = [a \in Agents |-> NoTask]
  /\ api = [j \in Jobs |-> IdleApi]
  /\ spent = [agentCrash |-> 0, ctlCrash |-> 0, loss |-> 0, cancel |-> 0,
              retry |-> 0]
  /\ history = [produced |-> {}, completed |-> {}, replayed |-> {},
                expanded |-> {}]

\* What an agent and the handlers serving it do by themselves.
AgentStep(a) ==
  \/ StartAgent(a) \/ ClaimNextTask(a) \/ PollCounts(a) \/ PollJob(a)
  \/ FinishScript(a) \/ ProcessResult(a) \/ ResultCounts(a)
  \/ CheckJobCompletion(a) \/ WriteVerdict(a) \/ ResultAcked(a)

ProgressStep(a) == SendProgress(a) \/ ReportProgress(a) \/ DropProgress(a)

ApiStep(j) ==
  \/ CancelStatus(j) \/ CancelPendingTasks(j)
  \/ RetryFailedTasks(j) \/ RetryStatus(j)

\* What users and failures do.
Environment ==
  \/ \E j \in Jobs : CreateJob(j) \/ CancelRead(j) \/ RetryRead(j) \/ LoseRequest(j)
  \/ \E a \in Agents : LoseCall(a) \/ CrashAgent(a)
  \/ CrashController

Next ==
  \/ EngineStep
  \/ \E a \in Agents : AgentStep(a) \/ ProgressStep(a)
  \/ \E j \in Jobs : ApiStep(j)
  \/ Environment

Spec == Init /\ [][Next]_vars

\* The ticker keeps ticking, agents keep polling and their scripts end or time
\* out, and a handler that started runs to its end unless something cuts it.
Fairness ==
  /\ WF_vars(EngineStep)
  /\ \A a \in Agents : WF_vars(AgentStep(a)) /\ WF_vars(ReportProgress(a))
  /\ \A j \in Jobs : WF_vars(ApiStep(j))

FairSpec == Spec /\ Fairness

--------------------------------------------------------------------------------
(* Properties                                                              *)

Result  == [task : Tasks, ok : BOOLEAN]
JobRow  == [status : JobStatus, total : Nat, pending : Nat, running : Nat,
            completed : Nat, failed : Nat]
TaskRow == [status : TaskStatus, agent : Agents \cup {NoAgent}, scripts : BOOLEAN]
EngineState == [pc : {"idle", "next", "create", "script", "counts", "requeue", "fail"},
                todo : SUBSET Jobs, cur : Jobs \cup {NoJob}, chunk : Nat]
AgentState  == [pc : AgentPcs, task : Tasks \cup {NoTask}, scripts : BOOLEAN,
                ok : BOOLEAN, verdict : {"none", "completed", "failed"}, at : Nat]
ApiState    == [cancel : {"idle", "status", "tasks"},
                retry : {"idle", "tasks", "status"}]

\* The loop works on an existing chunk; an agent that is neither down nor idle
\* works on a task, and writes a verdict only when it has one.
EngineOK ==
  /\ engine.pc \in {"create", "script"} => EngineTask \in Tasks
  /\ engine.pc \in {"counts", "requeue", "fail"} => engine.cur \in Jobs
AgentOK(a) ==
  /\ agent[a].pc \notin {"down", "idle"} => agent[a].task \in Tasks
  /\ agent[a].pc = "res_write" => agent[a].verdict # "none"

\* Types of every variable, and what a process at work is working on.
TypeOK ==
  /\ job \in [Jobs -> JobRow]
  /\ task \in [Tasks -> TaskRow]
  /\ engine \in EngineState
  /\ agent \in [Agents -> AgentState]
  /\ journal \in [Agents -> Seq(Result)]
  /\ progress \in [Agents -> Tasks \cup {NoTask}]
  /\ api \in [Jobs -> ApiState]
  /\ spent \in [agentCrash : Nat, ctlCrash : Nat, loss : Nat, cancel : Nat,
                retry : Nat]
  /\ history \in [produced : SUBSET Tasks, completed : SUBSET Tasks,
                  replayed : SUBSET Tasks, expanded : SUBSET Jobs]
  /\ EngineOK
  /\ \A a \in Agents : AgentOK(a)

\* An agent holds a task from its claim until the task's result is stored.
Holds(a, t) ==
  /\ agent[a].task = t
  /\ agent[a].at = 0
  /\ agent[a].pc \in PollPcs \cup ScriptPcs \cup {"res_task"}

\* Two agents never hold the same task: FOR UPDATE SKIP LOCKED serialises the
\* claims, and a task returns to pending only once its holder's result is
\* stored, whatever crashes, cancels, retries, lost calls and lagging progress
\* updates do in between.  Only a journaled result, stored a second time while
\* somebody else runs the retried task, can break it.
ExclusiveExecution ==
  \A t \in Tasks \ history.replayed : \A a, b \in Agents :
    Holds(a, t) /\ Holds(b, t) => a = b

\* Completed work is not re-run: once a task's success is stored, no agent is
\* given the task again, and the row never leaves completed except through a
\* lagging "running" update - again unless a journaled result was replayed.
CompletedNotRerun ==
  \A t \in history.completed \ history.replayed :
    /\ task[t].status \in {"completed", "running"}
    /\ \A a \in Agents : ~Holds(a, t)

\* A completed row stands for a script that ran and exited with success: not
\* for an assignment that came without scripts, nor for another task's result.
CompletedWasProduced ==
  \A t \in Tasks : task[t].status = "completed" => t \in history.produced

\* The loop expands a job at most once: after the pass that counted its tasks,
\* tasks_total is the number of chunks and the job is in no later tick's list,
\* through cancels, retries, refreshes by other handlers and restarts.
ExpandedOnce ==
  \A j \in history.expanded : job[j].total = Chunks[j] /\ j \notin engine.todo

\* No call and no request was cut short.
Uncut == spent.loss = 0 /\ spent.ctlCrash = 0

\* While no request is cut short and the loop is not restarted, a job that
\* stays cancelled has no task left to hand out, even when it was cancelled in
\* the middle of its expansion or next to a retry.
CancelLeavesNothingPending ==
  Uncut =>
    \A j \in Jobs :
      job[j].status = "cancelled" /\ api[j] = IdleApi /\ engine.cur # j
        => \A t \in TasksOf(j) : task[t].status # "pending"

Undisturbed == Uncut /\ spent.agentCrash = 0 /\ spent.retry = 0 /\ ~ProgressMayLag

\* A stored result is counted by the time its handler has refreshed the row,
\* however many reports and cancels run at once: the completed and failed
\* counters are wrong only between the two statements of some report.
\* (Retries, lagging progress and cut handlers break this by design.)
ResultsAreCounted ==
  Undisturbed =>
    \A j \in Jobs :
      \/ /\ job[j].completed = Count(j, "completed")
         /\ job[j].failed = Count(j, "failed")
      \/ \E a \in Agents : agent[a].pc = "res_counts" /\ JobOf(agent[a].task) = j

Final(t) == task[t].status \in {"completed", "failed", "cancelled"}

CountersTrue(j) ==
  /\ job[j].total = TotalTasks(j)
  /\ job[j].pending = Count(j, "pending")
  /\ job[j].running = Count(j, "running")
  /\ job[j].completed = Count(j, "completed")
  /\ job[j].failed = Count(j, "failed")

Verdict(j) == IF \E t \in TasksOf(j) : task[t].status = "failed" THEN "failed"
                                                               ELSE "completed"

\* Every chunk has its result, and the job row says so.
Settled(j) ==
  /\ \A t \in TasksOf(j) : task[t].status \in {"completed", "failed"}
  /\ CountersTrue(j)
  /\ job[j].status = Verdict(j)

Dispatchable(j) == Chunks[j] > 0 /\ j \notin Tagged

\* What a job is exposed to.  The temporal properties assume of a behaviour that
\* some of these predicates hold in all of its states.
NothingCut == Uncut /\ spent.agentCrash = 0

\* The loop's expansion of j does not end in an error.
Rendered(j) == engine.cur = j => engine.pc # "fail"

\* No progress UPDATE of j is in flight after its script has ended.
ProgressOnTime(j) ==
  \A a \in Agents : progress[a] \in TasksOf(j) => agent[a].pc = "progressed"

Judging(a, j) == agent[a].pc \in {"res_check", "res_write"} /\ JobOf(agent[a].task) = j

\* No report decides about j while the loop expands j or a retry of j is served.
JudgedApart(j) ==
  engine.cur = j \/ api[j].retry # "idle" => \A a \in Agents : ~Judging(a, j)

Orderly(j) == NothingCut /\ Rendered(j) /\ ProgressOnTime(j) /\ JudgedApart(j)

\* No two reports have different verdicts on j to write.
VerdictsAgree(j) ==
  \A a, b \in Agents :
    /\ agent[a].pc = "res_write" /\ JobOf(agent[a].task) = j
    /\ agent[b].pc = "res_write" /\ JobOf(agent[b].task) = j
    => agent[a].verdict = agent[b].verdict

Wanted(j) == job[j].status # "cancelled" /\ api[j].cancel = "idle"

\* What is retried has failed; the command does not look.
RetriedFailed(j) == api[j].retry # "idle" => job[j].status = "failed"

\* A dispatchable job is worked off, by any number of agents that may poll
\* during its expansion: it ends for good with a result for each chunk, true
\* counters and the status its tasks deserve, through retries too.  Each
\* condition names something after which the code leaves a job in the wrong
\* status or unfinished for ever: a cut call or a crash; a failing render (tasks
\* stay pending in a failed job); a late progress update (the task stays
\* running); a verdict formed during the expansion or a retry, which is
\* overwritten by "queued" or overwrites it; two verdicts, the older of which is
\* written last; a cancel; a retry of what has not failed.
EveryJobSettles ==
  \A j \in Jobs :
    [](Orderly(j) /\ VerdictsAgree(j) /\ Wanted(j) /\ RetriedFailed(j))
      => (Dispatchable(j) /\ job[j].status # "absent" ~> []Settled(j))

\* Cancels, retries of any job and racing verdicts may spoil the status of a job,
\* but no task: each row that was created is finished for good, none is left
\* assigned, running or forgotten in pending.  The conditions are the first four
\* of EveryJobSettles.
EveryTaskEnds ==
  \A t \in Tasks :
    []Orderly(JobOf(t)) => (task[t].status # "none" ~> []Final(t))

--------------------------------------------------------------------------------
(* Statements of the documentation that the code does not keep             *)

\* DEPLOYMENT.md: a job reaches completed when all its chunks succeed.  An
\* assigned sibling is in no counter, so checkJobCompletion overlooks it.
CompletedMeansAllChunksSucceeded ==
  \A j \in Jobs : job[j].status = "completed" =>
    \A t \in TasksOf(j) : task[t].status = "completed"

\* Servers with matching tags are eligible for a tagged job.
TaggedJobIsServed ==
  \A j \in Tagged : job[j].status = "queued" ~>
    \E t \in TasksOf(j) : task[t].status \notin {"none", "pending"}

================================================================================
