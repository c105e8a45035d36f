-------------------------- MODULE JobDispatch_proofs --------------------------
(***************************************************************************)
(* Proofs about JobDispatch, for every set of jobs and agents, every       *)
(* number of chunks and every bound on crashes, losses and requests; last  *)
(* comes that it implements TaskPromise under JobRefinement's mapping.     *)
(***************************************************************************)
EXTENDS JobRefinement, FiniteSetTheorems, SequenceTheorems, TLAPS

--------------------------------------------------------------------------------
(* Task keys                                                               *)

\* The key of a task names its job and one of the job's chunks.
LEMMA TaskKey ==
  ASSUME NEW t \in Tasks
  PROVE  /\ JobOf(t) \in Jobs
         /\ t[2] \in 1..Chunks[t[1]]
         /\ t = <<t[1], t[2]>>
BY DispatchAssumption DEF Tasks, JobOf

LEMMA TaskIntro ==
  ASSUME NEW j \in Jobs, NEW c \in 1..Chunks[j]
  PROVE  <<j, c>> \in Tasks
BY DispatchAssumption DEF Tasks

\* A job has finitely many tasks, one per chunk.
LEMMA TasksOfFinite ==
  ASSUME NEW j \in Jobs
  PROVE  IsFiniteSet(TasksOf(j))
<1> DEFINE f == [c \in 1..Chunks[j] |-> <<j, c>>]
<1>1. Chunks[j] \in Nat
  BY DispatchAssumption
<1>2. IsFiniteSet(1..Chunks[j])
  BY <1>1, FS_Interval
<1>3. \A c \in 1..Chunks[j] : f[c] \in TasksOf(j)
  BY TaskIntro DEF TasksOf, JobOf
<1>4. \A t \in TasksOf(j) : \E c \in 1..Chunks[j] : f[c] = t
  BY TaskKey DEF TasksOf, JobOf
<1>5. f \in Surjection(1..Chunks[j], TasksOf(j))
  BY <1>3, <1>4 DEF Surjection
<1> QED BY <1>2, <1>5, FS_Surjection

\* The counts a refresh writes are natural numbers.
LEMMA CountType ==
  ASSUME NEW j \in Jobs
  PROVE  /\ \A s : Count(j, s) \in Nat
         /\ TotalTasks(j) \in Nat
<1>1. IsFiniteSet(TasksOf(j))
  BY TasksOfFinite
<1>2. ASSUME NEW s PROVE Count(j, s) \in Nat
  <2>1. {t \in TasksOf(j) : task[t].status = s} \in SUBSET TasksOf(j)
    OBVIOUS
  <2> QED BY <1>1, <2>1, FS_Subset, FS_CardinalityType DEF Count
<1>3. TotalTasks(j) \in Nat
  <2>1. {t \in TasksOf(j) : task[t].status # "none"} \in SUBSET TasksOf(j)
    OBVIOUS
  <2> QED BY <1>1, <2>1, FS_Subset, FS_CardinalityType DEF TotalTasks
<1> QED BY <1>2, <1>3

LEMMA RefreshType ==
  ASSUME NEW j \in Jobs, job \in [Jobs -> JobRow], UpdateJobTaskCounts(j)
  PROVE  job' \in [Jobs -> JobRow]
BY CountType DEF UpdateJobTaskCounts, JobRow

LEMMA StatusType ==
  ASSUME NEW j \in Jobs, NEW s \in JobStatus, job \in [Jobs -> JobRow],
         UpdateJobStatus(j, s)
  PROVE  job' \in [Jobs -> JobRow]
BY DEF UpdateJobStatus, JobRow

--------------------------------------------------------------------------------
(* Type correctness                                                        *)

LEMMA TypeInit == Init => TypeOK
<1> SUFFICES ASSUME Init PROVE TypeOK
  OBVIOUS
<1>1. job \in [Jobs -> JobRow]
  BY DEF Init, NewJob, JobRow, JobStatus
<1>2. task \in [Tasks -> TaskRow]
  BY DEF Init, NewTask, TaskRow, TaskStatus
<1>3. engine \in EngineState /\ EngineOK
  BY DEF Init, IdleEngine, EngineState, EngineOK
<1>4. agent \in [Agents -> AgentState] /\ \A a \in Agents : AgentOK(a)
  BY DEF Init, AgentAt, AgentState, AgentPcs, AgentOK
<1>5. journal \in [Agents -> Seq(Result)]
  BY EmptySeq DEF Init
<1>6. api \in [Jobs -> ApiState]
  BY DEF Init, IdleApi, ApiState
<1> QED BY <1>1, <1>2, <1>3, <1>4, <1>5, <1>6 DEF Init, TypeOK

\* The dispatch loop keeps the types.
LEMMA TypeEngine ==
  ASSUME TypeOK, EngineStep
  PROVE  TypeOK'
<1>1. CASE EngineTick
  BY <1>1 DEF TypeOK, EngineTick, EngineState, EngineOK, EngineTask, AgentOK,
              GetJobsNeedingExpansion
<1>2. CASE EngineNextJob
  <2>1. engine.todo \in SUBSET Jobs
    BY DEF TypeOK, EngineState
  <2>2. PICK j \in engine.todo :
          engine' = IF Chunks[j] = 0
                    THEN [engine EXCEPT !.todo = @ \ {j}]
                    ELSE [pc |-> "create", todo |-> engine.todo \ {j},
                          cur |-> j, chunk |-> 1]
    BY <1>2 DEF EngineNextJob
  <2>3. j \in Jobs /\ Chunks[j] \in Nat
    BY <2>1, DispatchAssumption
  <2>4. engine' \in EngineState
    BY <2>1, <2>2, <2>3 DEF TypeOK, EngineState
  <2>5. EngineOK'
    <3>1. CASE Chunks[j] = 0
      BY <1>2, <2>2, <3>1 DEF EngineNextJob, EngineOK, TypeOK, EngineState
    <3>2. CASE Chunks[j] # 0
      <4>1. 1 \in 1..Chunks[j]
        BY <2>3, <3>2
      <4>2. <<j, 1>> \in Tasks
        BY <2>3, <4>1, TaskIntro
      <4> QED BY <2>2, <2>3, <3>2, <4>2 DEF EngineOK, EngineTask
    <3> QED BY <3>1, <3>2
  <2> QED BY <1>2, <2>4, <2>5 DEF TypeOK, EngineNextJob, AgentOK
<1>3. CASE EngineTickDone
  BY <1>3 DEF TypeOK, EngineTickDone, IdleEngine, EngineState, EngineOK, AgentOK
<1>4. CASE EngineCreateTask
  <2>1. task' \in [Tasks -> TaskRow]
    BY <1>4 DEF TypeOK, EngineCreateTask, NewTask, TaskRow, TaskStatus
  <2>2. engine' \in EngineState /\ EngineOK'
    BY <1>4 DEF TypeOK, EngineCreateTask, EngineState, EngineOK, EngineTask
  <2> QED BY <1>4, <2>1, <2>2 DEF TypeOK, EngineCreateTask, AgentOK
<1>5. CASE EngineCreateConflict \/ EngineRenderFails
  <2>1. engine.cur \in Jobs
    BY <1>5, TaskKey DEF TypeOK, EngineOK, EngineCreateConflict,
                         EngineRenderFails, EngineTask, JobOf
  <2>2. engine' \in EngineState /\ EngineOK'
    BY <1>5, <2>1 DEF TypeOK, EngineCreateConflict, EngineRenderFails,
                      EngineState, EngineOK, EngineTask
  <2> QED BY <1>5, <2>2 DEF TypeOK, EngineCreateConflict, EngineRenderFails,
                            AgentOK
<1>6. CASE EngineSetScriptDir
  <2>1. EngineTask \in Tasks
    BY <1>6 DEF TypeOK, EngineOK, EngineSetScriptDir
  <2>2. /\ engine.cur \in Jobs
        /\ Chunks[engine.cur] \in Nat
        /\ engine.chunk \in 1..Chunks[engine.cur]
    BY <2>1, TaskKey, DispatchAssumption DEF EngineTask, JobOf
  <2>3. task' \in [Tasks -> TaskRow]
    BY <1>6 DEF TypeOK, EngineSetScriptDir, TaskRow
  <2>4. engine' \in EngineState
    <3>1. engine \in EngineState /\ engine.chunk + 1 \in Nat
      BY <2>2 DEF TypeOK
    <3> QED BY <1>6, <3>1 DEF EngineSetScriptDir, EngineState
  <2>5. EngineOK'
    <3>1. CASE MoreChunks
      <4>1. engine.chunk + 1 \in 1..Chunks[engine.cur]
        BY <2>2, <3>1 DEF MoreChunks
      <4>2. <<engine.cur, engine.chunk + 1>> \in Tasks
        BY <2>2, <4>1, TaskIntro
      <4> QED BY <1>6, <3>1, <4>2
              DEF TypeOK, EngineState, EngineSetScriptDir, EngineOK, EngineTask
    <3>2. CASE ~MoreChunks
      BY <1>6, <2>2, <3>2
      DEF TypeOK, EngineState, EngineSetScriptDir, EngineOK, EngineTask
    <3> QED BY <3>1, <3>2
  <2> QED BY <1>6, <2>3, <2>4, <2>5 DEF TypeOK, EngineSetScriptDir, AgentOK
<1>7. CASE EngineCounts
  <2>1. engine.cur \in Jobs
    BY <1>7 DEF TypeOK, EngineOK, EngineCounts
  <2>2. job' \in [Jobs -> JobRow]
    BY <1>7, <2>1, RefreshType DEF TypeOK, EngineCounts
  <2>3. engine' \in EngineState /\ EngineOK'
    BY <1>7, <2>1 DEF TypeOK, EngineCounts, EngineState, EngineOK, EngineTask
  <2> QED BY <1>7, <2>1, <2>2, <2>3 DEF TypeOK, EngineCounts, AgentOK
<1>8. CASE EngineRequeue \/ EngineFailJob
  <2>1. engine.cur \in Jobs
    BY <1>8 DEF TypeOK, EngineOK, EngineRequeue, EngineFailJob
  <2>2. job' \in [Jobs -> JobRow]
    BY <1>8, <2>1, StatusType DEF TypeOK, EngineRequeue, EngineFailJob, JobStatus
  <2>3. engine' \in EngineState /\ EngineOK'
    <3>1. engine \in EngineState /\ engine' = EngineNextAfterJob
      BY <1>8 DEF TypeOK, EngineRequeue, EngineFailJob
    <3> QED BY <3>1 DEF EngineNextAfterJob, EngineState, EngineOK
  <2> QED BY <1>8, <2>2, <2>3 DEF TypeOK, EngineRequeue, EngineFailJob, AgentOK
<1> QED BY <1>1, <1>2, <1>3, <1>4, <1>5, <1>6, <1>7, <1>8 DEF EngineStep

\* What a replay starts from is a stored result.
LEMMA TypeReplay ==
  ASSUME TypeOK, NEW a \in Agents, NEW i \in 1..Len(journal[a])
  PROVE  /\ Replay(a, i) \in AgentState
         /\ Replay(a, i).pc = "res_task"
         /\ Replay(a, i).task \in Tasks
<1>1. journal[a][i] \in Result
  BY ElementOfSeq DEF TypeOK
<1>2. i \in Nat
  BY LenProperties DEF TypeOK
<1> QED BY <1>1, <1>2 DEF Replay, AgentAt, AgentState, AgentPcs, ResultPcs, Result

\* A process between two calls is well typed.
LEMMA TypeAgentAt ==
  ASSUME NEW pc \in {"down", "idle"}
  PROVE  AgentAt(pc) \in AgentState
BY DEF AgentAt, AgentState, AgentPcs

LEMMA TypeAgentPut ==
  ASSUME agent \in [Agents -> AgentState], NEW a \in Agents, NEW s \in AgentState,
         agent' = [agent EXCEPT ![a] = s]
  PROVE  agent' \in [Agents -> AgentState]
OBVIOUS

LEMMA TypeAgentPc ==
  ASSUME agent \in [Agents -> AgentState], NEW a \in Agents, NEW pc \in AgentPcs,
         agent' = [agent EXCEPT ![a].pc = pc]
  PROVE  agent' \in [Agents -> AgentState]
BY DEF AgentState

LEMMA TypeTaskStatus ==
  ASSUME task \in [Tasks -> TaskRow], NEW t \in Tasks, NEW s \in TaskStatus,
         UpdateTaskStatus(t, s)
  PROVE  task' \in [Tasks -> TaskRow]
BY DEF UpdateTaskStatus, TaskRow

\* A step that leaves the loop alone leaves its place in a job valid.
LEMMA EngineFrame ==
  ASSUME TypeOK, UNCHANGED engine
  PROVE  EngineOK'
BY DEF TypeOK, EngineOK, EngineTask

\* The program counters of an agent, by name.
LEMMA Pcs ==
  {"idle", "poll_counts", "poll_job", "started", "progressed", "res_task",
   "res_counts", "res_check", "res_write", "res_ack"} \subseteq AgentPcs
BY DEF AgentPcs, PollPcs, ScriptPcs, ResultPcs

\* An agent and the handlers serving it keep the types.
LEMMA TypeAgent ==
  ASSUME TypeOK, NEW a \in Agents, AgentStep(a) \/ ProgressStep(a)
  PROVE  TypeOK'
<1> DEFINE History == [produced : SUBSET Tasks, completed : SUBSET Tasks,
                       replayed : SUBSET Tasks, expanded : SUBSET Jobs]
<1>0. /\ job \in [Jobs -> JobRow]
      /\ task \in [Tasks -> TaskRow]
      /\ agent \in [Agents -> AgentState]
      /\ agent[a] \in AgentState
      /\ history \in History
      /\ agent[a].pc \notin {"down", "idle"} => agent[a].task \in Tasks
  BY DEF TypeOK, AgentOK
<1>1. CASE StartAgent(a)
  <2>1. PICK s \in AgentState : /\ agent' = [agent EXCEPT ![a] = s]
                                /\ s.pc = "idle" \/ s.pc = "res_task"
                                /\ s.pc = "res_task" => s.task \in Tasks
    <3>1. CASE journal[a] = <<>>
      BY <1>1, <3>1, TypeAgentAt DEF StartAgent, AgentAt
    <3>2. CASE journal[a] # <<>>
      <4>1. 1 \in 1..Len(journal[a])
        BY <3>2, LenProperties, EmptySeq DEF TypeOK
      <4> QED BY <1>1, <3>2, <4>1, TypeReplay DEF StartAgent
    <3> QED BY <3>1, <3>2
  <2>2. agent' \in [Agents -> AgentState]
    BY <1>0, <2>1, TypeAgentPut
  <2>3. \A b \in Agents : AgentOK(b)'
    BY <1>0, <2>1 DEF TypeOK, AgentOK
  <2> QED BY <1>1, <2>2, <2>3, EngineFrame DEF TypeOK, StartAgent
<1>2. CASE ClaimNextTask(a)
  <2>1. PICK t \in Tasks :
          /\ task' = [task EXCEPT ![t].status = "assigned", ![t].agent = a]
          /\ agent' = [agent EXCEPT ![a] = [AgentAt("poll_counts") EXCEPT
                                       !.task = t, !.scripts = task[t].scripts]]
    BY <1>2 DEF ClaimNextTask, Claimable
  <2>2. task' \in [Tasks -> TaskRow]
    BY <1>0, <2>1 DEF TaskRow, TaskStatus
  <2>3. [AgentAt("poll_counts") EXCEPT !.task = t, !.scripts = task[t].scripts]
          \in AgentState
    BY <1>0, Pcs DEF TaskRow, AgentAt, AgentState
  <2>4. agent' \in [Agents -> AgentState]
    BY <1>0, <2>1, <2>3, TypeAgentPut
  <2>5. \A b \in Agents : AgentOK(b)'
    BY <2>1 DEF TypeOK, AgentAt, AgentOK
  <2> QED BY <1>2, <2>2, <2>4, <2>5, EngineFrame DEF TypeOK, ClaimNextTask
<1>3. CASE PollCounts(a)
  <2>1. JobOf(agent[a].task) \in Jobs
    BY <1>0, <1>3, TaskKey DEF PollCounts
  <2>2. job' \in [Jobs -> JobRow]
    BY <1>0, <1>3, <2>1, RefreshType DEF PollCounts
  <2>3. agent' \in [Agents -> AgentState]
    BY <1>0, <1>3, Pcs, TypeAgentPc DEF PollCounts
  <2>4. \A b \in Agents : AgentOK(b)'
    BY <1>3 DEF TypeOK, PollCounts, AgentOK
  <2> QED BY <1>3, <2>2, <2>3, <2>4, EngineFrame DEF TypeOK, PollCounts
<1>4. CASE PollJob(a)
  <2>1. job' \in [Jobs -> JobRow]
    BY <1>0, <1>4 DEF PollJob, JobRow, JobStatus
  <2>2. agent' \in [Agents -> AgentState]
    BY <1>0, <1>4, Pcs, TypeAgentPc DEF PollJob
  <2>3. \A b \in Agents : AgentOK(b)'
    BY <1>4 DEF TypeOK, PollJob, AgentOK
  <2> QED BY <1>4, <2>1, <2>2, <2>3, EngineFrame DEF TypeOK, PollJob
<1>5. CASE FinishScript(a)
  <2>1. PICK ok \in BOOLEAN :
          /\ agent' = [agent EXCEPT ![a].pc = "res_task", ![a].ok = ok]
          /\ history' = IF ok
                        THEN [history EXCEPT !.produced = @ \cup {agent[a].task}]
                        ELSE history
    BY <1>5 DEF FinishScript
  <2>2. agent[a].task \in Tasks
    BY <1>0, <1>5 DEF FinishScript, ScriptPcs
  <2>3. agent' \in [Agents -> AgentState]
    BY <1>0, <2>1, Pcs DEF AgentState
  <2>4. \A b \in Agents : AgentOK(b)'
    BY <2>1, <2>2 DEF TypeOK, AgentOK
  <2>5. history' \in History
    BY <1>0, <2>1, <2>2
  <2> QED BY <1>5, <2>3, <2>4, <2>5, EngineFrame DEF TypeOK, FinishScript
<1>6. CASE ProcessResult(a)
  <2>1. agent[a].task \in Tasks
    BY <1>0, <1>6 DEF ProcessResult
  <2>2. task' \in [Tasks -> TaskRow]
    <3>1. ResultStatus(a) \in TaskStatus
      BY DEF ResultStatus, TaskStatus
    <3> QED BY <1>0, <1>6, <2>1, <3>1, TypeTaskStatus DEF ProcessResult
  <2>3. agent' \in [Agents -> AgentState]
    BY <1>0, <1>6, Pcs, TypeAgentPc DEF ProcessResult
  <2>4. \A b \in Agents : AgentOK(b)'
    BY <1>6 DEF TypeOK, ProcessResult, AgentOK
  <2>5. history' \in History
    BY <1>0, <1>6, <2>1 DEF ProcessResult
  <2> QED BY <1>6, <2>2, <2>3, <2>4, <2>5, EngineFrame DEF TypeOK, ProcessResult
<1>7. CASE ResultCounts(a)
  <2>1. JobOf(agent[a].task) \in Jobs
    BY <1>0, <1>7, TaskKey DEF ResultCounts
  <2>2. job' \in [Jobs -> JobRow]
    BY <1>0, <1>7, <2>1, RefreshType DEF ResultCounts
  <2>3. agent' \in [Agents -> AgentState]
    BY <1>0, <1>7, Pcs, TypeAgentPc DEF ResultCounts
  <2>4. \A b \in Agents : AgentOK(b)'
    BY <1>7 DEF TypeOK, ResultCounts, AgentOK
  <2> QED BY <1>7, <2>2, <2>3, <2>4, EngineFrame DEF TypeOK, ResultCounts
<1>8. CASE CheckJobCompletion(a)
  <2>1. PICK s \in AgentState : /\ agent' = [agent EXCEPT ![a] = s]
                                /\ s.task = agent[a].task
                                /\ s.pc = "res_write" => s.verdict # "none"
    <3>1. [agent[a] EXCEPT !.pc = "res_ack"] \in AgentState
      BY <1>0, Pcs DEF AgentState
    <3>2. ASSUME NEW v \in {"completed", "failed"}
          PROVE  [agent[a] EXCEPT !.pc = "res_write", !.verdict = v] \in AgentState
      BY <1>0, Pcs DEF AgentState
    <3> QED BY <1>0, <1>8, <3>1, <3>2 DEF CheckJobCompletion, RowVerdict, AgentState
  <2>2. agent' \in [Agents -> AgentState]
    BY <1>0, <2>1, TypeAgentPut
  <2>3. \A b \in Agents : AgentOK(b)'
    BY <1>0, <1>8, <2>1 DEF TypeOK, CheckJobCompletion, AgentOK
  <2> QED BY <1>8, <2>2, <2>3, EngineFrame DEF TypeOK, CheckJobCompletion
<1>9. CASE WriteVerdict(a)
  <2>1. /\ JobOf(agent[a].task) \in Jobs
        /\ agent[a].verdict \in JobStatus
    BY <1>0, <1>9, TaskKey DEF TypeOK, AgentOK, AgentState, WriteVerdict, JobStatus
  <2>2. job' \in [Jobs -> JobRow]
    BY <1>0, <1>9, <2>1, StatusType DEF WriteVerdict
  <2>3. agent' \in [Agents -> AgentState]
    BY <1>0, <1>9, Pcs DEF WriteVerdict, AgentState
  <2>4. \A b \in Agents : AgentOK(b)'
    <3>1. [agent[a] EXCEPT !.pc = "res_ack", !.verdict = "none"].task
            = agent[a].task
      BY <1>0 DEF AgentState
    <3>2. /\ agent'[a].pc = "res_ack"
          /\ agent'[a].task = agent[a].task
          /\ \A b \in Agents \ {a} : agent'[b] = agent[b]
      BY <1>0, <1>9, <3>1 DEF WriteVerdict, AgentState
    <3> QED BY <1>0, <1>9, <3>2 DEF TypeOK, WriteVerdict, AgentOK
  <2>5. UNCHANGED <<task, engine, journal, progress, api, spent, history>>
    BY <1>9 DEF WriteVerdict
  <2> QED BY <2>2, <2>3, <2>4, <2>5, EngineFrame DEF TypeOK
<1>10. CASE ResultAcked(a)
  <2>1. /\ journal' \in [Agents -> Seq(Result)]
        /\ \E s \in AgentState : /\ agent' = [agent EXCEPT ![a] = s]
                                 /\ s.pc = "idle" \/ s.pc = "res_task"
                                 /\ s.pc = "res_task" => s.task \in Tasks
    <3>1. CASE 0 < agent[a].at /\ agent[a].at < Len(journal[a])
      <4>1. agent[a].at + 1 \in 1..Len(journal[a])
        BY <1>0, <3>1, LenProperties DEF TypeOK, AgentState
      <4>2. /\ agent' = [agent EXCEPT ![a] = Replay(a, agent[a].at + 1)]
            /\ journal' \in [Agents -> Seq(Result)]
        BY <1>10, <3>1 DEF TypeOK, ResultAcked
      <4> QED BY <4>1, <4>2, TypeReplay
    <3>2. CASE ~(0 < agent[a].at /\ agent[a].at < Len(journal[a]))
      <4>1. agent' = [agent EXCEPT ![a] = AgentAt("idle")]
        BY <1>10, <3>2 DEF ResultAcked
      <4>2. journal' = journal \/ journal' = [journal EXCEPT ![a] = <<>>]
        BY <1>10, <3>2 DEF ResultAcked
      <4>3. journal' \in [Agents -> Seq(Result)]
        BY <4>2, EmptySeq DEF TypeOK
      <4> QED BY <4>1, <4>3, TypeAgentAt DEF AgentAt
    <3> QED BY <3>1, <3>2
  <2>2. PICK s \in AgentState : /\ agent' = [agent EXCEPT ![a] = s]
                                /\ s.pc = "idle" \/ s.pc = "res_task"
                                /\ s.pc = "res_task" => s.task \in Tasks
    BY <2>1
  <2>3. agent' \in [Agents -> AgentState]
    BY <1>0, <2>2, TypeAgentPut
  <2>4. \A b \in Agents : AgentOK(b)'
    BY <1>0, <2>2 DEF TypeOK, AgentOK
  <2> QED BY <1>10, <2>1, <2>3, <2>4, EngineFrame DEF TypeOK, ResultAcked
<1>11. CASE SendProgress(a)
  <2>1. progress' \in [Agents -> Tasks \cup {NoTask}]
    BY <1>0, <1>11 DEF TypeOK, SendProgress
  <2>2. agent' \in [Agents -> AgentState]
    BY <1>0, <1>11, Pcs, TypeAgentPc DEF SendProgress
  <2>3. \A b \in Agents : AgentOK(b)'
    BY <1>11 DEF TypeOK, SendProgress, AgentOK
  <2> QED BY <1>11, <2>1, <2>2, <2>3, EngineFrame DEF TypeOK, SendProgress
<1>12. CASE ReportProgress(a)
  <2>1. progress[a] \in Tasks /\ progress' \in [Agents -> Tasks \cup {NoTask}]
    BY <1>12 DEF TypeOK, ReportProgress
  <2>2. task' \in [Tasks -> TaskRow]
    <3>1. "running" \in TaskStatus
      BY DEF TaskStatus
    <3> QED BY <1>0, <1>12, <2>1, <3>1, TypeTaskStatus DEF ReportProgress
  <2>3. \A b \in Agents : AgentOK(b)'
    BY <1>12 DEF TypeOK, ReportProgress, AgentOK
  <2> QED BY <1>12, <2>1, <2>2, <2>3, EngineFrame DEF TypeOK, ReportProgress
<1>13. CASE DropProgress(a)
  <2>1. \A b \in Agents : AgentOK(b)'
    BY <1>13 DEF TypeOK, DropProgress, AgentOK
  <2> QED BY <1>13, <2>1, EngineFrame DEF TypeOK, DropProgress
<1> QED BY <1>1, <1>2, <1>3, <1>4, <1>5, <1>6, <1>7, <1>8, <1>9, <1>10, <1>11,
           <1>12, <1>13 DEF AgentStep, ProgressStep

\* The API handlers keep the types.
LEMMA TypeApi ==
  ASSUME TypeOK, NEW j \in Jobs, ApiStep(j)
  PROVE  TypeOK'
<1>0. /\ job \in [Jobs -> JobRow]
      /\ task \in [Tasks -> TaskRow]
      /\ api \in [Jobs -> ApiState]
  BY DEF TypeOK
<1>1. CASE CancelStatus(j)
  <2>1. job' \in [Jobs -> JobRow]
    <3>1. "cancelled" \in JobStatus
      BY DEF JobStatus
    <3> QED BY <1>0, <1>1, <3>1, StatusType DEF CancelStatus
  <2>2. api' \in [Jobs -> ApiState]
    BY <1>0, <1>1 DEF CancelStatus, ApiState
  <2> QED BY <1>1, <2>1, <2>2, EngineFrame DEF TypeOK, CancelStatus, AgentOK
<1>2. CASE CancelPendingTasks(j)
  <2>1. task' \in [Tasks -> TaskRow]
    BY <1>0, <1>2 DEF CancelPendingTasks, TaskRow, TaskStatus
  <2>2. api' \in [Jobs -> ApiState]
    BY <1>0, <1>2 DEF CancelPendingTasks, ApiState
  <2> QED BY <1>2, <2>1, <2>2, EngineFrame DEF TypeOK, CancelPendingTasks, AgentOK
<1>3. CASE RetryFailedTasks(j)
  <2>1. task' \in [Tasks -> TaskRow]
    BY <1>0, <1>3 DEF RetryFailedTasks, TaskRow, TaskStatus
  <2>2. api' \in [Jobs -> ApiState]
    BY <1>0, <1>3 DEF RetryFailedTasks, ApiState
  <2> QED BY <1>3, <2>1, <2>2, EngineFrame DEF TypeOK, RetryFailedTasks, AgentOK
<1>4. CASE RetryStatus(j)
  <2>1. job' \in [Jobs -> JobRow]
    <3>1. "queued" \in JobStatus
      BY DEF JobStatus
    <3> QED BY <1>0, <1>4, <3>1, StatusType DEF RetryStatus
  <2>2. api' \in [Jobs -> ApiState]
    BY <1>0, <1>4 DEF RetryStatus, ApiState
  <2> QED BY <1>4, <2>1, <2>2, EngineFrame DEF TypeOK, RetryStatus, AgentOK
<1> QED BY <1>1, <1>2, <1>3, <1>4 DEF ApiStep

\* A lost call leaves an agent idle, and its journal a list of results.
LEMMA TypeAfterLoss ==
  ASSUME TypeOK, NEW a \in Agents
  PROVE  /\ AgentAfterLoss(a) \in AgentState
         /\ AgentAfterLoss(a) \in {AgentAt("idle"), agent[a]}
         /\ JournalAfterLoss(a) \in Seq(Result)
<1>1. AgentAfterLoss(a) \in AgentState
  BY TypeAgentAt DEF TypeOK, AgentAfterLoss
<1>2. JournalAfterLoss(a) \in Seq(Result)
  <2>1. CASE agent[a].pc \in ResultPcs /\ agent[a].at = 0
    <3>1. [task |-> agent[a].task, ok |-> agent[a].ok] \in Result
      BY <2>1 DEF TypeOK, AgentOK, AgentState, ResultPcs, Result
    <3>2. journal[a] \in Seq(Result)
      BY DEF TypeOK
    <3> QED BY <2>1, <3>1, <3>2, AppendProperties DEF JournalAfterLoss
  <2>2. CASE ~(agent[a].pc \in ResultPcs /\ agent[a].at = 0)
    BY <2>2 DEF TypeOK, JournalAfterLoss
  <2> QED BY <2>1, <2>2
<1> QED BY <1>1, <1>2 DEF AgentAfterLoss

\* Users and failures keep the types.
LEMMA TypeEnvironment ==
  ASSUME TypeOK, Environment
  PROVE  TypeOK'
<1> DEFINE Spent == [agentCrash : Nat, ctlCrash : Nat, loss : Nat, cancel : Nat,
                     retry : Nat]
<1>0. /\ job \in [Jobs -> JobRow]
      /\ agent \in [Agents -> AgentState]
      /\ journal \in [Agents -> Seq(Result)]
      /\ progress \in [Agents -> Tasks \cup {NoTask}]
      /\ api \in [Jobs -> ApiState]
      /\ spent \in Spent
      /\ \A a \in Agents : AgentOK(a)
  BY DEF TypeOK
<1>s. /\ [spent EXCEPT !.agentCrash = @ + 1] \in Spent
      /\ [spent EXCEPT !.ctlCrash = @ + 1] \in Spent
      /\ [spent EXCEPT !.loss = @ + 1] \in Spent
      /\ [spent EXCEPT !.cancel = @ + 1] \in Spent
      /\ [spent EXCEPT !.retry = @ + 1] \in Spent
  BY <1>0
<1> HIDE DEF Spent
<1>1. ASSUME NEW j \in Jobs, CreateJob(j) PROVE TypeOK'
  <2>1. job' \in [Jobs -> JobRow]
    BY <1>0, <1>1 DEF CreateJob, NewJob, JobRow, JobStatus
  <2> QED BY <1>1, <2>1, EngineFrame DEF TypeOK, CreateJob, AgentOK
<1>2. ASSUME NEW j \in Jobs, CancelRead(j) PROVE TypeOK'
  <2>1. api' \in [Jobs -> ApiState]
    BY <1>0, <1>2 DEF CancelRead, ApiState
  <2>2. spent' \in Spent
    BY <1>s, <1>2 DEF CancelRead
  <2> QED BY <1>2, <2>1, <2>2, EngineFrame DEF TypeOK, CancelRead, AgentOK, Spent
<1>3. ASSUME NEW j \in Jobs, RetryRead(j) PROVE TypeOK'
  <2>1. api' \in [Jobs -> ApiState]
    BY <1>0, <1>3 DEF RetryRead, ApiState
  <2>2. spent' \in Spent
    BY <1>s, <1>3 DEF RetryRead
  <2> QED BY <1>3, <2>1, <2>2, EngineFrame DEF TypeOK, RetryRead, AgentOK, Spent
<1>4. ASSUME NEW j \in Jobs, LoseRequest(j) PROVE TypeOK'
  <2>1. api' \in [Jobs -> ApiState]
    BY <1>0, <1>4 DEF LoseRequest, ApiState
  <2>2. spent' \in Spent
    BY <1>s, <1>4 DEF LoseRequest
  <2> QED BY <1>4, <2>1, <2>2, EngineFrame DEF TypeOK, LoseRequest, AgentOK, Spent
<1>5. ASSUME NEW a \in Agents, LoseCall(a) PROVE TypeOK'
  <2>1. spent' \in Spent
    BY <1>s, <1>5 DEF LoseCall
  <2>2. journal' \in [Agents -> Seq(Result)]
    BY <1>0, <1>5, TypeAfterLoss DEF LoseCall
  <2>3. agent' \in [Agents -> AgentState]
    BY <1>0, <1>5, TypeAfterLoss, TypeAgentPut DEF LoseCall
  <2>4. \A b \in Agents : AgentOK(b)'
    BY <1>0, <1>5, TypeAfterLoss DEF LoseCall, AgentOK, AgentAt
  <2> QED BY <1>5, <2>1, <2>2, <2>3, <2>4, EngineFrame DEF TypeOK, LoseCall, Spent
<1>6. ASSUME NEW a \in Agents, CrashAgent(a) PROVE TypeOK'
  <2>1. spent' \in Spent
    BY <1>s, <1>6 DEF CrashAgent
  <2>2. progress' \in [Agents -> Tasks \cup {NoTask}]
    BY <1>0, <1>6 DEF CrashAgent
  <2>3. agent' \in [Agents -> AgentState]
    BY <1>0, <1>6, TypeAgentAt, TypeAgentPut DEF CrashAgent
  <2>4. \A b \in Agents : AgentOK(b)'
    BY <1>0, <1>6 DEF CrashAgent, AgentOK, AgentAt
  <2> QED BY <1>6, <2>1, <2>2, <2>3, <2>4, EngineFrame DEF TypeOK, CrashAgent, Spent
<1>7. CASE CrashController
  <2>1. spent' \in Spent
    BY <1>s, <1>7 DEF CrashController
  <2>2. journal' \in [Agents -> Seq(Result)]
    BY <1>7, TypeAfterLoss DEF CrashController
  <2>3. agent' \in [Agents -> AgentState]
    BY <1>7, TypeAfterLoss DEF CrashController
  <2>4. \A b \in Agents : AgentOK(b)'
    BY <1>0, <1>7, TypeAfterLoss DEF CrashController, AgentOK, AgentAt
  <2>5. engine' \in EngineState /\ EngineOK'
    BY <1>7 DEF CrashController, IdleEngine, EngineState, EngineOK
  <2>6. progress' \in [Agents -> Tasks \cup {NoTask}]
    BY <1>7 DEF CrashController
  <2>7. api' \in [Jobs -> ApiState]
    <3>1. [j \in Jobs |-> IdleApi] \in [Jobs -> ApiState]
      BY DEF IdleApi, ApiState
    <3>2. api' = api \/ api' = [j \in Jobs |-> IdleApi]
      BY <1>7 DEF CrashController
    <3> QED BY <3>1, <3>2 DEF TypeOK
  <2> QED BY <1>7, <2>1, <2>2, <2>3, <2>4, <2>5, <2>6, <2>7
          DEF TypeOK, CrashController, Spent
<1> QED BY <1>1, <1>2, <1>3, <1>4, <1>5, <1>6, <1>7 DEF Environment

LEMMA TypeStep == TypeOK /\ [Next]_vars => TypeOK'
<1> SUFFICES ASSUME TypeOK, [Next]_vars PROVE TypeOK'
  OBVIOUS
<1>1. CASE EngineStep
  BY <1>1, TypeEngine
<1>2. ASSUME NEW a \in Agents, AgentStep(a) \/ ProgressStep(a) PROVE TypeOK'
  BY <1>2, TypeAgent
<1>3. ASSUME NEW j \in Jobs, ApiStep(j) PROVE TypeOK'
  BY <1>3, TypeApi
<1>4. CASE Environment
  BY <1>4, TypeEnvironment
<1>5. CASE UNCHANGED vars
  BY <1>5 DEF vars, TypeOK, EngineOK, EngineTask, AgentOK
<1> QED BY <1>1, <1>2, <1>3, <1>4, <1>5 DEF Next

\* Every variable keeps its type, and a process at work has something to work
\* on: the loop an existing chunk, an agent's handlers a task, a verdict's
\* writer a verdict.
THEOREM TypeCorrect == Spec => []TypeOK
<1>1. Init => TypeOK
  BY TypeInit
<1>2. TypeOK /\ [Next]_vars => TypeOK'
  BY TypeStep
<1> QED BY <1>1, <1>2, PTL DEF Spec

--------------------------------------------------------------------------------
(* Exclusive execution, and completed work is not re-run                   *)

\* Who holds a task is written in its row, and the row is not up for grabs.
HoldersMarked ==
  \A a \in Agents : \A t \in Tasks \ history.replayed :
    Holds(a, t) => /\ task[t].agent = a
                   /\ task[t].status \in {"assigned", "running", "cancelled"}

HoldInv == HoldersMarked /\ CompletedNotRerun

\* A step that writes no task row and gives no agent a task.
LEMMA HoldFrame ==
  ASSUME TypeOK, HoldInv, UNCHANGED task,
         history'.completed = history.completed,
         history'.replayed = history.replayed,
         \A a \in Agents, t \in Tasks : Holds(a, t)' => Holds(a, t)
  PROVE  HoldInv'
<1>1. HoldersMarked'
  BY DEF HoldInv, HoldersMarked
<1>2. CompletedNotRerun'
  <2>1. history.completed \subseteq Tasks
    BY DEF TypeOK
  <2> QED BY <2>1 DEF HoldInv, CompletedNotRerun
<1> QED BY <1>1, <1>2 DEF HoldInv

\* A step of the loop, of the API or of a user gives no agent a task.
LEMMA SameHolds ==
  ASSUME UNCHANGED agent, NEW a \in Agents, NEW t
  PROVE  Holds(a, t)' <=> Holds(a, t)
BY DEF Holds

\* Nor does a step after which the agent it moves is not holding a task, or is
\* holding the one it held.
LEMMA MovedHolds ==
  ASSUME agent \in [Agents -> AgentState],
         NEW a \in Agents, NEW s, agent' = [agent EXCEPT ![a] = s],
         \/ s.at # 0
         \/ s.pc \notin PollPcs \cup ScriptPcs \cup {"res_task"}
         \/ /\ agent[a].pc \in PollPcs \cup ScriptPcs
            /\ s.at = agent[a].at
            /\ s.task = agent[a].task
  PROVE  \A b \in Agents, t \in Tasks : Holds(b, t)' => Holds(b, t)
BY DEF Holds

LEMMA HoldInit == Init => HoldInv
<1> SUFFICES ASSUME Init PROVE HoldInv
  OBVIOUS
<1>1. \A a \in Agents, t \in Tasks : ~Holds(a, t)
  BY DEF Init, AgentAt, Holds, PollPcs, ScriptPcs
<1> QED BY <1>1 DEF Init, HoldInv, HoldersMarked, CompletedNotRerun

LEMMA HoldEngine ==
  ASSUME TypeOK, HoldInv, EngineStep
  PROVE  HoldInv'
<1>0. UNCHANGED agent
  BY DEF EngineStep, EngineTick, EngineNextJob, EngineTickDone, EngineCreateTask,
         EngineCreateConflict, EngineRenderFails, EngineSetScriptDir,
         EngineCounts, EngineRequeue, EngineFailJob
<1>1. CASE EngineCreateTask
  <2>1. /\ EngineTask \in Tasks
        /\ task[EngineTask].status = "none"
        /\ task' = [task EXCEPT ![EngineTask] = NewTask]
        /\ UNCHANGED history
    BY <1>1 DEF TypeOK, EngineOK, EngineCreateTask
  <2>2. /\ EngineTask \notin history.completed \ history.replayed
        /\ \A t \in Tasks \ {EngineTask} : task'[t] = task[t]
    BY <2>1 DEF TypeOK, HoldInv, CompletedNotRerun
  <2>3. \A a \in Agents : Holds(a, EngineTask) => EngineTask \in history.replayed
    BY <2>1 DEF HoldInv, HoldersMarked
  <2> QED BY <1>0, <2>1, <2>2, <2>3, SameHolds
          DEF TypeOK, HoldInv, HoldersMarked, CompletedNotRerun
<1>2. CASE EngineSetScriptDir
  <2>1. /\ \A t \in Tasks : /\ task'[t].status = task[t].status
                            /\ task'[t].agent = task[t].agent
        /\ UNCHANGED history
    BY <1>2 DEF TypeOK, EngineSetScriptDir, TaskRow
  <2> QED BY <1>0, <2>1, SameHolds
          DEF TypeOK, HoldInv, HoldersMarked, CompletedNotRerun
<1>3. CASE EngineCounts
  <2>1. /\ UNCHANGED task
        /\ history'.completed = history.completed
        /\ history'.replayed = history.replayed
    BY <1>3 DEF TypeOK, EngineCounts
  <2> QED BY <1>0, <2>1, SameHolds, HoldFrame
<1>4. CASE \/ EngineTick \/ EngineNextJob \/ EngineTickDone \/ EngineCreateConflict
           \/ EngineRenderFails \/ EngineRequeue \/ EngineFailJob
  <2>1. UNCHANGED <<task, history>>
    BY <1>4 DEF EngineTick, EngineNextJob, EngineTickDone, EngineCreateConflict,
                EngineRenderFails, EngineRequeue, EngineFailJob
  <2> QED BY <1>0, <2>1, SameHolds, HoldFrame
<1> QED BY <1>1, <1>2, <1>3, <1>4 DEF EngineStep

LEMMA HoldAgent ==
  ASSUME TypeOK, HoldInv, NEW a \in Agents, AgentStep(a) \/ ProgressStep(a)
  PROVE  HoldInv'
<1>0. /\ agent \in [Agents -> AgentState]
      /\ agent[a] \in AgentState
  BY DEF TypeOK
<1>1. CASE ClaimNextTask(a)
  <2>1. PICK t \in Tasks :
          /\ task[t].status = "pending"
          /\ task' = [task EXCEPT ![t].status = "assigned", ![t].agent = a]
          /\ agent' = [agent EXCEPT ![a] = [AgentAt("poll_counts") EXCEPT
                                       !.task = t, !.scripts = task[t].scripts]]
          /\ UNCHANGED history
    BY <1>1 DEF ClaimNextTask, Claimable
  <2>2. \A u \in Tasks, b \in Agents :
          Holds(b, u)' => Holds(b, u) \/ (b = a /\ u = t)
    BY <2>1 DEF TypeOK, Holds, AgentAt
  <2>3. /\ t \notin history.completed \ history.replayed
        /\ \A b \in Agents : Holds(b, t) => t \in history.replayed
    BY <2>1 DEF HoldInv, HoldersMarked, CompletedNotRerun
  <2>4. /\ task'[t].status = "assigned" /\ task'[t].agent = a
        /\ \A u \in Tasks \ {t} : task'[u] = task[u]
    BY <2>1 DEF TypeOK, TaskRow
  <2>5. HoldersMarked'
    <3> SUFFICES ASSUME NEW b \in Agents, NEW u \in Tasks \ history.replayed,
                        Holds(b, u)'
                 PROVE  /\ task'[u].agent = b
                        /\ task'[u].status \in {"assigned", "running", "cancelled"}
      BY <2>1 DEF HoldersMarked
    <3>1. CASE u = t
      BY <2>2, <2>3, <2>4, <3>1
    <3>2. CASE u # t
      BY <2>2, <2>4, <3>2 DEF HoldInv, HoldersMarked
    <3> QED BY <3>1, <3>2
  <2>6. CompletedNotRerun'
    BY <2>1, <2>2, <2>3, <2>4 DEF TypeOK, HoldInv, CompletedNotRerun
  <2> QED BY <2>5, <2>6 DEF HoldInv
<1>2. CASE ReportProgress(a)
  <2>1. /\ progress[a] \in Tasks
        /\ task' = [task EXCEPT ![progress[a]].status = "running"]
        /\ UNCHANGED <<agent, history>>
    BY <1>2 DEF TypeOK, ReportProgress, UpdateTaskStatus
  <2>2. \A t \in Tasks : /\ task'[t].status \in {task[t].status, "running"}
                         /\ task'[t].agent = task[t].agent
    BY <2>1 DEF TypeOK, TaskRow
  <2> QED BY <2>1, <2>2, SameHolds
          DEF TypeOK, HoldInv, HoldersMarked, CompletedNotRerun
<1>3. CASE ProcessResult(a)
  <2>1. PICK t \in Tasks :
        /\ t = agent[a].task
        /\ task' = [task EXCEPT ![t].status = ResultStatus(a)]
        /\ agent' = [agent EXCEPT ![a].pc = "res_counts"]
        /\ history'.completed = IF agent[a].ok THEN history.completed \cup {t}
                                               ELSE history.completed
        /\ history'.replayed = IF agent[a].at > 0 THEN history.replayed \cup {t}
                                                  ELSE history.replayed
    BY <1>3 DEF TypeOK, AgentOK, ProcessResult, UpdateTaskStatus
  <2>2. agent[a].at = 0 => Holds(a, t)
    BY <1>3, <2>1 DEF ProcessResult, Holds
  <2>3. \A b \in Agents, u \in Tasks : Holds(b, u)' => Holds(b, u) /\ b # a
    <3>1. /\ agent'[a].pc = "res_counts"
          /\ \A b \in Agents \ {a} : agent'[b] = agent[b]
      BY <1>0, <2>1 DEF AgentState
    <3> QED BY <3>1 DEF Holds, PollPcs, ScriptPcs
  <2>4. /\ \A u \in Tasks : task'[u].agent = task[u].agent
        /\ task'[t].status = ResultStatus(a)
        /\ \A u \in Tasks \ {t} : task'[u].status = task[u].status
    BY <2>1 DEF TypeOK, TaskRow
  <2>5. t \notin history'.replayed => agent[a].at = 0 /\ t \notin history.replayed
    BY <1>0, <2>1 DEF AgentState
  <2>6. \A b \in Agents : Holds(b, t)' => t \in history'.replayed
    BY <2>2, <2>3, <2>5 DEF HoldInv, HoldersMarked
  <2>7. history.replayed \subseteq history'.replayed
    BY <2>1
  <2>8. HoldersMarked'
    BY <2>3, <2>4, <2>6, <2>7 DEF HoldInv, HoldersMarked
  <2>9. CompletedNotRerun'
    <3>1. ASSUME NEW u \in history'.completed \ history'.replayed, u # t
          PROVE  /\ task'[u].status \in {"completed", "running"}
                 /\ \A b \in Agents : ~Holds(b, u)'
      <4>1. u \in history.completed \ history.replayed /\ u \in Tasks
        BY <2>1, <2>7, <3>1 DEF TypeOK
      <4> QED BY <2>3, <2>4, <3>1, <4>1 DEF HoldInv, CompletedNotRerun
    <3>2. ASSUME t \in history'.completed \ history'.replayed
          PROVE  task'[t].status = "completed"
      <4>1. agent[a].ok
        BY <2>1, <2>2, <2>5, <3>2 DEF HoldInv, CompletedNotRerun
      <4> QED BY <2>4, <4>1 DEF ResultStatus
    <3> QED BY <2>6, <3>1, <3>2 DEF CompletedNotRerun
  <2> QED BY <2>8, <2>9 DEF HoldInv
<1>4. ASSUME NEW s, agent' = [agent EXCEPT ![a] = s], UNCHANGED task,
             history'.completed = history.completed,
             history'.replayed = history.replayed,
             \/ s.at # 0
             \/ s.pc \notin PollPcs \cup ScriptPcs \cup {"res_task"}
             \/ /\ agent[a].pc \in PollPcs \cup ScriptPcs
                /\ s.at = agent[a].at
                /\ s.task = agent[a].task
      PROVE  HoldInv'
  BY <1>0, <1>4, MovedHolds, HoldFrame
<1>5. CASE StartAgent(a)
  <2>1. AgentAt("idle").pc \notin PollPcs \cup ScriptPcs \cup {"res_task"}
    BY DEF AgentAt, PollPcs, ScriptPcs
  <2>2. Replay(a, 1).at # 0
    BY DEF Replay, AgentAt
  <2> QED BY <1>4, <1>5, <2>1, <2>2 DEF StartAgent
<1>6. CASE PollCounts(a)
  BY <1>0, <1>4, <1>6 DEF PollCounts, AgentState, PollPcs
<1>7. CASE PollJob(a)
  BY <1>0, <1>4, <1>7 DEF PollJob, AgentState, PollPcs
<1>8. CASE SendProgress(a)
  BY <1>0, <1>4, <1>8 DEF SendProgress, AgentState, ScriptPcs
<1>9. CASE FinishScript(a)
  <2>1. PICK ok \in BOOLEAN :
          agent' = [agent EXCEPT ![a] = [agent[a] EXCEPT !.pc = "res_task", !.ok = ok]]
    BY <1>9 DEF FinishScript
  <2>2. /\ UNCHANGED task
        /\ history'.completed = history.completed
        /\ history'.replayed = history.replayed
        /\ agent[a].pc \in PollPcs \cup ScriptPcs
    BY <1>9 DEF TypeOK, FinishScript
  <2> QED BY <1>0, <1>4, <2>1, <2>2 DEF AgentState
<1>10. CASE ResultCounts(a) \/ WriteVerdict(a)
  BY <1>0, <1>4, <1>10 DEF ResultCounts, WriteVerdict, AgentState, PollPcs, ScriptPcs
<1>11. CASE CheckJobCompletion(a)
  BY <1>0, <1>4, <1>11 DEF CheckJobCompletion, AgentState, PollPcs, ScriptPcs
<1>12. CASE ResultAcked(a)
  <2>1. AgentAt("idle").pc \notin PollPcs \cup ScriptPcs \cup {"res_task"}
    BY DEF AgentAt, PollPcs, ScriptPcs
  <2>2. Replay(a, agent[a].at + 1).at # 0
    BY <1>0 DEF Replay, AgentAt, AgentState
  <2> QED BY <1>4, <1>12, <2>1, <2>2 DEF ResultAcked
<1>13. CASE DropProgress(a)
  BY <1>13, SameHolds, HoldFrame DEF DropProgress
<1> QED BY <1>1, <1>2, <1>3, <1>5, <1>6, <1>7, <1>8, <1>9, <1>10, <1>11, <1>12,
           <1>13 DEF AgentStep, ProgressStep

LEMMA HoldApi ==
  ASSUME TypeOK, HoldInv, NEW j \in Jobs, ApiStep(j)
  PROVE  HoldInv'
<1>0. UNCHANGED <<agent, history>>
  BY DEF ApiStep, CancelStatus, CancelPendingTasks, RetryFailedTasks, RetryStatus
<1>1. CASE CancelPendingTasks(j)
  <2>1. \A t \in Tasks :
          /\ task'[t].agent = task[t].agent
          /\ \/ task'[t].status = task[t].status
             \/ /\ task[t].status \in {"pending", "assigned"}
                /\ task'[t].status = "cancelled"
    BY <1>1 DEF TypeOK, TaskRow, CancelPendingTasks, Cancellable
  <2>2. HoldersMarked'
    BY <1>0, <2>1, SameHolds DEF HoldInv, HoldersMarked
  <2>3. CompletedNotRerun'
    <3>1. history.completed \subseteq Tasks
      BY DEF TypeOK
    <3> QED BY <1>0, <2>1, <3>1, SameHolds DEF HoldInv, CompletedNotRerun
  <2> QED BY <2>2, <2>3 DEF HoldInv
<1>2. CASE RetryFailedTasks(j)
  <2>1. \A t \in Tasks : task[t].status # "failed" => task'[t] = task[t]
    BY <1>2 DEF RetryFailedTasks, Retryable
  <2>2. HoldersMarked'
    BY <1>0, <2>1, SameHolds DEF HoldInv, HoldersMarked
  <2>3. CompletedNotRerun'
    <3>1. history.completed \subseteq Tasks
      BY DEF TypeOK
    <3> QED BY <1>0, <2>1, <3>1, SameHolds DEF HoldInv, CompletedNotRerun
  <2> QED BY <2>2, <2>3 DEF HoldInv
<1>3. CASE CancelStatus(j) \/ RetryStatus(j)
  <2>1. UNCHANGED task
    BY <1>3 DEF CancelStatus, RetryStatus
  <2> QED BY <1>0, <2>1, SameHolds, HoldFrame
<1> QED BY <1>1, <1>2, <1>3 DEF ApiStep

LEMMA HoldEnvironment ==
  ASSUME TypeOK, HoldInv, Environment
  PROVE  HoldInv'
<1>0. agent \in [Agents -> AgentState]
  BY DEF TypeOK
<1>1. UNCHANGED <<task, history>>
  BY DEF Environment, CreateJob, CancelRead, RetryRead, LoseRequest, LoseCall,
         CrashAgent, CrashController
<1>2. ASSUME NEW j \in Jobs,
             CreateJob(j) \/ CancelRead(j) \/ RetryRead(j) \/ LoseRequest(j)
      PROVE  HoldInv'
  <2>1. UNCHANGED agent
    BY <1>2 DEF CreateJob, CancelRead, RetryRead, LoseRequest
  <2> QED BY <1>1, <2>1, SameHolds, HoldFrame
<1>3. ASSUME \A a \in Agents : agent'[a] = agent[a]
                              \/ agent'[a].pc \in {"idle", "down"}
      PROVE  HoldInv'
  <2>1. \A a \in Agents, t \in Tasks : Holds(a, t)' => Holds(a, t)
    BY <1>3 DEF Holds, PollPcs, ScriptPcs
  <2> QED BY <1>1, <2>1, HoldFrame
<1>4. ASSUME NEW a \in Agents, LoseCall(a) PROVE HoldInv'
  BY <1>0, <1>3, <1>4 DEF LoseCall, AgentAfterLoss, AgentAt
<1>5. ASSUME NEW a \in Agents, CrashAgent(a) PROVE HoldInv'
  BY <1>0, <1>3, <1>5 DEF CrashAgent, AgentAt
<1>6. CASE CrashController
  BY <1>0, <1>3, <1>6 DEF CrashController, AgentAfterLoss, AgentAt
<1> QED BY <1>2, <1>4, <1>5, <1>6 DEF Environment

\* HoldInv is inductive relative to the types.
LEMMA HoldStep == TypeOK /\ HoldInv /\ [Next]_vars => HoldInv'
<1> SUFFICES ASSUME TypeOK, HoldInv, [Next]_vars PROVE HoldInv'
  OBVIOUS
<1>1. ASSUME NEW a \in Agents, AgentStep(a) \/ ProgressStep(a) PROVE HoldInv'
  BY <1>1, HoldAgent
<1>2. ASSUME NEW j \in Jobs, ApiStep(j) PROVE HoldInv'
  BY <1>2, HoldApi
<1>3. CASE UNCHANGED vars
  BY <1>3, SameHolds, HoldFrame DEF vars
<1> QED BY <1>1, <1>2, <1>3, HoldEngine, HoldEnvironment DEF Next

\* No two agents hold the same task, but for tasks whose journaled result was
\* stored a second time: the row names the holder, and only its holder's
\* result or a replay takes a held row out of assigned, running or cancelled.
THEOREM ExclusiveExecutionHolds == Spec => []ExclusiveExecution
<1>1. Init => TypeOK /\ HoldInv
  BY TypeInit, HoldInit
<1>2. (TypeOK /\ HoldInv) /\ [Next]_vars => (TypeOK /\ HoldInv)'
  BY TypeStep, HoldStep
<1>3. HoldInv => ExclusiveExecution
  BY DEF HoldInv, HoldersMarked, ExclusiveExecution
<1> QED BY <1>1, <1>2, <1>3, PTL DEF Spec

\* A task whose success is stored is never given to an agent again, through
\* crashes, cancels, retries and lagging updates.
THEOREM CompletedNotRerunHolds == Spec => []CompletedNotRerun
<1>1. Init => TypeOK /\ HoldInv
  BY TypeInit, HoldInit
<1>2. (TypeOK /\ HoldInv) /\ [Next]_vars => (TypeOK /\ HoldInv)'
  BY TypeStep, HoldStep
<1>3. HoldInv => CompletedNotRerun
  BY DEF HoldInv
<1> QED BY <1>1, <1>2, <1>3, PTL DEF Spec

--------------------------------------------------------------------------------
(* Completed rows stand for work that was done                             *)

\* A success - in a row, with an agent or in a journal - was produced.
SuccessesProduced ==
  /\ CompletedWasProduced
  /\ \A a \in Agents : agent[a].ok => agent[a].task \in history.produced
  /\ \A a \in Agents : \A i \in 1..Len(journal[a]) :
       journal[a][i].ok => journal[a][i].task \in history.produced

\* A step that completes no row, changes no journal and forgets nothing that was
\* produced; the agent it moves, if any, keeps its result or drops it.
LEMMA ProducedFrame ==
  ASSUME SuccessesProduced, UNCHANGED journal,
         history.produced \subseteq history'.produced,
         \A t \in Tasks : task'[t].status = "completed"
                            => task[t].status = "completed",
         \A a \in Agents : \/ ~agent'[a].ok
                           \/ /\ agent'[a].ok = agent[a].ok
                              /\ agent'[a].task = agent[a].task
  PROVE  SuccessesProduced'
BY DEF SuccessesProduced, CompletedWasProduced

LEMMA ProducedInit == Init => SuccessesProduced
<1> SUFFICES ASSUME Init PROVE SuccessesProduced
  OBVIOUS
<1>1. CompletedWasProduced
  BY DEF Init, NewTask, CompletedWasProduced
<1>2. \A a \in Agents : ~agent[a].ok
  BY DEF Init, AgentAt
<1>3. \A a \in Agents : Len(journal[a]) = 0
  BY EmptySeq DEF Init
<1> QED BY <1>1, <1>2, <1>3 DEF SuccessesProduced

LEMMA ProducedEngine ==
  ASSUME TypeOK, SuccessesProduced, EngineStep
  PROVE  SuccessesProduced'
<1>1. UNCHANGED <<agent, journal>>
  BY DEF EngineStep, EngineTick, EngineNextJob, EngineTickDone, EngineCreateTask,
         EngineCreateConflict, EngineRenderFails, EngineSetScriptDir,
         EngineCounts, EngineRequeue, EngineFailJob
<1>2. history'.produced = history.produced
  BY DEF TypeOK, EngineStep, EngineTick, EngineNextJob, EngineTickDone,
         EngineCreateTask, EngineCreateConflict, EngineRenderFails,
         EngineSetScriptDir, EngineCounts, EngineRequeue, EngineFailJob
<1>3. \A t \in Tasks : task'[t].status = "completed" => task[t].status = "completed"
  <2>1. CASE EngineCreateTask
    BY <2>1 DEF TypeOK, EngineCreateTask, NewTask
  <2>2. CASE EngineSetScriptDir
    BY <2>2 DEF TypeOK, TaskRow, EngineSetScriptDir
  <2>3. CASE UNCHANGED task
    BY <2>3
  <2> QED BY <2>1, <2>2, <2>3
          DEF EngineStep, EngineTick, EngineNextJob, EngineTickDone,
              EngineCreateConflict, EngineRenderFails, EngineCounts,
              EngineRequeue, EngineFailJob
<1> QED BY <1>1, <1>2, <1>3, ProducedFrame

LEMMA ProducedAgent ==
  ASSUME TypeOK, SuccessesProduced, NEW a \in Agents, AgentStep(a) \/ ProgressStep(a)
  PROVE  SuccessesProduced'
<1>0. /\ agent \in [Agents -> AgentState]
      /\ agent[a] \in AgentState
      /\ task \in [Tasks -> TaskRow]
      /\ \A i \in 1..Len(journal[a]) :
           journal[a][i].ok => journal[a][i].task \in history.produced
  BY DEF TypeOK, SuccessesProduced
<1>1. CASE \/ ClaimNextTask(a) \/ PollCounts(a) \/ PollJob(a) \/ ResultCounts(a)
           \/ CheckJobCompletion(a) \/ WriteVerdict(a) \/ SendProgress(a)
           \/ ReportProgress(a) \/ DropProgress(a)
  <2>1. UNCHANGED <<journal, history>>
    BY <1>1 DEF ClaimNextTask, PollCounts, PollJob, ResultCounts, CheckJobCompletion,
                WriteVerdict, SendProgress, ReportProgress, DropProgress
  <2>2. \A t \in Tasks : task'[t].status = "completed"
                           => task[t].status = "completed"
    <3>1. CASE ClaimNextTask(a)
      BY <1>0, <3>1 DEF ClaimNextTask, TaskRow
    <3>2. CASE ReportProgress(a)
      BY <1>0, <3>2 DEF TypeOK, ReportProgress, UpdateTaskStatus, TaskRow
    <3>3. CASE UNCHANGED task
      BY <3>3
    <3> QED BY <1>1, <3>1, <3>2, <3>3
            DEF PollCounts, PollJob, ResultCounts, CheckJobCompletion, WriteVerdict,
                SendProgress, DropProgress
  <2>3. \A b \in Agents : \/ ~agent'[b].ok
                          \/ /\ agent'[b].ok = agent[b].ok
                             /\ agent'[b].task = agent[b].task
    <3>1. CASE ClaimNextTask(a)
      BY <1>0, <3>1 DEF ClaimNextTask, AgentAt
    <3>2. CASE \/ PollCounts(a) \/ PollJob(a) \/ ResultCounts(a) \/ SendProgress(a)
               \/ WriteVerdict(a)
      BY <1>0, <3>2 DEF PollCounts, PollJob, ResultCounts, SendProgress,
                        WriteVerdict, AgentState
    <3>3. CASE CheckJobCompletion(a)
      BY <1>0, <3>3 DEF CheckJobCompletion, AgentState
    <3>4. CASE UNCHANGED agent
      BY <3>4
    <3> QED BY <1>1, <3>1, <3>2, <3>3, <3>4 DEF ReportProgress, DropProgress
  <2> QED BY <2>1, <2>2, <2>3, ProducedFrame
<1>2. CASE StartAgent(a)
  <2>1. CASE journal[a] = <<>>
    <3>1. agent' = [agent EXCEPT ![a] = AgentAt("idle")]
      BY <1>2, <2>1 DEF StartAgent
    <3>2. ~AgentAt("idle").ok
      BY DEF AgentAt
    <3> QED BY <1>0, <1>2, <3>1, <3>2, ProducedFrame DEF StartAgent
  <2>2. CASE journal[a] # <<>>
    <3>1. 1 \in 1..Len(journal[a])
      BY <2>2, LenProperties, EmptySeq DEF TypeOK
    <3>2. agent' = [agent EXCEPT ![a] = Replay(a, 1)]
      BY <1>2, <2>2 DEF StartAgent
    <3>3. Replay(a, 1).ok => Replay(a, 1).task \in history.produced
      BY <1>0, <3>1 DEF Replay, AgentAt
    <3> QED BY <1>0, <1>2, <3>2, <3>3
            DEF StartAgent, SuccessesProduced, CompletedWasProduced
  <2> QED BY <2>1, <2>2
<1>3. CASE FinishScript(a)
  <2>1. PICK ok \in BOOLEAN :
          /\ agent' = [agent EXCEPT ![a].pc = "res_task", ![a].ok = ok]
          /\ history' = IF ok
                        THEN [history EXCEPT !.produced = @ \cup {agent[a].task}]
                        ELSE history
          /\ UNCHANGED <<task, journal>>
    BY <1>3 DEF FinishScript
  <2>2. /\ history.produced \subseteq history'.produced
        /\ ok => agent[a].task \in history'.produced
    BY <2>1 DEF TypeOK
  <2>3. /\ agent'[a].ok = ok
        /\ agent'[a].task = agent[a].task
        /\ \A b \in Agents \ {a} : agent'[b] = agent[b]
    BY <1>0, <2>1 DEF AgentState
  <2> QED BY <2>1, <2>2, <2>3 DEF SuccessesProduced, CompletedWasProduced
<1>4. CASE ProcessResult(a)
  <2>1. /\ UNCHANGED journal
        /\ history'.produced = history.produced
    BY <1>4 DEF TypeOK, ProcessResult
  <2>2. \A b \in Agents : /\ agent'[b].ok = agent[b].ok
                          /\ agent'[b].task = agent[b].task
    BY <1>0, <1>4 DEF ProcessResult, AgentState
  <2>3. \A t \in Tasks : task'[t].status = "completed"
                           => task[t].status = "completed"
                              \/ (t = agent[a].task /\ agent[a].ok)
    BY <1>0, <1>4 DEF ProcessResult, UpdateTaskStatus, ResultStatus, TaskRow
  <2> QED BY <2>1, <2>2, <2>3 DEF SuccessesProduced, CompletedWasProduced
<1>5. CASE ResultAcked(a)
  <2>1. CASE 0 < agent[a].at /\ agent[a].at < Len(journal[a])
    <3> DEFINE i == agent[a].at + 1
    <3>1. i \in 1..Len(journal[a])
      BY <1>0, <2>1, LenProperties DEF TypeOK, AgentState
    <3>2. agent' = [agent EXCEPT ![a] = Replay(a, i)]
      BY <1>5, <2>1 DEF ResultAcked
    <3>3. Replay(a, i).ok => Replay(a, i).task \in history.produced
      BY <1>0, <3>1 DEF Replay, AgentAt
    <3>4. UNCHANGED <<task, journal, history>>
      BY <1>5, <2>1 DEF ResultAcked
    <3> HIDE DEF i
    <3> QED BY <1>0, <3>2, <3>3, <3>4 DEF SuccessesProduced, CompletedWasProduced
  <2>2. CASE ~(0 < agent[a].at /\ agent[a].at < Len(journal[a]))
    <3>1. /\ agent' = [agent EXCEPT ![a] = AgentAt("idle")]
          /\ journal' \in {journal, [journal EXCEPT ![a] = <<>>]}
          /\ UNCHANGED <<task, history>>
      BY <1>5, <2>2 DEF ResultAcked
    <3>2. ~AgentAt("idle").ok
      BY DEF AgentAt
    <3>3. \A b \in Agents : journal'[b] = journal[b] \/ Len(journal'[b]) = 0
      BY <3>1, EmptySeq DEF TypeOK
    <3> QED BY <1>0, <3>1, <3>2, <3>3 DEF SuccessesProduced, CompletedWasProduced
  <2> QED BY <2>1, <2>2
<1> QED BY <1>1, <1>2, <1>3, <1>4, <1>5 DEF AgentStep, ProgressStep

LEMMA ProducedApi ==
  ASSUME TypeOK, SuccessesProduced, NEW j \in Jobs, ApiStep(j)
  PROVE  SuccessesProduced'
<1>1. UNCHANGED <<agent, journal, history>>
  BY DEF ApiStep, CancelStatus, CancelPendingTasks, RetryFailedTasks, RetryStatus
<1>2. \A t \in Tasks : task'[t].status = "completed" => task[t].status = "completed"
  <2>1. CASE CancelPendingTasks(j)
    BY <2>1 DEF TypeOK, TaskRow, CancelPendingTasks
  <2>2. CASE RetryFailedTasks(j)
    BY <2>2 DEF TypeOK, TaskRow, RetryFailedTasks
  <2>3. CASE UNCHANGED task
    BY <2>3
  <2> QED BY <2>1, <2>2, <2>3 DEF ApiStep, CancelStatus, RetryStatus
<1> QED BY <1>1, <1>2, ProducedFrame

\* A lost call journals the result the agent reported, and nothing else.
LEMMA ProducedAfterLoss ==
  ASSUME TypeOK, SuccessesProduced, NEW a \in Agents
  PROVE  \A i \in 1..Len(JournalAfterLoss(a)) :
           JournalAfterLoss(a)[i].ok
             => JournalAfterLoss(a)[i].task \in history.produced
<1>1. CASE agent[a].pc \in ResultPcs /\ agent[a].at = 0
  <2> DEFINE r == [task |-> agent[a].task, ok |-> agent[a].ok]
  <2>1. r \in Result /\ journal[a] \in Seq(Result)
    BY <1>1 DEF TypeOK, AgentOK, AgentState, ResultPcs, Result
  <2>2. JournalAfterLoss(a) = Append(journal[a], r)
    BY <1>1 DEF JournalAfterLoss
  <2>3. r.ok => r.task \in history.produced
    BY DEF SuccessesProduced
  <2> HIDE DEF r
  <2>4. \A i \in 1..Len(Append(journal[a], r)) :
          Append(journal[a], r)[i] = r
          \/ (i \in 1..Len(journal[a]) /\ Append(journal[a], r)[i] = journal[a][i])
    BY <2>1, AppendProperties, LenProperties
  <2> QED BY <2>2, <2>3, <2>4 DEF SuccessesProduced
<1>2. CASE ~(agent[a].pc \in ResultPcs /\ agent[a].at = 0)
  BY <1>2 DEF JournalAfterLoss, SuccessesProduced
<1> QED BY <1>1, <1>2

LEMMA ProducedEnvironment ==
  ASSUME TypeOK, SuccessesProduced, Environment
  PROVE  SuccessesProduced'
<1>0. agent \in [Agents -> AgentState] /\ journal \in [Agents -> Seq(Result)]
  BY DEF TypeOK
<1>1. UNCHANGED <<task, history>>
  BY DEF Environment, CreateJob, CancelRead, RetryRead, LoseRequest, LoseCall,
         CrashAgent, CrashController
<1>2. ASSUME NEW j \in Jobs,
             CreateJob(j) \/ CancelRead(j) \/ RetryRead(j) \/ LoseRequest(j)
      PROVE  SuccessesProduced'
  BY <1>1, <1>2, ProducedFrame DEF CreateJob, CancelRead, RetryRead, LoseRequest
<1>3. ASSUME NEW a \in Agents, CrashAgent(a) PROVE SuccessesProduced'
  BY <1>0, <1>1, <1>3, ProducedFrame DEF CrashAgent, AgentAt
<1>4. ASSUME \A a \in Agents : /\ agent'[a] \in {agent[a], AgentAfterLoss(a)}
                               /\ journal'[a] \in {journal[a], JournalAfterLoss(a)}
      PROVE  SuccessesProduced'
  <2>1. \A a \in Agents : AgentAfterLoss(a).ok => AgentAfterLoss(a) = agent[a]
    BY DEF AgentAfterLoss, AgentAt
  <2> QED BY <1>1, <1>4, <2>1, ProducedAfterLoss
          DEF SuccessesProduced, CompletedWasProduced
<1>5. ASSUME NEW a \in Agents, LoseCall(a) PROVE SuccessesProduced'
  BY <1>0, <1>4, <1>5 DEF LoseCall
<1>6. CASE CrashController
  BY <1>4, <1>6 DEF CrashController
<1> QED BY <1>2, <1>3, <1>5, <1>6 DEF Environment

\* SuccessesProduced is inductive relative to the types.
LEMMA ProducedStep == TypeOK /\ SuccessesProduced /\ [Next]_vars => SuccessesProduced'
<1> SUFFICES ASSUME TypeOK, SuccessesProduced, [Next]_vars PROVE SuccessesProduced'
  OBVIOUS
<1>1. ASSUME NEW a \in Agents, AgentStep(a) \/ ProgressStep(a)
      PROVE  SuccessesProduced'
  BY <1>1, ProducedAgent
<1>2. ASSUME NEW j \in Jobs, ApiStep(j) PROVE SuccessesProduced'
  BY <1>2, ProducedApi
<1>3. CASE UNCHANGED vars
  BY <1>3, ProducedFrame DEF vars
<1> QED BY <1>1, <1>2, <1>3, ProducedEngine, ProducedEnvironment DEF Next

\* A completed row stands for a script that exited with success, whichever way
\* the result came: a success is reported only for the task that was run, and
\* the journal carries each result to a later stream unchanged.
THEOREM CompletedWasProducedHolds == Spec => []CompletedWasProduced
<1>1. Init => TypeOK /\ SuccessesProduced
  BY TypeInit, ProducedInit
<1>2. (TypeOK /\ SuccessesProduced) /\ [Next]_vars => (TypeOK /\ SuccessesProduced)'
  BY TypeStep, ProducedStep
<1>3. SuccessesProduced => CompletedWasProduced
  BY DEF SuccessesProduced
<1> QED BY <1>1, <1>2, <1>3, PTL DEF Spec

--------------------------------------------------------------------------------
(* A cancelled job has nothing left to hand out                            *)

NothingPending(j) == \A t \in TasksOf(j) : task[t].status # "pending"

\* A pending task of a cancelled job is somebody's business: a cancel has still
\* to write the tasks, a retry the job, or the loop is at work on the job and
\* will write its status.
PendingIsCovered ==
  Uncut =>
    \A j \in Jobs : job[j].status = "cancelled" =>
      \/ api[j].cancel = "tasks"
      \/ api[j].retry = "status"
      \/ engine.cur = j
      \/ NothingPending(j)

\* The loop has a job at hand only while it expands one.
AtHand == engine.pc \in {"idle", "next"} => engine.cur = NoJob

CancelInv == PendingIsCovered /\ AtHand

LEMMA NoJobIsNone == NoJob \notin Jobs
  BY DispatchAssumption DEF NoJob

\* A refresh of the counters and a write of the status each leave the rest.
LEMMA RefreshKeeps ==
  ASSUME TypeOK, NEW j \in Jobs, UpdateJobTaskCounts(j)
  PROVE  /\ \A k \in Jobs : job'[k].status = job[k].status
         /\ \A k \in Jobs \ {j} : job'[k] = job[k]
         /\ job'[j].total = TotalTasks(j)
         /\ job'[j].completed = Count(j, "completed")
         /\ job'[j].failed = Count(j, "failed")
  BY DEF TypeOK, UpdateJobTaskCounts, JobRow

LEMMA StatusKeeps ==
  ASSUME TypeOK, NEW j \in Jobs, NEW s, UpdateJobStatus(j, s)
  PROVE  /\ \A k \in Jobs \ {j} : job'[k] = job[k]
         /\ job'[j].status = s
         /\ job'[j].total = job[j].total
         /\ job'[j].completed = job[j].completed
         /\ job'[j].failed = job[j].failed
  BY DEF TypeOK, UpdateJobStatus, JobRow

Exists(t) == task[t].status # "none"
Created(j) == job[j].status # "absent"

\* What an agent's steps and the handlers serving it may do to the rows.
LEMMA AgentEffects ==
  ASSUME TypeOK, NEW a \in Agents, AgentStep(a) \/ ProgressStep(a)
  PROVE  /\ UNCHANGED <<engine, api, spent>>
         /\ history'.expanded = history.expanded
         /\ \A t \in Tasks : /\ task'[t].status = "pending" => task[t].status = "pending"
                             /\ Exists(t) => Exists(t)'
         /\ \A j \in Jobs : /\ job'[j].status = "cancelled" => job[j].status = "cancelled"
                            /\ Created(j) => Created(j)'
                            /\ job'[j].total \in {job[j].total, TotalTasks(j)}
<1>0. /\ agent[a] \in AgentState /\ AgentOK(a)
      /\ job \in [Jobs -> JobRow] /\ task \in [Tasks -> TaskRow]
  BY DEF TypeOK
<1>1. /\ UNCHANGED <<engine, api, spent>>
      /\ history'.expanded = history.expanded
  <2>1. CASE FinishScript(a) \/ ProcessResult(a)
    BY <2>1 DEF FinishScript, ProcessResult, TypeOK
  <2>2. CASE ~(FinishScript(a) \/ ProcessResult(a))
    BY <2>2 DEF AgentStep, ProgressStep, StartAgent, ClaimNextTask, PollCounts, PollJob,
                ResultCounts, CheckJobCompletion, WriteVerdict, ResultAcked,
                SendProgress, ReportProgress, DropProgress
  <2>3. QED
    BY <2>1, <2>2
<1>2. \A t \in Tasks : /\ task'[t].status = "pending" => task[t].status = "pending"
                       /\ Exists(t) => Exists(t)'
  <2>1. CASE ClaimNextTask(a)
    <3>1. PICK u \in Tasks :
            task' = [task EXCEPT ![u].status = "assigned", ![u].agent = a]
      BY <2>1 DEF ClaimNextTask, Claimable
    <3>2. QED
      BY <1>0, <3>1 DEF Exists, TaskRow
  <2>2. CASE ReportProgress(a)
    BY <1>0, <2>2 DEF ReportProgress, UpdateTaskStatus, Exists, TaskRow
  <2>3. CASE ProcessResult(a)
    BY <1>0, <2>3 DEF ProcessResult, UpdateTaskStatus, ResultStatus, Exists, TaskRow
  <2>4. CASE ~(ClaimNextTask(a) \/ ReportProgress(a) \/ ProcessResult(a))
    <3>1. UNCHANGED task
      BY <2>4 DEF AgentStep, ProgressStep, StartAgent, PollCounts, PollJob, FinishScript,
                  ResultCounts, CheckJobCompletion, WriteVerdict, ResultAcked,
                  SendProgress, DropProgress
    <3>2. QED
      BY <3>1 DEF Exists
  <2>5. QED
    BY <2>1, <2>2, <2>3, <2>4
<1>3. \A j \in Jobs : /\ job'[j].status = "cancelled" => job[j].status = "cancelled"
                      /\ Created(j) => Created(j)'
                      /\ job'[j].total \in {job[j].total, TotalTasks(j)}
  <2>1. CASE PollCounts(a) \/ ResultCounts(a)
    <3>1. JobOf(agent[a].task) \in Jobs
      BY <1>0, <2>1, TaskKey DEF PollCounts, ResultCounts, AgentOK
    <3>2. UpdateJobTaskCounts(JobOf(agent[a].task))
      BY <2>1 DEF PollCounts, ResultCounts
    <3>3. QED
      BY <3>1, <3>2, RefreshKeeps DEF Created
  <2>2. CASE PollJob(a)
    BY <1>0, <2>2 DEF PollJob, Created, JobRow
  <2>3. CASE WriteVerdict(a)
    <3>1. JobOf(agent[a].task) \in Jobs /\ agent[a].verdict \in {"completed", "failed"}
      BY <1>0, <2>3, TaskKey DEF WriteVerdict, AgentOK, AgentState
    <3>2. UpdateJobStatus(JobOf(agent[a].task), agent[a].verdict)
      BY <2>3 DEF WriteVerdict
    <3>3. QED
      BY <3>1, <3>2, StatusKeeps DEF Created
  <2>4. CASE ~(PollCounts(a) \/ ResultCounts(a) \/ PollJob(a) \/ WriteVerdict(a))
    <3>1. UNCHANGED job
      BY <2>4 DEF AgentStep, ProgressStep, StartAgent, ClaimNextTask, FinishScript,
                  ProcessResult, CheckJobCompletion, ResultAcked, SendProgress,
                  ReportProgress, DropProgress
    <3>2. QED
      BY <3>1 DEF Created
  <2>5. QED
    BY <2>1, <2>2, <2>3, <2>4
<1>4. QED
  BY <1>1, <1>2, <1>3

\* A step that cancels nothing and makes nothing pending.
LEMMA CancelFrame ==
  ASSUME CancelInv, AtHand', Uncut' => Uncut,
         \A j \in Jobs : job'[j].status = "cancelled" => job[j].status = "cancelled",
         \A t \in Tasks : task'[t].status = "pending" => task[t].status = "pending",
         \A j \in Jobs : /\ api[j].cancel = "tasks" => api'[j].cancel = "tasks"
                         /\ api[j].retry = "status" => api'[j].retry = "status"
                         /\ engine.cur = j => engine'.cur = j
  PROVE  CancelInv'
  BY DEF CancelInv, PendingIsCovered, NothingPending, TasksOf

LEMMA CancelInit == Init => CancelInv
  BY DEF Init, NewJob, IdleEngine, CancelInv, PendingIsCovered, AtHand

LEMMA CancelEngine ==
  ASSUME TypeOK, CancelInv, EngineStep
  PROVE  CancelInv'
<1>0. UNCHANGED <<api, spent>> /\ (Uncut' => Uncut)
  BY DEF EngineStep, EngineTick, EngineNextJob, EngineTickDone, EngineCreateTask,
         EngineCreateConflict, EngineRenderFails, EngineSetScriptDir,
         EngineCounts, EngineRequeue, EngineFailJob, Uncut
<1>1. CASE EngineTick \/ EngineNextJob \/ EngineTickDone
  <2>1. UNCHANGED <<job, task>>
    BY <1>1 DEF EngineTick, EngineNextJob, EngineTickDone
  <2>2. engine.cur = NoJob
    BY <1>1 DEF CancelInv, AtHand, EngineTick, EngineNextJob, EngineTickDone
  <2>3. AtHand'
    <3>1. CASE EngineTick \/ EngineTickDone
      <4>1. engine' = [engine EXCEPT !.pc = "next", !.todo = GetJobsNeedingExpansion]
            \/ engine' = IdleEngine
        BY <3>1 DEF EngineTick, EngineTickDone
      <4>2. engine'.cur = NoJob
        <5>1. [engine EXCEPT !.pc = "next", !.todo = GetJobsNeedingExpansion].cur = engine.cur
          BY DEF TypeOK, EngineState
        <5>2. IdleEngine.cur = NoJob
          BY DEF IdleEngine
        <5>3. QED
          BY <2>2, <4>1, <5>1, <5>2
      <4>3. QED
        BY <4>2 DEF AtHand
    <3>2. CASE EngineNextJob
      <4>1. PICK j \in engine.todo :
              engine' = IF Chunks[j] = 0
                        THEN [engine EXCEPT !.todo = @ \ {j}]
                        ELSE [pc |-> "create", todo |-> engine.todo \ {j},
                              cur |-> j, chunk |-> 1]
        BY <3>2 DEF EngineNextJob
      <4>2. CASE Chunks[j] = 0
        BY <2>2, <4>1, <4>2 DEF AtHand, TypeOK, EngineState
      <4>3. CASE Chunks[j] # 0
        <5>1. engine'.pc = "create"
          BY <4>1, <4>3
        <5>2. QED
          BY <5>1 DEF AtHand
      <4>4. QED
        BY <4>2, <4>3
    <3>3. QED
      BY <1>1, <3>1, <3>2
  <2>4. QED
    BY <1>0, <2>1, <2>2, <2>3, NoJobIsNone, CancelFrame
<1>2. CASE EngineCreateTask
  <2>1. /\ EngineTask \in Tasks /\ JobOf(EngineTask) = engine.cur
        /\ task' = [task EXCEPT ![EngineTask] = NewTask]
        /\ UNCHANGED job
        /\ engine'.cur = engine.cur /\ engine'.pc = "script"
    BY <1>2 DEF TypeOK, EngineState, EngineOK, EngineCreateTask, EngineTask, JobOf
  <2>2. \A t \in Tasks : JobOf(t) # engine.cur => task'[t] = task[t]
    BY <2>1 DEF TypeOK
  <2>3. QED
    BY <1>0, <2>1, <2>2
       DEF CancelInv, PendingIsCovered, NothingPending, TasksOf, AtHand
<1>3. CASE EngineCreateConflict \/ EngineRenderFails
  <2>1. UNCHANGED <<job, task>> /\ engine'.cur = engine.cur /\ engine'.pc = "fail"
    BY <1>3 DEF EngineCreateConflict, EngineRenderFails, TypeOK, EngineState
  <2>2. QED
    BY <1>0, <2>1, CancelFrame DEF AtHand
<1>4. CASE EngineSetScriptDir
  <2>1. /\ UNCHANGED job /\ engine'.cur = engine.cur /\ engine'.pc \in {"create", "counts"}
        /\ \A t \in Tasks : task'[t].status = task[t].status
    BY <1>4 DEF EngineSetScriptDir, TypeOK, EngineState, TaskRow
  <2>2. QED
    BY <1>0, <2>1, CancelFrame DEF AtHand
<1>5. CASE EngineCounts
  <2>1. /\ engine.cur \in Jobs /\ UpdateJobTaskCounts(engine.cur) /\ UNCHANGED task
        /\ engine'.cur = engine.cur /\ engine'.pc = "requeue"
    BY <1>5 DEF EngineCounts, TypeOK, EngineOK, EngineState
  <2>2. \A j \in Jobs : job'[j].status = job[j].status
    BY <2>1, RefreshKeeps
  <2>3. QED
    BY <1>0, <2>1, <2>2, CancelFrame DEF AtHand
<1>6. CASE EngineRequeue \/ EngineFailJob
  <2>1. PICK s \in {"queued", "failed"} : UpdateJobStatus(engine.cur, s)
    BY <1>6 DEF EngineRequeue, EngineFailJob
  <2>2. /\ engine.cur \in Jobs /\ UNCHANGED task /\ engine' = EngineNextAfterJob
    BY <1>6 DEF EngineRequeue, EngineFailJob, TypeOK, EngineOK
  <2>3. /\ job'[engine.cur].status # "cancelled"
        /\ \A k \in Jobs \ {engine.cur} : job'[k] = job[k]
    BY <2>1, <2>2, StatusKeeps
  <2>4. AtHand'
    BY <2>2 DEF AtHand, EngineNextAfterJob, TypeOK, EngineState
  <2>5. QED
    BY <1>0, <2>2, <2>3, <2>4 DEF CancelInv, PendingIsCovered, NothingPending
<1>7. QED
  BY <1>1, <1>2, <1>3, <1>4, <1>5, <1>6 DEF EngineStep

LEMMA CancelApi ==
  ASSUME TypeOK, CancelInv, NEW j \in Jobs, ApiStep(j)
  PROVE  CancelInv'
<1>0. /\ UNCHANGED <<engine, spent>> /\ (Uncut' => Uncut) /\ AtHand'
      /\ api \in [Jobs -> ApiState] /\ task \in [Tasks -> TaskRow]
  BY DEF ApiStep, CancelStatus, CancelPendingTasks, RetryFailedTasks, RetryStatus,
         Uncut, TypeOK, CancelInv, AtHand
<1>1. CASE CancelStatus(j)
  <2>1. UpdateJobStatus(j, "cancelled") /\ UNCHANGED task
    BY <1>1 DEF CancelStatus
  <2>2. api'[j].cancel = "tasks" /\ \A k \in Jobs \ {j} : api'[k] = api[k]
    BY <1>0, <1>1 DEF CancelStatus, ApiState
  <2>3. \A k \in Jobs \ {j} : job'[k] = job[k]
    BY <2>1, StatusKeeps
  <2>4. QED
    BY <1>0, <2>1, <2>2, <2>3 DEF CancelInv, PendingIsCovered, NothingPending
<1>2. CASE CancelPendingTasks(j)
  <2>1. /\ \A t \in TasksOf(j) : task'[t].status # "pending"
        /\ \A t \in Tasks : task'[t].status = "pending" => task[t].status = "pending"
    BY <1>0, <1>2 DEF CancelPendingTasks, Cancellable, TasksOf, TaskRow
  <2>2. UNCHANGED job /\ \A k \in Jobs \ {j} : api'[k] = api[k]
    BY <1>0, <1>2 DEF CancelPendingTasks
  <2>3. QED
    BY <1>0, <2>1, <2>2 DEF CancelInv, PendingIsCovered, NothingPending, TasksOf
<1>3. CASE RetryFailedTasks(j)
  <2>1. \A k \in Jobs \ {j} : \A t \in TasksOf(k) : task'[t] = task[t]
    BY <1>0, <1>3 DEF RetryFailedTasks, TasksOf
  <2>2. /\ UNCHANGED job /\ api'[j].retry = "status"
        /\ \A k \in Jobs \ {j} : api'[k] = api[k]
    BY <1>0, <1>3 DEF RetryFailedTasks, ApiState
  <2>3. QED
    BY <1>0, <2>1, <2>2 DEF CancelInv, PendingIsCovered, NothingPending
<1>4. CASE RetryStatus(j)
  <2>1. UpdateJobStatus(j, "queued") /\ UNCHANGED task
    BY <1>4 DEF RetryStatus
  <2>2. \A k \in Jobs \ {j} : api'[k] = api[k]
    BY <1>0, <1>4 DEF RetryStatus
  <2>3. job'[j].status = "queued" /\ \A k \in Jobs \ {j} : job'[k] = job[k]
    BY <2>1, StatusKeeps
  <2>4. QED
    BY <1>0, <2>1, <2>2, <2>3 DEF CancelInv, PendingIsCovered, NothingPending
<1>5. QED
  BY <1>1, <1>2, <1>3, <1>4 DEF ApiStep

\* What cuts a call or a request is counted.
LEMMA CutsCount ==
  ASSUME TypeOK, Environment
  PROVE  /\ Uncut' => Uncut
         /\ Undisturbed' => Undisturbed
         /\ CrashController => ~Uncut'
         /\ \A j \in Jobs : LoseRequest(j) => ~Uncut'
         /\ \A a \in Agents : LoseCall(a) => ~Uncut'
         /\ \A a \in Agents : CrashAgent(a) => ~Undisturbed'
         /\ \A j \in Jobs : RetryRead(j) => ~Undisturbed'
<1>1. spent \in [agentCrash : Nat, ctlCrash : Nat, loss : Nat, cancel : Nat, retry : Nat]
  BY DEF TypeOK
<1>2. CASE spent' = spent
  BY <1>1, <1>2 DEF CrashController, LoseRequest, LoseCall, CrashAgent, RetryRead, Uncut,
                    Undisturbed
<1>3. CASE spent' = [spent EXCEPT !.loss = @ + 1] \/ spent' = [spent EXCEPT !.ctlCrash = @ + 1]
  <2>1. ~Uncut'
    BY <1>1, <1>3 DEF Uncut
  <2>2. QED
    BY <2>1 DEF Undisturbed
<1>4. CASE spent' = [spent EXCEPT !.cancel = @ + 1]
  BY <1>1, <1>4 DEF CrashController, LoseRequest, LoseCall, CrashAgent, RetryRead, Uncut,
                    Undisturbed
<1>5. CASE \/ spent' = [spent EXCEPT !.retry = @ + 1]
           \/ spent' = [spent EXCEPT !.agentCrash = @ + 1]
  <2>1. ~Undisturbed' /\ (Uncut' => Uncut)
    BY <1>1, <1>5 DEF Uncut, Undisturbed
  <2>2. ~CrashController /\ (\A j \in Jobs : ~LoseRequest(j)) /\ \A a \in Agents : ~LoseCall(a)
    BY <1>1, <1>5 DEF CrashController, LoseRequest, LoseCall
  <2>3. QED
    BY <2>1, <2>2
<1>6. QED
  BY <1>2, <1>3, <1>4, <1>5 DEF Environment, CreateJob, CancelRead, RetryRead, LoseRequest,
                                LoseCall, CrashAgent, CrashController

LEMMA CancelEnvironment ==
  ASSUME TypeOK, CancelInv, Environment
  PROVE  CancelInv'
<1>0. /\ Uncut' => Uncut
      /\ CrashController => ~Uncut'
      /\ \A j \in Jobs : LoseRequest(j) => ~Uncut'
      /\ \A a \in Agents : LoseCall(a) => ~Uncut'
  BY CutsCount
<1>1. ASSUME NEW j \in Jobs, CreateJob(j) \/ CancelRead(j) \/ RetryRead(j) PROVE CancelInv'
  <2>1. UNCHANGED <<task, engine>> /\ AtHand'
    BY <1>1 DEF CreateJob, CancelRead, RetryRead, CancelInv, AtHand
  <2>2. \A k \in Jobs : job'[k].status = "cancelled" => job[k].status = "cancelled"
    <3>1. CASE CreateJob(j)
      <4>1. job' = [job EXCEPT ![j] = NewJob] /\ NewJob.status = "queued"
        BY <3>1 DEF CreateJob, NewJob
      <4>2. QED
        BY <4>1 DEF TypeOK
    <3>2. CASE CancelRead(j) \/ RetryRead(j)
      BY <3>2 DEF CancelRead, RetryRead
    <3>3. QED
      BY <1>1, <3>1, <3>2
  <2>3. \A k \in Jobs : /\ api[k].cancel = "tasks" => api'[k].cancel = "tasks"
                        /\ api[k].retry = "status" => api'[k].retry = "status"
    <3>1. CASE CreateJob(j)
      BY <3>1 DEF CreateJob
    <3>2. CASE CancelRead(j)
      <4>1. api[j].cancel = "idle" /\ api' = [api EXCEPT ![j].cancel = "status"]
        BY <3>2 DEF CancelRead
      <4>2. QED
        BY <4>1 DEF TypeOK, ApiState
    <3>3. CASE RetryRead(j)
      <4>1. api[j].retry = "idle" /\ api' = [api EXCEPT ![j].retry = "tasks"]
        BY <3>3 DEF RetryRead
      <4>2. QED
        BY <4>1 DEF TypeOK, ApiState
    <3>4. QED
      BY <1>1, <3>1, <3>2, <3>3
  <2>4. QED
    BY <1>0, <2>1, <2>2, <2>3, CancelFrame
<1>2. ASSUME \/ CrashController
             \/ \E j \in Jobs : LoseRequest(j)
             \/ \E a \in Agents : LoseCall(a)
      PROVE  CancelInv'
  <2>1. ~Uncut'
    BY <1>0, <1>2
  <2>2. engine' = engine \/ engine' = IdleEngine
    BY <1>2 DEF CrashController, LoseRequest, LoseCall
  <2>3. QED
    BY <2>1, <2>2 DEF CancelInv, PendingIsCovered, AtHand, IdleEngine
<1>3. ASSUME NEW a \in Agents, CrashAgent(a) PROVE CancelInv'
  <2>1. UNCHANGED <<job, task, engine, api>> /\ AtHand'
    BY <1>3 DEF CrashAgent, CancelInv, AtHand
  <2>2. QED
    BY <1>0, <2>1, CancelFrame
<1>4. QED
  BY <1>1, <1>2, <1>3 DEF Environment

LEMMA CancelStep == TypeOK /\ CancelInv /\ [Next]_vars => CancelInv'
<1> SUFFICES ASSUME TypeOK, CancelInv, [Next]_vars PROVE CancelInv'
  OBVIOUS
<1>1. ASSUME NEW a \in Agents, AgentStep(a) \/ ProgressStep(a) PROVE CancelInv'
  <2>1. UNCHANGED <<engine, api, spent>> /\ AtHand' /\ (Uncut' => Uncut)
    BY <1>1, AgentEffects DEF CancelInv, AtHand, Uncut
  <2>2. QED
    BY <1>1, <2>1, AgentEffects, CancelFrame
<1>2. CASE UNCHANGED vars
  BY <1>2 DEF vars, CancelInv, PendingIsCovered, NothingPending, AtHand, Uncut
<1>3. QED
  BY <1>1, <1>2, CancelEngine, CancelApi, CancelEnvironment DEF Next

LEMMA CancelInvariant == Spec => [](TypeOK /\ CancelInv)
<1>1. Init => TypeOK /\ CancelInv
  BY TypeInit, CancelInit
<1>2. TypeOK /\ CancelInv /\ [Next]_vars => (TypeOK /\ CancelInv)'
  BY TypeStep, CancelStep
<1>3. QED
  BY <1>1, <1>2, PTL DEF Spec

\* For any number of jobs, agents and requests: unless a call or a request was
\* cut, a job that stays cancelled has no pending task once its requests are
\* done and the loop has left it.
THEOREM CancelLeavesNothingPendingHolds == Spec => []CancelLeavesNothingPending
<1>1. CancelInv => CancelLeavesNothingPending
  BY DEF CancelInv, PendingIsCovered, NothingPending, CancelLeavesNothingPending, IdleApi
<1>2. QED
  BY <1>1, CancelInvariant, PTL

--------------------------------------------------------------------------------
(* A job is expanded once                                                  *)

AllExist(j) == \A t \in TasksOf(j) : Exists(t)

\* The loop's list and its job at hand are disjoint, and a job's row is there
\* before the loop gets to it.
ListOK ==
  /\ \A j \in engine.todo : Created(j)
  /\ engine.cur # NoJob => Created(engine.cur)
  /\ engine.cur \notin engine.todo
  /\ \A j \in history.expanded : Created(j)

\* A pass has created the chunks it has gone by, and all of them when it counts.
PassOK ==
  /\ engine.pc \in {"create", "script"} =>
       \A t \in TasksOf(engine.cur) : t[2] < engine.chunk => Exists(t)
  /\ engine.pc = "script" => Exists(EngineTask)
  /\ engine.pc = "counts" => AllExist(engine.cur) /\ Chunks[engine.cur] > 0

\* After that no chunk is missing, so that a refresh leaves tasks_total alone.
ExpandedOK ==
  \A j \in history.expanded :
    AllExist(j) /\ Chunks[j] > 0 /\ job[j].total = Chunks[j] /\ j \notin engine.todo

ExpandInv == AtHand /\ ListOK /\ PassOK /\ ExpandedOK

\* A job has as many tasks as chunks, and tasks_total counts those that exist.
LEMMA TotalOfAll ==
  ASSUME NEW j \in Jobs, AllExist(j)
  PROVE  TotalTasks(j) = Chunks[j]
<1> DEFINE f == [c \in 1..Chunks[j] |-> <<j, c>>]
<1>1. Chunks[j] \in Nat
  BY DispatchAssumption
<1>2. \A c \in 1..Chunks[j] : f[c] \in TasksOf(j)
  BY TaskIntro DEF TasksOf, JobOf
<1>3. \A t \in TasksOf(j) : \E c \in 1..Chunks[j] : f[c] = t
  BY TaskKey DEF TasksOf, JobOf
<1>4. \A c, d \in 1..Chunks[j] : f[c] = f[d] => c = d
  OBVIOUS
<1>5. f \in Bijection(1..Chunks[j], TasksOf(j))
  BY <1>2, <1>3, <1>4 DEF Bijection, Injection, IsInjective, Surjection
<1>6. Cardinality(TasksOf(j)) = Chunks[j]
  <2>1. ExistsBijection(1..Chunks[j], TasksOf(j))
    BY <1>5 DEF ExistsBijection
  <2>2. QED
    BY <1>1, <2>1, FS_CountingElements
<1>7. {t \in TasksOf(j) : task[t].status # "none"} = TasksOf(j)
  BY DEF AllExist, Exists
<1>8. QED
  BY <1>6, <1>7 DEF TotalTasks

\* A step that does not touch what the loop is doing, except to stop it, and
\* changes tasks_total only to what a refresh counts.
LEMMA ExpandFrame ==
  ASSUME TypeOK, ExpandInv,
         engine' = engine \/ engine' = IdleEngine,
         history'.expanded = history.expanded,
         \A t \in Tasks : Exists(t) => Exists(t)',
         \A j \in Jobs : Created(j) => /\ Created(j)'
                                       /\ job'[j].total \in {job[j].total, TotalTasks(j)}
  PROVE  ExpandInv'
<1>0. /\ engine.todo \subseteq Jobs /\ engine.cur \in Jobs \cup {NoJob}
      /\ history.expanded \subseteq Jobs
      /\ engine.pc \in {"create", "script"} => EngineTask \in Tasks
  BY DEF TypeOK, EngineState, EngineOK
<1>1. \A j : AllExist(j) => AllExist(j)'
  BY DEF AllExist, TasksOf
<1>2. ExpandedOK'
  <2> SUFFICES ASSUME NEW j \in history.expanded
               PROVE  AllExist(j)' /\ Chunks[j] > 0 /\ job'[j].total = Chunks[j]
                      /\ j \notin engine'.todo
    BY DEF ExpandedOK
  <2>1. AllExist(j) /\ Chunks[j] > 0 /\ job[j].total = Chunks[j] /\ j \notin engine.todo
        /\ Created(j) /\ j \in Jobs
    BY <1>0 DEF ExpandInv, ExpandedOK, ListOK
  <2>2. TotalTasks(j) = Chunks[j]
    BY <2>1, TotalOfAll
  <2>3. QED
    BY <1>1, <2>1, <2>2 DEF IdleEngine
<1>3. CASE engine' = engine
  <2>1. AtHand' /\ ListOK'
    BY <1>0, <1>3 DEF ExpandInv, AtHand, ListOK
  <2>2. PassOK'
    BY <1>0, <1>1, <1>3 DEF ExpandInv, PassOK, EngineTask, TasksOf
  <2>3. QED
    BY <1>2, <2>1, <2>2 DEF ExpandInv
<1>4. CASE engine' = IdleEngine
  <2>1. AtHand' /\ ListOK' /\ PassOK'
    BY <1>0, <1>4 DEF ExpandInv, AtHand, ListOK, PassOK, IdleEngine
  <2>2. QED
    BY <1>2, <2>1 DEF ExpandInv
<1>5. QED
  BY <1>3, <1>4

LEMMA ExpandInit == Init => ExpandInv
  BY DEF Init, IdleEngine, ExpandInv, AtHand, ListOK, PassOK, ExpandedOK

LEMMA ExpandEngine ==
  ASSUME TypeOK, ExpandInv, EngineStep
  PROVE  ExpandInv'
<1>0. /\ engine \in EngineState /\ EngineOK /\ history.expanded \subseteq Jobs
      /\ engine.todo \subseteq Jobs
      /\ engine.pc \in {"create", "script"} =>
           /\ EngineTask \in Tasks /\ engine.cur \in Jobs
           /\ engine.chunk \in 1..Chunks[engine.cur] /\ Chunks[engine.cur] \in Nat
  <2>1. /\ engine \in EngineState /\ EngineOK /\ history.expanded \subseteq Jobs
        /\ engine.todo \subseteq Jobs
    BY DEF TypeOK, EngineState
  <2>2. ASSUME EngineTask \in Tasks
        PROVE  /\ engine.cur \in Jobs /\ engine.chunk \in 1..Chunks[engine.cur]
               /\ Chunks[engine.cur] \in Nat
    BY <2>2, TaskKey, DispatchAssumption DEF EngineTask, JobOf
  <2>3. QED
    BY <2>1, <2>2 DEF EngineOK
<1>1. CASE EngineTick
  <2>1. /\ engine'.pc = "next" /\ engine'.cur = engine.cur
        /\ engine'.todo = GetJobsNeedingExpansion
        /\ UNCHANGED <<job, task, history>> /\ engine.pc = "idle"
    BY <1>0, <1>1 DEF EngineTick, EngineState
  <2>2. engine.cur = NoJob
    BY <2>1 DEF ExpandInv, AtHand
  <2>3. \A j \in GetJobsNeedingExpansion : j \in Jobs /\ Created(j) /\ job[j].total = 0
    BY DEF GetJobsNeedingExpansion, Created
  <2>4. \A j \in history.expanded : j \notin GetJobsNeedingExpansion
    BY <2>3, DispatchAssumption DEF ExpandInv, ExpandedOK
  <2>5. ListOK' /\ AtHand' /\ PassOK'
    BY <2>1, <2>2, <2>3, NoJobIsNone DEF ExpandInv, ListOK, AtHand, PassOK, Created
  <2>6. ExpandedOK'
    BY <2>1, <2>4 DEF ExpandInv, ExpandedOK, AllExist, Exists
  <2>7. QED
    BY <2>5, <2>6 DEF ExpandInv
<1>2. CASE EngineNextJob
  <2>1. PICK j \in engine.todo :
          engine' = IF Chunks[j] = 0
                    THEN [engine EXCEPT !.todo = @ \ {j}]
                    ELSE [pc |-> "create", todo |-> engine.todo \ {j},
                          cur |-> j, chunk |-> 1]
    BY <1>2 DEF EngineNextJob
  <2>2. UNCHANGED <<job, task, history>> /\ engine.pc = "next" /\ engine.cur = NoJob
    BY <1>2 DEF EngineNextJob, ExpandInv, AtHand
  <2>3. /\ engine'.todo = engine.todo \ {j}
        /\ \/ engine'.pc = "next" /\ engine'.cur = NoJob
           \/ engine'.pc = "create" /\ engine'.cur = j /\ engine'.chunk = 1
    <3>1. CASE Chunks[j] = 0
      BY <1>0, <2>1, <2>2, <3>1 DEF EngineState
    <3>2. CASE Chunks[j] # 0
      BY <2>1, <3>2
    <3>3. QED
      BY <3>1, <3>2
  <2>4. AtHand' /\ ListOK'
    BY <1>0, <2>2, <2>3, NoJobIsNone DEF ExpandInv, AtHand, ListOK, Created
  <2>5. PassOK'
    <3>1. \A t \in Tasks : ~(t[2] < 1)
      BY TaskKey, DispatchAssumption
    <3>2. QED
      BY <2>3, <3>1 DEF PassOK, TasksOf
  <2>6. ExpandedOK'
    BY <2>2, <2>3 DEF ExpandInv, ExpandedOK, AllExist, Exists
  <2>7. QED
    BY <2>4, <2>5, <2>6 DEF ExpandInv
<1>3. CASE EngineTickDone
  BY <1>3, ExpandFrame DEF EngineTickDone, Exists, Created
<1>4. CASE EngineCreateTask
  <2>1. /\ engine.pc = "create" /\ UNCHANGED <<job, history>>
        /\ engine'.pc = "script" /\ engine'.cur = engine.cur
        /\ engine'.chunk = engine.chunk /\ engine'.todo = engine.todo
        /\ task' = [task EXCEPT ![EngineTask] = NewTask]
    BY <1>0, <1>4 DEF EngineCreateTask, EngineState
  <2>2. \A t \in Tasks : (Exists(t) => Exists(t)') /\ (t = EngineTask => Exists(t)')
    BY <2>1 DEF Exists, NewTask, TypeOK
  <2>3. AtHand' /\ ListOK'
    BY <2>1 DEF ExpandInv, AtHand, ListOK, Created
  <2>4. PassOK'
    <3>1. Exists(EngineTask)'
      BY <1>0, <2>1, <2>2 DEF EngineTask
    <3>2. QED
      BY <2>1, <2>2, <3>1 DEF ExpandInv, PassOK, TasksOf
  <2>5. ExpandedOK'
    BY <2>1, <2>2 DEF ExpandInv, ExpandedOK, AllExist, TasksOf
  <2>6. QED
    BY <2>3, <2>4, <2>5 DEF ExpandInv
<1>5. CASE EngineCreateConflict \/ EngineRenderFails
  <2>1. /\ engine.pc \in {"create", "script"} /\ UNCHANGED <<job, task, history>>
        /\ engine'.pc = "fail" /\ engine'.cur = engine.cur /\ engine'.todo = engine.todo
    BY <1>0, <1>5 DEF EngineCreateConflict, EngineRenderFails, EngineState
  <2>2. QED
    BY <2>1 DEF ExpandInv, AtHand, ListOK, PassOK, ExpandedOK, AllExist, Exists, Created
<1>6. CASE EngineSetScriptDir
  <2>1. /\ engine.pc = "script" /\ UNCHANGED <<job, history>>
        /\ engine'.cur = engine.cur /\ engine'.todo = engine.todo
        /\ \/ /\ engine.chunk < Chunks[engine.cur]
              /\ engine'.pc = "create" /\ engine'.chunk = engine.chunk + 1
           \/ ~(engine.chunk < Chunks[engine.cur]) /\ engine'.pc = "counts"
    BY <1>0, <1>6 DEF EngineSetScriptDir, MoreChunks, EngineState
  <2>2. \A t \in Tasks : Exists(t)' <=> Exists(t)
    BY <1>6 DEF EngineSetScriptDir, Exists, TypeOK, TaskRow
  <2>3. \A t \in TasksOf(engine.cur) :
          /\ t \in Tasks /\ t[2] \in 1..Chunks[engine.cur]
          /\ t[2] = engine.chunk => t = EngineTask
    BY TaskKey DEF TasksOf, JobOf, EngineTask
  <2>4. \A t \in TasksOf(engine.cur) : t[2] < engine.chunk + 1 => Exists(t)'
    <3>1. SUFFICES ASSUME NEW t \in TasksOf(engine.cur), t[2] < engine.chunk + 1
                   PROVE  Exists(t)
      BY <2>2, <2>3
    <3>2. t[2] < engine.chunk \/ t[2] = engine.chunk
      BY <1>0, <2>1, <2>3, <3>1
    <3>3. QED
      BY <2>1, <2>3, <3>2 DEF ExpandInv, PassOK
  <2>5. AtHand' /\ ListOK'
    BY <2>1 DEF ExpandInv, AtHand, ListOK, Created
  <2>6. PassOK'
    <3>1. CASE engine'.pc = "create" /\ engine'.chunk = engine.chunk + 1
      BY <2>1, <2>4, <3>1 DEF PassOK
    <3>2. CASE ~(engine.chunk < Chunks[engine.cur]) /\ engine'.pc = "counts"
      <4>1. \A t \in TasksOf(engine.cur) : t[2] < engine.chunk + 1
        BY <1>0, <2>1, <2>3, <3>2
      <4>2. Chunks[engine.cur] > 0
        BY <1>0, <2>1
      <4>3. QED
        BY <2>1, <2>4, <3>2, <4>1, <4>2 DEF PassOK, AllExist
    <3>3. QED
      BY <2>1, <3>1, <3>2
  <2>7. ExpandedOK'
    BY <2>1, <2>2 DEF ExpandInv, ExpandedOK, AllExist, TasksOf
  <2>8. QED
    BY <2>5, <2>6, <2>7 DEF ExpandInv
<1>7. CASE EngineCounts
  <2>1. /\ engine.cur \in Jobs /\ engine.pc = "counts"
        /\ UpdateJobTaskCounts(engine.cur) /\ UNCHANGED task
        /\ engine'.pc = "requeue" /\ engine'.cur = engine.cur
        /\ engine'.todo = engine.todo
        /\ history'.expanded = history.expanded \cup {engine.cur}
    BY <1>0, <1>7 DEF EngineCounts, EngineState, EngineOK, TypeOK
  <2>2. AllExist(engine.cur) /\ Chunks[engine.cur] > 0
    BY <2>1 DEF ExpandInv, PassOK
  <2>3. /\ \A k \in Jobs : Created(k)' <=> Created(k)
        /\ \A k \in Jobs \ {engine.cur} : job'[k] = job[k]
        /\ job'[engine.cur].total = Chunks[engine.cur]
    BY <2>1, <2>2, RefreshKeeps, TotalOfAll DEF Created
  <2>4. AtHand' /\ ListOK' /\ PassOK'
    BY <1>0, <2>1, <2>3, NoJobIsNone DEF ExpandInv, AtHand, ListOK, PassOK
  <2>5. ExpandedOK'
    BY <1>0, <2>1, <2>2, <2>3 DEF ExpandInv, ExpandedOK, ListOK, AllExist, Exists
  <2>6. QED
    BY <2>4, <2>5 DEF ExpandInv
<1>8. CASE EngineRequeue \/ EngineFailJob
  <2>1. PICK s \in {"queued", "failed"} : UpdateJobStatus(engine.cur, s)
    BY <1>8 DEF EngineRequeue, EngineFailJob
  <2>2. /\ engine.cur \in Jobs /\ UNCHANGED <<task, history>>
        /\ engine' = EngineNextAfterJob
    BY <1>0, <1>8 DEF EngineRequeue, EngineFailJob, EngineOK
  <2>3. engine'.pc = "next" /\ engine'.cur = NoJob /\ engine'.todo = engine.todo
    BY <1>0, <2>2 DEF EngineNextAfterJob, EngineState
  <2>4. \A k \in Jobs : (Created(k) => Created(k)') /\ job'[k].total = job[k].total
    BY <2>1, <2>2, StatusKeeps DEF Created
  <2>5. AtHand' /\ ListOK' /\ PassOK'
    BY <1>0, <2>2, <2>3, <2>4, NoJobIsNone DEF ExpandInv, AtHand, ListOK, PassOK
  <2>6. ExpandedOK'
    BY <1>0, <2>2, <2>3, <2>4 DEF ExpandInv, ExpandedOK, AllExist, Exists
  <2>7. QED
    BY <2>5, <2>6 DEF ExpandInv
<1>9. QED
  BY <1>1, <1>2, <1>3, <1>4, <1>5, <1>6, <1>7, <1>8 DEF EngineStep

LEMMA ExpandApi ==
  ASSUME TypeOK, ExpandInv, NEW j \in Jobs, ApiStep(j)
  PROVE  ExpandInv'
<1>0. UNCHANGED <<engine, history>> /\ task \in [Tasks -> TaskRow]
  BY DEF ApiStep, CancelStatus, CancelPendingTasks, RetryFailedTasks, RetryStatus, TypeOK
<1>1. CASE CancelStatus(j) \/ RetryStatus(j)
  <2>1. PICK s \in {"cancelled", "queued"} : UpdateJobStatus(j, s)
    BY <1>1 DEF CancelStatus, RetryStatus
  <2>2. UNCHANGED task
    BY <1>1 DEF CancelStatus, RetryStatus
  <2>3. \A k \in Jobs : (Created(k) => Created(k)') /\ job'[k].total = job[k].total
    BY <2>1, StatusKeeps DEF Created
  <2>4. QED
    BY <1>0, <2>2, <2>3, ExpandFrame DEF Exists
<1>2. CASE CancelPendingTasks(j) \/ RetryFailedTasks(j)
  <2>1. UNCHANGED job
    BY <1>2 DEF CancelPendingTasks, RetryFailedTasks
  <2>2. \A t \in Tasks : Exists(t) => Exists(t)'
    <3>1. CASE CancelPendingTasks(j)
      BY <1>0, <3>1 DEF CancelPendingTasks, Exists, TaskRow
    <3>2. CASE RetryFailedTasks(j)
      BY <1>0, <3>2 DEF RetryFailedTasks, Exists, TaskRow
    <3>3. QED
      BY <1>2, <3>1, <3>2
  <2>3. QED
    BY <1>0, <2>1, <2>2, ExpandFrame DEF Created
<1>3. QED
  BY <1>1, <1>2 DEF ApiStep

LEMMA ExpandEnvironment ==
  ASSUME TypeOK, ExpandInv, Environment
  PROVE  ExpandInv'
<1>1. /\ UNCHANGED <<task, history>>
      /\ engine' = engine \/ engine' = IdleEngine
  BY DEF Environment, CreateJob, CancelRead, RetryRead, LoseRequest, LoseCall, CrashAgent,
         CrashController
<1>2. \A k \in Jobs : Created(k) => Created(k)' /\ job'[k].total = job[k].total
  <2>1. ASSUME NEW j \in Jobs, CreateJob(j)
        PROVE  \A k \in Jobs : Created(k) => job'[k] = job[k]
    BY <2>1 DEF CreateJob, Created, TypeOK
  <2>2. CASE UNCHANGED job
    BY <2>2 DEF Created
  <2>3. QED
    BY <2>1, <2>2 DEF Created, Environment, CancelRead, RetryRead, LoseRequest, LoseCall,
                      CrashAgent, CrashController
<1>3. QED
  BY <1>1, <1>2, ExpandFrame DEF Exists

LEMMA ExpandStep == TypeOK /\ ExpandInv /\ [Next]_vars => ExpandInv'
<1> SUFFICES ASSUME TypeOK, ExpandInv, [Next]_vars PROVE ExpandInv'
  OBVIOUS
<1>1. ASSUME NEW a \in Agents, AgentStep(a) \/ ProgressStep(a) PROVE ExpandInv'
  BY <1>1, AgentEffects, ExpandFrame
<1>2. CASE UNCHANGED vars
  BY <1>2, ExpandFrame DEF vars, Exists, Created
<1>3. QED
  BY <1>1, <1>2, ExpandEngine, ExpandApi, ExpandEnvironment DEF Next

LEMMA ExpandInvariant == Spec => [](TypeOK /\ ExpandInv)
<1>1. Init => TypeOK /\ ExpandInv
  BY TypeInit, ExpandInit
<1>2. TypeOK /\ ExpandInv /\ [Next]_vars => (TypeOK /\ ExpandInv)'
  BY TypeStep, ExpandStep
<1>3. QED
  BY <1>1, <1>2, PTL DEF Spec

\* For any number of jobs, chunks and agents: once the loop has counted the tasks
\* of a job, tasks_total is the number of its chunks for good and no later tick
\* takes the job, whatever cancels, retries, refreshes and restarts do.
THEOREM ExpandedOnceHolds == Spec => []ExpandedOnce
<1>1. ExpandInv => ExpandedOnce
  BY DEF ExpandInv, ExpandedOK, ExpandedOnce
<1>2. QED
  BY <1>1, ExpandInvariant, PTL

--------------------------------------------------------------------------------
(* Results are counted                                                     *)

\* Without cut calls nothing is journaled and nothing replayed, without retries
\* no retry is under way, and without lag a progress update belongs to the
\* script that runs.
PromptAt(a) ==
  /\ journal[a] = <<>> /\ agent[a].at = 0
  /\ progress[a] # NoTask => agent[a].pc = "progressed" /\ progress[a] = agent[a].task

Prompt ==
  /\ \A a \in Agents : PromptAt(a)
  /\ history.replayed = {}
  /\ \A j \in Jobs : api[j].retry = "idle"

\* A task's row comes after its job's.
Rooted == \A t \in Tasks : Exists(t) => Created(JobOf(t))

Counted(j) == /\ job[j].completed = Count(j, "completed")
              /\ job[j].failed = Count(j, "failed")
Reporting(j) == \E a \in Agents : agent[a].pc = "res_counts" /\ JobOf(agent[a].task) = j

Counting == Prompt /\ Rooted /\ \A j \in Jobs : Counted(j) \/ Reporting(j)
CountInv == Undisturbed => Counting

\* The rows of a job's results stay, and so does what the job row says of them.
LEMMA StillCounted ==
  ASSUME NEW j \in Jobs,
         job'[j].completed = job[j].completed, job'[j].failed = job[j].failed,
         \A t \in TasksOf(j) : \A s \in {"completed", "failed"} :
           task'[t].status = s <=> task[t].status = s
  PROVE  Counted(j) => Counted(j)'
<1>1. \A s \in {"completed", "failed"} :
        {t \in TasksOf(j) : task'[t].status = s} = {t \in TasksOf(j) : task[t].status = s}
  OBVIOUS
<1>2. Count(j, "completed")' = Count(j, "completed") /\ Count(j, "failed")' = Count(j, "failed")
  BY <1>1 DEF Count, TasksOf
<1>3. QED
  BY <1>2 DEF Counted

LEMMA Refreshed ==
  ASSUME TypeOK, NEW j \in Jobs, UpdateJobTaskCounts(j), UNCHANGED task
  PROVE  /\ Counted(j)'
         /\ \A k \in Jobs : Counted(k) => Counted(k)'
<1>1. Counted(j)'
  BY RefreshKeeps DEF Counted, Count
<1>2. \A k \in Jobs \ {j} : Counted(k) => Counted(k)'
  BY RefreshKeeps DEF Counted, Count
<1>3. QED
  BY <1>1, <1>2

\* A step of anything but an agent that leaves the results alone.
LEMMA CountFrame ==
  ASSUME TypeOK, Counting, UNCHANGED <<agent, journal, progress>>,
         history'.replayed = history.replayed,
         \A j \in Jobs : api'[j].retry = api[j].retry,
         \A t \in Tasks : Exists(t)' => Exists(t),
         \A j \in Jobs : Created(j) => Created(j)',
         \A j \in Jobs : Counted(j) => Counted(j)'
  PROVE  Counting'
<1>1. Prompt'
  BY DEF Counting, Prompt, PromptAt
<1>2. Rooted'
  BY TaskKey DEF Counting, Rooted
<1>3. \A j \in Jobs : Counted(j)' \/ Reporting(j)'
  BY DEF Counting, Reporting
<1>4. QED
  BY <1>1, <1>2, <1>3 DEF Counting

LEMMA CountInit == Init => CountInv
<1> SUFFICES ASSUME Init PROVE Counting
  BY DEF CountInv
<1>1. Prompt
  BY DEF Init, Prompt, PromptAt, AgentAt, IdleApi
<1>2. Rooted
  BY DEF Init, NewTask, Rooted, Exists
<1>3. \A j \in Jobs : Counted(j)
  <2> SUFFICES ASSUME NEW j \in Jobs PROVE Counted(j)
    OBVIOUS
  <2>1. \A t \in TasksOf(j) : task[t].status = "none"
    BY DEF Init, NewTask, TasksOf
  <2>2. {t \in TasksOf(j) : task[t].status = "completed"} = {}
        /\ {t \in TasksOf(j) : task[t].status = "failed"} = {}
    BY <2>1
  <2>3. QED
    BY <2>2, FS_EmptySet DEF Init, NewJob, Counted, Count
<1>4. QED
  BY <1>1, <1>2, <1>3 DEF Counting

LEMMA CountEngine ==
  ASSUME TypeOK, ListOK, Counting, EngineStep
  PROVE  Counting'
<1>0. /\ UNCHANGED <<agent, journal, progress, api>>
      /\ history'.replayed = history.replayed
      /\ task \in [Tasks -> TaskRow]
  <2>1. CASE EngineCounts
    BY <2>1 DEF EngineCounts, TypeOK
  <2>2. CASE ~EngineCounts
    BY <2>2 DEF EngineStep, EngineTick, EngineNextJob, EngineTickDone, EngineCreateTask,
                EngineCreateConflict, EngineRenderFails, EngineSetScriptDir,
                EngineRequeue, EngineFailJob, TypeOK
  <2>3. QED
    BY <2>1, <2>2
<1>1. CASE EngineCreateTask
  <2>1. /\ EngineTask \in Tasks /\ JobOf(EngineTask) = engine.cur
        /\ task[EngineTask].status = "none"
        /\ task' = [task EXCEPT ![EngineTask] = NewTask]
        /\ UNCHANGED job
    BY <1>1 DEF TypeOK, EngineOK, EngineCreateTask, EngineTask, JobOf
  <2>2. \A t \in Tasks : /\ t # EngineTask => task'[t] = task[t]
                         /\ \A s \in {"completed", "failed"} :
                              task'[t].status = s <=> task[t].status = s
    BY <1>0, <2>1 DEF NewTask
  <2>3. Created(JobOf(EngineTask))
    BY <2>1, TaskKey, NoJobIsNone DEF ListOK
  <2>4. Rooted'
    BY <2>1, <2>2, <2>3 DEF Counting, Rooted, Exists, Created
  <2>5. \A j \in Jobs : Counted(j) => Counted(j)'
    BY <2>1, <2>2, StillCounted DEF TasksOf
  <2>6. Prompt' /\ \A j \in Jobs : Counted(j)' \/ Reporting(j)'
    BY <1>0, <2>5 DEF Counting, Prompt, PromptAt, Reporting
  <2>7. QED
    BY <2>4, <2>6 DEF Counting
<1>2. CASE EngineSetScriptDir
  <2>1. UNCHANGED job /\ \A t \in Tasks : task'[t].status = task[t].status
    BY <1>0, <1>2 DEF EngineSetScriptDir, TaskRow
  <2>2. \A j \in Jobs : Counted(j) => Counted(j)'
    BY <2>1, StillCounted DEF TasksOf
  <2>3. QED
    BY <1>0, <2>1, <2>2, CountFrame DEF Exists, Created
<1>3. CASE EngineCounts
  <2>1. engine.cur \in Jobs /\ UpdateJobTaskCounts(engine.cur) /\ UNCHANGED task
    BY <1>3 DEF EngineCounts, TypeOK, EngineOK
  <2>2. QED
    BY <1>0, <2>1, Refreshed, RefreshKeeps, CountFrame DEF Exists, Created
<1>4. CASE EngineRequeue \/ EngineFailJob
  <2>1. PICK s \in {"queued", "failed"} : UpdateJobStatus(engine.cur, s)
    BY <1>4 DEF EngineRequeue, EngineFailJob
  <2>2. engine.cur \in Jobs /\ UNCHANGED task
    BY <1>4 DEF EngineRequeue, EngineFailJob, TypeOK, EngineOK
  <2>3. \A k \in Jobs : /\ Created(k) => Created(k)'
                        /\ job'[k].completed = job[k].completed
                        /\ job'[k].failed = job[k].failed
    BY <2>1, <2>2, StatusKeeps DEF Created
  <2>4. \A j \in Jobs : Counted(j) => Counted(j)'
    BY <2>2, <2>3, StillCounted
  <2>5. QED
    BY <1>0, <2>2, <2>3, <2>4, CountFrame DEF Exists
<1>5. CASE EngineTick \/ EngineNextJob \/ EngineTickDone \/ EngineCreateConflict
           \/ EngineRenderFails
  <2>1. UNCHANGED <<job, task>>
    BY <1>5 DEF EngineTick, EngineNextJob, EngineTickDone, EngineCreateConflict,
                EngineRenderFails
  <2>2. QED
    BY <1>0, <2>1, CountFrame DEF Exists, Created, Counted, Count
<1>6. QED
  BY <1>1, <1>2, <1>3, <1>4, <1>5 DEF EngineStep

LEMMA CountApi ==
  ASSUME TypeOK, Counting, NEW j \in Jobs, ApiStep(j)
  PROVE  Counting'
<1>0. /\ UNCHANGED <<agent, journal, progress, history>>
      /\ task \in [Tasks -> TaskRow] /\ api \in [Jobs -> ApiState]
      /\ api[j].retry = "idle"
  BY DEF ApiStep, CancelStatus, CancelPendingTasks, RetryFailedTasks, RetryStatus, TypeOK,
         Counting, Prompt
<1>1. CASE CancelStatus(j)
  <2>1. UpdateJobStatus(j, "cancelled") /\ UNCHANGED task
        /\ api' = [api EXCEPT ![j].cancel = "tasks"]
    BY <1>1 DEF CancelStatus
  <2>2. \A k \in Jobs : /\ Created(k) => Created(k)'
                        /\ job'[k].completed = job[k].completed
                        /\ job'[k].failed = job[k].failed
    BY <2>1, StatusKeeps DEF Created
  <2>3. \A k \in Jobs : Counted(k) => Counted(k)'
    BY <2>1, <2>2, StillCounted
  <2>4. \A k \in Jobs : api'[k].retry = api[k].retry
    BY <1>0, <2>1 DEF ApiState
  <2>5. QED
    BY <1>0, <2>1, <2>2, <2>3, <2>4, CountFrame DEF Exists
<1>2. CASE CancelPendingTasks(j)
  <2>1. UNCHANGED job /\ \A k \in Jobs : api'[k].retry = api[k].retry
    BY <1>0, <1>2 DEF CancelPendingTasks, ApiState
  <2>2. \A t \in Tasks : /\ Exists(t)' => Exists(t)
                         /\ \A s \in {"completed", "failed"} :
                              task'[t].status = s <=> task[t].status = s
    BY <1>0, <1>2 DEF CancelPendingTasks, Cancellable, Exists, TaskRow
  <2>3. \A k \in Jobs : Counted(k) => Counted(k)'
    BY <2>1, <2>2, StillCounted DEF TasksOf
  <2>4. QED
    BY <1>0, <2>1, <2>2, <2>3, CountFrame DEF Created
<1>3. QED
  BY <1>0, <1>1, <1>2 DEF ApiStep, RetryFailedTasks, RetryStatus

LEMMA CountEnvironment ==
  ASSUME TypeOK, Counting, Environment, Undisturbed'
  PROVE  Counting'
<1>0. /\ ~CrashController
      /\ \A j \in Jobs : ~LoseRequest(j) /\ ~RetryRead(j)
      /\ \A a \in Agents : ~LoseCall(a) /\ ~CrashAgent(a)
  BY CutsCount DEF Undisturbed
<1>1. PICK j \in Jobs : CreateJob(j) \/ CancelRead(j)
  BY <1>0 DEF Environment
<1>2. UNCHANGED <<task, agent, journal, progress, history>>
  BY <1>1 DEF CreateJob, CancelRead
<1>3. CASE CreateJob(j)
  <2>1. ~Created(j) /\ UNCHANGED api /\ job' = [job EXCEPT ![j] = NewJob]
    BY <1>3 DEF CreateJob, Created
  <2>2. /\ \A k \in Jobs \ {j} : job'[k] = job[k]
        /\ job'[j].status = "queued" /\ job'[j].completed = 0 /\ job'[j].failed = 0
    BY <2>1 DEF TypeOK, NewJob
  <2>3. \A t \in TasksOf(j) : task[t].status = "none"
    BY <2>1 DEF Counting, Rooted, TasksOf, Exists
  <2>4. {t \in TasksOf(j) : task'[t].status = "completed"} = {}
        /\ {t \in TasksOf(j) : task'[t].status = "failed"} = {}
    BY <1>2, <2>3
  <2>5. Counted(j)'
    BY <2>2, <2>4, FS_EmptySet DEF Counted, Count, TasksOf
  <2>6. \A k \in Jobs : Counted(k) => Counted(k)'
    BY <1>2, <2>2, <2>5, StillCounted
  <2>7. QED
    BY <1>2, <2>1, <2>2, <2>6, CountFrame DEF Exists, Created
<1>4. CASE CancelRead(j)
  <2>1. api[j].cancel = "idle" /\ api' = [api EXCEPT ![j].cancel = "status"] /\ UNCHANGED job
    BY <1>4 DEF CancelRead
  <2>2. \A k \in Jobs : api'[k].retry = api[k].retry
    BY <2>1 DEF TypeOK, ApiState
  <2>3. QED
    BY <1>2, <2>1, <2>2, CountFrame DEF Exists, Created, Counted, Count
<1>5. QED
  BY <1>1, <1>3, <1>4

\* A step of an agent that has no progress update in flight.
LEMMA PromptFrame ==
  ASSUME TypeOK, Prompt, NEW a \in Agents, NEW s,
         agent' = [agent EXCEPT ![a] = s], s.at = 0,
         progress[a] = NoTask, UNCHANGED <<progress, journal, api>>,
         history'.replayed = {}
  PROVE  Prompt'
<1>1. agent'[a] = s /\ \A b \in Agents \ {a} : agent'[b] = agent[b]
  BY DEF TypeOK
<1>2. \A b \in Agents : PromptAt(b)'
  BY <1>1 DEF Prompt, PromptAt
<1>3. QED
  BY <1>2 DEF Prompt

\* Who was about to refresh a job's counters still is, except for the agent that
\* makes the step.
LEMMA ReportingFrame ==
  ASSUME TypeOK, NEW a \in Agents, NEW s, agent' = [agent EXCEPT ![a] = s],
         NEW j \in Jobs, ~(agent[a].pc = "res_counts" /\ JobOf(agent[a].task) = j)
  PROVE  Reporting(j) => Reporting(j)'
  BY DEF TypeOK, Reporting

LEMMA CountAgent ==
  ASSUME TypeOK, HoldInv, Counting, Undisturbed, NEW a \in Agents,
         AgentStep(a) \/ ProgressStep(a)
  PROVE  Counting'
<1>0. /\ agent \in [Agents -> AgentState] /\ agent[a] \in AgentState /\ AgentOK(a)
      /\ task \in [Tasks -> TaskRow]
      /\ PromptAt(a) /\ agent[a].at = 0 /\ history.replayed = {} /\ UNCHANGED api
      /\ \A j \in Jobs : Counted(j) \/ Reporting(j)
  BY AgentEffects DEF TypeOK, Counting, Prompt, PromptAt
<1>1. Rooted' \/ \E t \in Tasks : Exists(t)' /\ ~Exists(t)
  BY AgentEffects, TaskKey DEF Counting, Rooted
<1>2. CASE StartAgent(a) \/ ResultAcked(a)
  <2>1. agent' = [agent EXCEPT ![a] = AgentAt("idle")] /\ UNCHANGED journal
    BY <1>0, <1>2 DEF StartAgent, ResultAcked, PromptAt
  <2>2. UNCHANGED <<job, task, progress, history>> /\ agent[a].pc \in {"down", "res_ack"}
    BY <1>2 DEF StartAgent, ResultAcked
  <2>3. Prompt'
    <3>1. AgentAt("idle").at = 0
      BY DEF AgentAt
    <3>2. progress[a] = NoTask
      BY <1>0, <2>2 DEF PromptAt
    <3>3. QED
      BY <1>0, <2>1, <2>2, <3>1, <3>2, PromptFrame DEF Counting
  <2>4. \A j \in Jobs : Reporting(j) => Reporting(j)'
    BY <2>1, <2>2, ReportingFrame
  <2>5. QED
    BY <1>0, <1>1, <2>2, <2>3, <2>4 DEF Counting, Counted, Count, Exists
<1>3. CASE ClaimNextTask(a)
  <2>1. PICK t \in Tasks :
          /\ task[t].status = "pending"
          /\ task' = [task EXCEPT ![t].status = "assigned", ![t].agent = a]
          /\ agent' = [agent EXCEPT ![a] = [AgentAt("poll_counts") EXCEPT
                                       !.task = t, !.scripts = task[t].scripts]]
          /\ UNCHANGED <<job, journal, progress, history>> /\ agent[a].pc = "idle"
    BY <1>3 DEF ClaimNextTask, Claimable
  <2>2. Prompt'
    <3>1. [AgentAt("poll_counts") EXCEPT !.task = t, !.scripts = task[t].scripts].at = 0
      BY DEF AgentAt
    <3>2. progress[a] = NoTask
      BY <1>0, <2>1 DEF PromptAt
    <3>3. QED
      BY <1>0, <2>1, <3>1, <3>2, PromptFrame DEF Counting
  <2>3. \A u \in Tasks : /\ Exists(u)' => Exists(u)
                         /\ \A s \in {"completed", "failed"} :
                              task'[u].status = s <=> task[u].status = s
    BY <1>0, <2>1 DEF Exists, TaskRow
  <2>4. \A j \in Jobs : Counted(j) => Counted(j)'
    BY <2>1, <2>3, StillCounted DEF TasksOf
  <2>5. \A j \in Jobs : Reporting(j) => Reporting(j)'
    BY <2>1, ReportingFrame
  <2>6. QED
    BY <1>0, <1>1, <2>2, <2>3, <2>4, <2>5 DEF Counting
<1>4. CASE PollCounts(a) \/ ResultCounts(a)
  <2>1. PICK pc \in {"poll_job", "res_check"} :
          agent' = [agent EXCEPT ![a] = [agent[a] EXCEPT !.pc = pc]]
    BY <1>4 DEF PollCounts, ResultCounts
  <2>2. PICK k \in Jobs :
        /\ k = JobOf(agent[a].task) /\ UpdateJobTaskCounts(k)
        /\ UNCHANGED <<task, journal, progress, history>>
        /\ agent[a].pc \in {"poll_counts", "res_counts"}
    BY <1>0, <1>4, TaskKey DEF PollCounts, ResultCounts, AgentOK
  <2>3. Prompt'
    <3>1. [agent[a] EXCEPT !.pc = pc].at = 0
      BY <1>0 DEF AgentState
    <3>2. progress[a] = NoTask
      BY <1>0, <2>2 DEF PromptAt
    <3>3. QED
      BY <1>0, <2>1, <2>2, <3>1, <3>2, PromptFrame DEF Counting
  <2>4. Counted(k)' /\ \A j \in Jobs : Counted(j) => Counted(j)'
    BY <2>2, Refreshed
  <2>5. \A j \in Jobs \ {k} : Reporting(j) => Reporting(j)'
    BY <2>1, <2>2, ReportingFrame
  <2>6. QED
    BY <1>0, <1>1, <2>2, <2>3, <2>4, <2>5 DEF Counting, Exists
<1>5. CASE PollJob(a) \/ FinishScript(a) \/ CheckJobCompletion(a) \/ WriteVerdict(a)
  <2>1. /\ UNCHANGED <<task, journal, progress>>
        /\ history'.replayed = history.replayed
        /\ agent[a].pc \in {"poll_job", "res_check", "res_write"} \cup ScriptPcs
        /\ progress[a] = NoTask
    <3>1. UNCHANGED <<task, journal, progress>>
          /\ agent[a].pc \in {"poll_job", "res_check", "res_write"} \cup ScriptPcs
      BY <1>5 DEF PollJob, FinishScript, CheckJobCompletion, WriteVerdict
    <3>2. history'.replayed = history.replayed
      BY <1>5 DEF PollJob, FinishScript, CheckJobCompletion, WriteVerdict, TypeOK
    <3>3. CASE FinishScript(a)
      BY <3>1, <3>2, <3>3 DEF FinishScript, Undisturbed
    <3>4. CASE PollJob(a) \/ CheckJobCompletion(a) \/ WriteVerdict(a)
      BY <1>0, <3>1, <3>2, <3>4 DEF PollJob, CheckJobCompletion, WriteVerdict, PromptAt
    <3>5. QED
      BY <1>5, <3>3, <3>4
  <2>2. PICK s : agent' = [agent EXCEPT ![a] = s] /\ s.at = 0
    <3>1. /\ \A pc : [agent[a] EXCEPT !.pc = pc].at = 0
          /\ \A pc, ok : [agent[a] EXCEPT !.pc = pc, !.ok = ok].at = 0
          /\ \A pc, v : [agent[a] EXCEPT !.pc = pc, !.verdict = v].at = 0
      BY <1>0 DEF AgentState
    <3>2. CASE PollJob(a)
      BY <3>1, <3>2 DEF PollJob
    <3>3. CASE FinishScript(a)
      <4>1. PICK ok \in BOOLEAN :
              agent' = [agent EXCEPT ![a] = [agent[a] EXCEPT !.pc = "res_task", !.ok = ok]]
        BY <1>0, <3>3 DEF FinishScript
      <4>2. QED
        BY <3>1, <4>1
    <3>4. CASE CheckJobCompletion(a)
      <4>1. PICK pc, v :
              \/ agent' = [agent EXCEPT ![a] = [agent[a] EXCEPT !.pc = pc]]
              \/ agent' = [agent EXCEPT ![a] = [agent[a] EXCEPT !.pc = pc, !.verdict = v]]
        BY <3>4 DEF CheckJobCompletion
      <4>2. CASE agent' = [agent EXCEPT ![a] = [agent[a] EXCEPT !.pc = pc]]
        BY <3>1, <4>2
      <4>3. CASE agent' = [agent EXCEPT ![a] =
                             [agent[a] EXCEPT !.pc = pc, !.verdict = v]]
        BY <3>1, <4>3
      <4>4. QED
        BY <4>1, <4>2, <4>3
    <3>5. CASE WriteVerdict(a)
      <4>1. agent' = [agent EXCEPT ![a] = [agent[a] EXCEPT !.pc = "res_ack",
                                                           !.verdict = "none"]]
        BY <1>0, <3>5 DEF WriteVerdict
      <4>2. QED
        BY <3>1, <4>1
    <3>6. QED
      BY <1>5, <3>2, <3>3, <3>4, <3>5
  <2>3. \A j \in Jobs : job'[j].completed = job[j].completed /\ job'[j].failed = job[j].failed
    <3>1. CASE PollJob(a)
      BY <3>1 DEF PollJob, TypeOK, JobRow
    <3>2. CASE FinishScript(a) \/ CheckJobCompletion(a)
      BY <3>2 DEF FinishScript, CheckJobCompletion
    <3>3. CASE WriteVerdict(a)
      <4>1. JobOf(agent[a].task) \in Jobs
            /\ UpdateJobStatus(JobOf(agent[a].task), agent[a].verdict)
        BY <1>0, <3>3, TaskKey DEF WriteVerdict, AgentOK
      <4>2. QED
        BY <4>1, StatusKeeps
    <3>4. QED
      BY <1>5, <3>1, <3>2, <3>3
  <2>4. Prompt'
    BY <1>0, <2>1, <2>2, PromptFrame DEF Counting
  <2>5. \A j \in Jobs : Reporting(j) => Reporting(j)'
    BY <2>1, <2>2, ReportingFrame DEF ScriptPcs
  <2>6. \A j \in Jobs : Counted(j) => Counted(j)'
    BY <2>1, <2>3, StillCounted
  <2>7. QED
    BY <1>0, <1>1, <2>1, <2>4, <2>5, <2>6 DEF Counting, Exists
<1>6. CASE ProcessResult(a)
  <2>0. PICK t \in Tasks : t = agent[a].task
    BY <1>0, <1>6 DEF ProcessResult, AgentOK
  <2>1. /\ task' = [task EXCEPT ![t].status = ResultStatus(a)]
        /\ agent' = [agent EXCEPT ![a] = [agent[a] EXCEPT !.pc = "res_counts"]]
        /\ UNCHANGED <<job, journal, progress>>
        /\ history'.replayed = history.replayed
        /\ agent[a].pc = "res_task"
    <3>1. history'.replayed = history.replayed
      BY <1>0, <1>6 DEF ProcessResult, TypeOK
    <3>2. QED
      BY <1>6, <2>0, <3>1 DEF ProcessResult, UpdateTaskStatus
  <2>2. agent'[a].pc = "res_counts" /\ agent'[a].task = t
    BY <1>0, <2>0, <2>1 DEF AgentState
  <2>3. Prompt'
    <3>1. [agent[a] EXCEPT !.pc = "res_counts"].at = 0
      BY <1>0 DEF AgentState
    <3>2. progress[a] = NoTask
      BY <1>0, <2>1 DEF PromptAt
    <3>3. QED
      BY <1>0, <2>1, <3>1, <3>2, PromptFrame DEF Counting
  <2>4. Exists(t) /\ \A u \in Tasks \ {t} : task'[u] = task[u]
    <3>1. Holds(a, t)
      BY <1>0, <2>0, <2>1 DEF Holds
    <3>2. QED
      BY <1>0, <2>1, <3>1 DEF HoldInv, HoldersMarked, Exists
  <2>5. Rooted'
    BY <1>1, <2>4 DEF Exists
  <2>6. \A j \in Jobs \ {JobOf(t)} : Counted(j) => Counted(j)'
    BY <2>1, <2>4, StillCounted DEF TasksOf
  <2>7. \A j \in Jobs : Reporting(j) => Reporting(j)'
    BY <2>1, ReportingFrame
  <2>8. Reporting(JobOf(t))'
    BY <2>2 DEF Reporting
  <2>9. QED
    BY <1>0, <2>3, <2>5, <2>6, <2>7, <2>8 DEF Counting
<1>7. CASE SendProgress(a)
  <2>1. /\ agent' = [agent EXCEPT ![a] = [agent[a] EXCEPT !.pc = "progressed"]]
        /\ progress' = [progress EXCEPT ![a] = agent[a].task]
        /\ UNCHANGED <<job, task, journal, history>> /\ agent[a].pc = "started"
    BY <1>0, <1>7 DEF SendProgress
  <2>2. /\ agent'[a].pc = "progressed" /\ agent'[a].task = agent[a].task
        /\ agent'[a].at = 0 /\ progress'[a] = agent[a].task
        /\ \A b \in Agents \ {a} : agent'[b] = agent[b] /\ progress'[b] = progress[b]
    BY <1>0, <2>1 DEF AgentState, TypeOK
  <2>3. Prompt'
    BY <1>0, <2>1, <2>2 DEF Counting, Prompt, PromptAt
  <2>4. \A j \in Jobs : Reporting(j) => Reporting(j)'
    BY <2>1, ReportingFrame
  <2>5. QED
    BY <1>0, <1>1, <2>1, <2>3, <2>4 DEF Counting, Counted, Count, Exists
<1>8. CASE ReportProgress(a) \/ DropProgress(a)
  <2>1. /\ UNCHANGED <<job, agent, journal, history>>
        /\ progress' = [progress EXCEPT ![a] = NoTask]
        /\ progress[a] \in Tasks
        /\ task' \in {task, [task EXCEPT ![progress[a]].status = "running"]}
    BY <1>8 DEF ReportProgress, DropProgress, UpdateTaskStatus, TypeOK
  <2>2. PICK t \in Tasks : t = progress[a]
    BY <2>1
  <2>3. Holds(a, t)
    <3>1. agent[a].pc = "progressed" /\ agent[a].task = t
      BY <1>0, <1>8, <2>2 DEF PromptAt, ReportProgress, DropProgress
    <3>2. QED
      BY <1>0, <3>1 DEF Holds, ScriptPcs
  <2>4. task[t].status \in {"assigned", "running", "cancelled"}
    BY <1>0, <2>3 DEF HoldInv, HoldersMarked
  <2>5. \A u \in Tasks : /\ Exists(u)' => Exists(u)
                         /\ \A s \in {"completed", "failed"} :
                              task'[u].status = s <=> task[u].status = s
    BY <1>0, <2>1, <2>2, <2>4 DEF Exists, TaskRow
  <2>6. \A j \in Jobs : Counted(j) => Counted(j)'
    BY <2>1, <2>5, StillCounted DEF TasksOf
  <2>7. Prompt'
    <3>1. progress'[a] = NoTask /\ \A b \in Agents \ {a} : progress'[b] = progress[b]
      BY <2>1 DEF TypeOK
    <3>2. QED
      BY <1>0, <2>1, <3>1 DEF Counting, Prompt, PromptAt
  <2>8. \A j \in Jobs : Reporting(j) => Reporting(j)'
    BY <2>1 DEF Reporting
  <2>9. QED
    BY <1>0, <1>1, <2>5, <2>6, <2>7, <2>8 DEF Counting
<1>9. QED
  BY <1>2, <1>3, <1>4, <1>5, <1>6, <1>7, <1>8 DEF AgentStep, ProgressStep

LEMMA CountStep ==
  TypeOK /\ HoldInv /\ ListOK /\ CountInv /\ [Next]_vars => CountInv'
<1> SUFFICES ASSUME TypeOK, HoldInv, ListOK, CountInv, [Next]_vars, Undisturbed'
             PROVE  Counting'
  BY DEF CountInv
<1>1. Undisturbed
  <2>1. CASE Environment
    BY <2>1, CutsCount
  <2>2. CASE UNCHANGED spent
    BY <2>2 DEF Undisturbed, Uncut
  <2>3. ASSUME EngineStep PROVE UNCHANGED spent
    BY <2>3 DEF EngineStep, EngineTick, EngineNextJob, EngineTickDone, EngineCreateTask,
                EngineCreateConflict, EngineRenderFails, EngineSetScriptDir,
                EngineCounts, EngineRequeue, EngineFailJob
  <2>4. ASSUME NEW a \in Agents, AgentStep(a) \/ ProgressStep(a) PROVE UNCHANGED spent
    BY <2>4, AgentEffects
  <2>5. ASSUME NEW j \in Jobs, ApiStep(j) PROVE UNCHANGED spent
    BY <2>5 DEF ApiStep, CancelStatus, CancelPendingTasks, RetryFailedTasks, RetryStatus
  <2>6. QED
    BY <2>1, <2>2, <2>3, <2>4, <2>5 DEF Next, vars
<1>2. Counting
  BY <1>1 DEF CountInv
<1>3. CASE UNCHANGED vars
  BY <1>2, <1>3, CountFrame DEF vars, Exists, Created, Counted, Count
<1>4. QED
  BY <1>1, <1>2, <1>3, CountEngine, CountAgent, CountApi, CountEnvironment DEF Next

\* For any number of jobs, chunks, agents and cancels: unless a call was cut, an
\* agent crashed, a retry was made or a progress update lagged, the counters of
\* completed and failed tasks are right but for a report that is about to
\* refresh them.
THEOREM ResultsAreCountedHolds == Spec => []ResultsAreCounted
<1>1. Init => TypeOK /\ HoldInv /\ ExpandInv /\ CountInv
  BY TypeInit, HoldInit, ExpandInit, CountInit
<1>2. TypeOK /\ HoldInv /\ ExpandInv /\ CountInv /\ [Next]_vars
        => (TypeOK /\ HoldInv /\ ExpandInv /\ CountInv)'
  BY TypeStep, HoldStep, ExpandStep, CountStep DEF ExpandInv
<1>3. CountInv => ResultsAreCounted
  BY DEF CountInv, Counting, Counted, Reporting, ResultsAreCounted
<1>4. QED
  BY <1>1, <1>2, <1>3, PTL DEF Spec

--------------------------------------------------------------------------------
(* JobDispatch implements TaskPromise                                      *)

\* What the mapping needs besides HoldInv and SuccessesProduced: an agent that
\* polls or runs a script is not on a sync stream, and a completed row that was
\* never replayed is a stored success.
MapInv ==
  /\ \A a \in Agents : agent[a].pc \in PollPcs \cup ScriptPcs => agent[a].at = 0
  /\ \A t \in Tasks \ history.replayed :
       task[t].status = "completed" => t \in history.completed

Inv == TypeOK /\ HoldInv /\ SuccessesProduced /\ MapInv

--------------------------------------------------------------------------------
(* MapInv is inductive                                                     *)

\* A step that completes no row and moves no agent to a poll or a script.
LEMMA MapFrame ==
  ASSUME MapInv,
         history'.completed = history.completed,
         history'.replayed = history.replayed,
         \A t \in Tasks : task'[t].status = "completed"
                            => task[t].status = "completed",
         \A a \in Agents : \/ agent'[a].pc \notin PollPcs \cup ScriptPcs
                           \/ agent'[a].at = 0
                           \/ /\ agent[a].pc \in PollPcs \cup ScriptPcs
                              /\ agent'[a].at = agent[a].at
  PROVE  MapInv'
BY DEF MapInv

LEMMA MapInit == Init => MapInv
BY DEF Init, NewTask, AgentAt, MapInv

LEMMA MapEngine ==
  ASSUME TypeOK, MapInv, EngineStep
  PROVE  MapInv'
<1>1. UNCHANGED agent
  BY DEF EngineStep, EngineTick, EngineNextJob, EngineTickDone, EngineCreateTask,
         EngineCreateConflict, EngineRenderFails, EngineSetScriptDir,
         EngineCounts, EngineRequeue, EngineFailJob
<1>2. /\ history'.completed = history.completed
      /\ history'.replayed = history.replayed
  BY DEF TypeOK, EngineStep, EngineTick, EngineNextJob, EngineTickDone,
         EngineCreateTask, EngineCreateConflict, EngineRenderFails,
         EngineSetScriptDir, EngineCounts, EngineRequeue, EngineFailJob
<1>3. \A t \in Tasks : task'[t].status = "completed" => task[t].status = "completed"
  <2>1. CASE EngineCreateTask
    BY <2>1 DEF TypeOK, EngineCreateTask, NewTask
  <2>2. CASE EngineSetScriptDir
    BY <2>2 DEF TypeOK, TaskRow, EngineSetScriptDir
  <2>3. CASE UNCHANGED task
    BY <2>3
  <2> QED BY <2>1, <2>2, <2>3
          DEF EngineStep, EngineTick, EngineNextJob, EngineTickDone,
              EngineCreateConflict, EngineRenderFails, EngineCounts,
              EngineRequeue, EngineFailJob
<1> QED BY <1>1, <1>2, <1>3, MapFrame DEF MapInv

LEMMA MapAgent ==
  ASSUME TypeOK, MapInv, NEW a \in Agents, AgentStep(a) \/ ProgressStep(a)
  PROVE  MapInv'
<1>0. /\ agent \in [Agents -> AgentState]
      /\ agent[a] \in AgentState
      /\ task \in [Tasks -> TaskRow]
  BY DEF TypeOK
<1>1. ASSUME NEW s, agent' = [agent EXCEPT ![a] = s],
             \/ s.pc \notin PollPcs \cup ScriptPcs
             \/ s.at = 0
             \/ s.at = agent[a].at /\ agent[a].pc \in PollPcs \cup ScriptPcs
      PROVE  \A b \in Agents : \/ agent'[b].pc \notin PollPcs \cup ScriptPcs
                               \/ agent'[b].at = 0
                               \/ /\ agent[b].pc \in PollPcs \cup ScriptPcs
                                  /\ agent'[b].at = agent[b].at
  BY <1>0, <1>1 DEF MapInv
<1>2. CASE ClaimNextTask(a)
  <2>1. PICK t \in Tasks :
          /\ task' = [task EXCEPT ![t].status = "assigned", ![t].agent = a]
          /\ agent' = [agent EXCEPT ![a] = [AgentAt("poll_counts") EXCEPT
                                       !.task = t, !.scripts = task[t].scripts]]
          /\ UNCHANGED history
    BY <1>2 DEF ClaimNextTask, Claimable
  <2>2. \A u \in Tasks : task'[u].status = "completed" => task[u].status = "completed"
    BY <1>0, <2>1 DEF TaskRow
  <2>3. [AgentAt("poll_counts") EXCEPT !.task = t, !.scripts = task[t].scripts].at = 0
    BY DEF AgentAt
  <2> QED BY <1>1, <2>1, <2>2, <2>3, MapFrame
<1>3. CASE ReportProgress(a) \/ DropProgress(a)
  <2>1. \A u \in Tasks : task'[u].status = "completed" => task[u].status = "completed"
    BY <1>0, <1>3 DEF TypeOK, ReportProgress, DropProgress, UpdateTaskStatus, TaskRow
  <2>2. UNCHANGED <<agent, history>>
    BY <1>3 DEF ReportProgress, DropProgress
  <2> QED BY <2>1, <2>2, MapFrame DEF MapInv
<1>4. CASE PollCounts(a) \/ PollJob(a) \/ SendProgress(a)
  <2>1. PICK pc : agent' = [agent EXCEPT ![a].pc = pc]
    BY <1>4 DEF PollCounts, PollJob, SendProgress
  <2>2. /\ UNCHANGED <<task, history>>
        /\ agent[a].pc \in PollPcs \cup ScriptPcs
    BY <1>4 DEF PollCounts, PollJob, SendProgress, PollPcs, ScriptPcs
  <2>3. [agent[a] EXCEPT !.pc = pc].at = agent[a].at
    BY <1>0 DEF AgentState
  <2> QED BY <1>1, <2>1, <2>2, <2>3, MapFrame
<1>5. CASE FinishScript(a)
  <2>1. PICK ok \in BOOLEAN :
          agent' = [agent EXCEPT ![a] = [agent[a] EXCEPT !.pc = "res_task", !.ok = ok]]
    BY <1>5 DEF FinishScript
  <2>2. /\ UNCHANGED task
        /\ history'.completed = history.completed
        /\ history'.replayed = history.replayed
        /\ agent[a].pc \in PollPcs \cup ScriptPcs
    BY <1>5 DEF TypeOK, FinishScript
  <2>3. [agent[a] EXCEPT !.pc = "res_task", !.ok = ok].at = agent[a].at
    BY <1>0 DEF AgentState
  <2> QED BY <1>1, <2>1, <2>2, <2>3, MapFrame
<1>6. CASE ProcessResult(a)
  <2>1. PICK t \in Tasks :
        /\ t = agent[a].task
        /\ task' = [task EXCEPT ![t].status = ResultStatus(a)]
        /\ agent' = [agent EXCEPT ![a].pc = "res_counts"]
        /\ history'.completed = IF agent[a].ok THEN history.completed \cup {t}
                                               ELSE history.completed
        /\ history'.replayed = IF agent[a].at > 0 THEN history.replayed \cup {t}
                                                  ELSE history.replayed
    BY <1>6 DEF TypeOK, AgentOK, ProcessResult, UpdateTaskStatus
  <2>2. /\ \A b \in Agents \ {a} : agent'[b] = agent[b]
        /\ agent'[a].pc = "res_counts"
    BY <1>0, <2>1 DEF AgentState
  <2>3. \A u \in Tasks : task'[u].status = "completed"
                           => task[u].status = "completed" \/ u \in history'.completed
    BY <1>0, <2>1 DEF ResultStatus, TaskRow
  <2>4. /\ history.completed \subseteq history'.completed
        /\ history.replayed \subseteq history'.replayed
    BY <2>1
  <2> QED BY <2>2, <2>3, <2>4 DEF MapInv, PollPcs, ScriptPcs
<1>7. CASE \/ StartAgent(a) \/ ResultCounts(a) \/ CheckJobCompletion(a)
           \/ WriteVerdict(a) \/ ResultAcked(a)
  <2>1. UNCHANGED <<task, history>>
    BY <1>7 DEF StartAgent, ResultCounts, CheckJobCompletion, WriteVerdict, ResultAcked
  <2>2. /\ \A b \in Agents \ {a} : agent'[b] = agent[b]
        /\ agent'[a].pc \notin PollPcs \cup ScriptPcs
    <3>1. CASE StartAgent(a)
      BY <1>0, <3>1 DEF StartAgent, Replay, AgentAt, PollPcs, ScriptPcs
    <3>2. CASE ResultCounts(a) \/ WriteVerdict(a)
      BY <1>0, <3>2 DEF ResultCounts, WriteVerdict, AgentState, PollPcs, ScriptPcs
    <3>3. CASE CheckJobCompletion(a)
      BY <1>0, <3>3 DEF CheckJobCompletion, AgentState, PollPcs, ScriptPcs
    <3>4. CASE ResultAcked(a)
      <4>1. agent' \in {[agent EXCEPT ![a] = Replay(a, agent[a].at + 1)],
                        [agent EXCEPT ![a] = AgentAt("idle")]}
        BY <3>4 DEF ResultAcked
      <4>2. /\ AgentAt("idle").pc = "idle"
            /\ Replay(a, agent[a].at + 1).pc = "res_task"
        BY DEF AgentAt, Replay
      <4> QED BY <1>0, <4>1, <4>2 DEF PollPcs, ScriptPcs
    <3> QED BY <1>7, <3>1, <3>2, <3>3, <3>4
  <2> QED BY <2>1, <2>2, MapFrame DEF MapInv
<1> QED BY <1>2, <1>3, <1>4, <1>5, <1>6, <1>7 DEF AgentStep, ProgressStep

LEMMA MapApi ==
  ASSUME TypeOK, MapInv, NEW j \in Jobs, ApiStep(j)
  PROVE  MapInv'
<1>1. UNCHANGED <<agent, history>>
  BY DEF ApiStep, CancelStatus, CancelPendingTasks, RetryFailedTasks, RetryStatus
<1>2. \A t \in Tasks : task'[t].status = "completed" => task[t].status = "completed"
  <2>1. CASE CancelPendingTasks(j)
    BY <2>1 DEF TypeOK, TaskRow, CancelPendingTasks
  <2>2. CASE RetryFailedTasks(j)
    BY <2>2 DEF TypeOK, TaskRow, RetryFailedTasks
  <2>3. CASE UNCHANGED task
    BY <2>3
  <2> QED BY <2>1, <2>2, <2>3 DEF ApiStep, CancelStatus, RetryStatus
<1> QED BY <1>1, <1>2, MapFrame DEF MapInv

LEMMA MapEnvironment ==
  ASSUME TypeOK, MapInv, Environment
  PROVE  MapInv'
<1>0. agent \in [Agents -> AgentState]
  BY DEF TypeOK
<1>1. UNCHANGED <<task, history>>
  BY DEF Environment, CreateJob, CancelRead, RetryRead, LoseRequest, LoseCall,
         CrashAgent, CrashController
<1>2. ASSUME \A a \in Agents : \/ agent'[a] = agent[a]
                               \/ agent'[a].pc \in {"idle", "down"}
      PROVE  MapInv'
  BY <1>1, <1>2, MapFrame DEF MapInv, PollPcs, ScriptPcs
<1>3. ASSUME NEW j \in Jobs,
             CreateJob(j) \/ CancelRead(j) \/ RetryRead(j) \/ LoseRequest(j)
      PROVE  MapInv'
  BY <1>2, <1>3 DEF CreateJob, CancelRead, RetryRead, LoseRequest
<1>4. ASSUME NEW a \in Agents, LoseCall(a) PROVE MapInv'
  BY <1>0, <1>2, <1>4 DEF LoseCall, AgentAfterLoss, AgentAt
<1>5. ASSUME NEW a \in Agents, CrashAgent(a) PROVE MapInv'
  BY <1>0, <1>2, <1>5 DEF CrashAgent, AgentAt
<1>6. CASE CrashController
  BY <1>0, <1>2, <1>6 DEF CrashController, AgentAfterLoss, AgentAt
<1> QED BY <1>3, <1>4, <1>5, <1>6 DEF Environment

LEMMA InvInit == Init => Inv
BY TypeInit, HoldInit, ProducedInit, MapInit DEF Inv

\* Inv is inductive.
LEMMA InvStep == Inv /\ [Next]_vars => Inv'
<1> SUFFICES ASSUME Inv, [Next]_vars PROVE Inv'
  OBVIOUS
<1>1. (TypeOK /\ HoldInv /\ SuccessesProduced)'
  BY TypeStep, HoldStep, ProducedStep DEF Inv
<1>2. MapInv'
  <2>1. ASSUME NEW a \in Agents, AgentStep(a) \/ ProgressStep(a) PROVE MapInv'
    BY <2>1, MapAgent DEF Inv
  <2>2. ASSUME NEW j \in Jobs, ApiStep(j) PROVE MapInv'
    BY <2>2, MapApi DEF Inv
  <2>3. CASE UNCHANGED vars
    BY <2>3, MapFrame DEF vars, Inv, MapInv
  <2> QED BY <2>1, <2>2, <2>3, MapEngine, MapEnvironment DEF Inv, Next
<1> QED BY <1>1, <1>2 DEF Inv

--------------------------------------------------------------------------------
(* One task in one step                                                    *)

\* A task that was never replayed has at most one holder.
LEMMA OneHolder ==
  ASSUME Inv, NEW t \in Tasks \ history.replayed, NEW a \in Agents, Holds(a, t)
  PROVE  /\ HoldersOf(t) = {a}
         /\ OutcomeOf(t) = "held"
         /\ task[t].status \in {"assigned", "running", "cancelled"}
         /\ t \notin history.completed
BY DEF Inv, HoldInv, HoldersMarked, CompletedNotRerun, HoldersOf, OutcomeOf

\* A replayed task may do anything that leaves it replayed.
LEMMA ReplayedStep ==
  ASSUME NEW t \in Tasks, t \in history'.replayed
  PROVE  Promise!TaskStep(t)
<1>1. OutcomeOf(t)' = "disputed"
  BY DEF OutcomeOf
<1> QED BY <1>1 DEF Promise!TaskStep, Promise!Replayed

\* A step that writes the task's row only.
LEMMA RowStep ==
  ASSUME Inv, NEW t \in Tasks, HoldersOf(t)' = HoldersOf(t),
         history'.completed = history.completed,
         history'.replayed = history.replayed,
         \/ task'[t].status = task[t].status
         \/ task[t].status = "none" /\ task'[t].status = "pending"
         \/ task[t].status \in {"pending", "assigned"} /\ task'[t].status = "cancelled"
         \/ task[t].status = "failed" /\ task'[t].status = "pending"
         \/ task'[t].status = "running"
  PROVE  Promise!TaskStep(t)
<1>1. CASE t \in history'.replayed
  BY <1>1, ReplayedStep
<1>2. CASE t \notin history'.replayed /\ OutcomeOf(t)' = OutcomeOf(t)
  BY <1>2 DEF Promise!TaskStep, Promise!Becomes, OutcomeOf
<1>3. CASE t \notin history'.replayed /\ OutcomeOf(t)' # OutcomeOf(t)
  <2>1. /\ t \in Tasks \ history.replayed
        /\ HoldersOf(t) = {} /\ HoldersOf(t)' = {}
    BY <1>3 DEF OutcomeOf
  <2>2. /\ task[t].status = "completed" => t \in history.completed
        /\ t \in history.completed => task[t].status \in {"completed", "running"}
    BY <2>1 DEF Inv, MapInv, HoldInv, CompletedNotRerun
  <2>3. task[t].status \in TaskStatus
    BY DEF Inv, TypeOK, TaskRow
  <2>4. \/ OutcomeOf(t) \in {"open", "stranded"} /\ OutcomeOf(t)' = "cancelled"
        \/ OutcomeOf(t) = "failed" /\ OutcomeOf(t)' = "open"
        \/ OutcomeOf(t) \in {"open", "failed", "cancelled"} /\ OutcomeOf(t)' = "stranded"
    BY <1>3, <2>1, <2>2, <2>3 DEF OutcomeOf, TaskStatus
  <2> QED BY <2>1, <2>4 DEF Promise!TaskStep, Promise!Cancel, Promise!Retry,
                            Promise!LateProgress, Promise!Becomes
<1> QED BY <1>1, <1>2, <1>3

\* A step after which some holders are gone.
LEMMA LossStep ==
  ASSUME Inv, NEW t \in Tasks, HoldersOf(t)' \subseteq HoldersOf(t),
         UNCHANGED <<task, history>>
  PROVE  Promise!TaskStep(t)
<1>1. CASE HoldersOf(t)' = HoldersOf(t)
  BY <1>1, RowStep
<1>2. CASE t \in history.replayed
  BY <1>2, ReplayedStep
<1>3. CASE HoldersOf(t)' # HoldersOf(t) /\ t \notin history.replayed
  <2>1. PICK a \in Agents : Holds(a, t)
    BY <1>3 DEF HoldersOf
  <2>2. /\ HoldersOf(t) = {a}
        /\ OutcomeOf(t) = "held"
        /\ task[t].status \in {"assigned", "running", "cancelled"}
        /\ t \notin history.completed
    BY <1>3, <2>1, OneHolder
  <2>3. HoldersOf(t)' = {}
    BY <1>3, <2>2
  <2>4. OutcomeOf(t)' \in {"stranded", "cancelled"}
    BY <1>3, <2>2, <2>3 DEF OutcomeOf
  <2> QED BY <2>2, <2>3, <2>4 DEF Promise!TaskStep, Promise!GiveUp, Promise!Becomes
<1> QED BY <1>1, <1>2, <1>3

\* The mapped step, from its tasks and from who produced what.
LEMMA MappedStep ==
  ASSUME history.replayed \subseteq history'.replayed,
         \A t \in Tasks : Promise!TaskStep(t),
         history.produced \subseteq history'.produced,
         history'.produced \subseteq Tasks,
         \A t \in history'.produced \ history.produced :
           t \in history.replayed \/ HoldersOf(t) # {}
  PROVE  Promise!PromiseNext
<1>1. \A t \in Tasks : /\ HoldersOf(t)' \in SUBSET Agents
                       /\ OutcomeOf(t)' \in Promise!Outcomes
  BY DEF HoldersOf, OutcomeOf, Promise!Outcomes
<1>2. \A t \in Tasks : OutcomeOf(t) = "disputed" => OutcomeOf(t)' = "disputed"
  <2>1. ASSUME NEW t \in Tasks, OutcomeOf(t) = "disputed" PROVE t \in history.replayed
    BY <2>1 DEF OutcomeOf
  <2> QED BY <2>1 DEF OutcomeOf
<1>3. \A t \in history'.produced \ history.produced :
        OutcomeOf(t) \in {"held", "disputed"}
  BY DEF OutcomeOf
<1> QED BY <1>1, <1>2, <1>3 DEF Promise!PromiseNext

--------------------------------------------------------------------------------
(* Every step is mapped to a step                                          *)

\* The holders change only where Holds does.
LEMMA SameHolders ==
  ASSUME NEW t, \A a \in Agents : Holds(a, t)' <=> Holds(a, t)
  PROVE  HoldersOf(t)' = HoldersOf(t)
BY DEF HoldersOf

\* A step of the loop, of a request or of a progress update.
LEMMA RowsStep ==
  ASSUME Inv, UNCHANGED agent,
         history'.completed = history.completed,
         history'.replayed = history.replayed,
         history'.produced = history.produced,
         \A t \in Tasks :
           \/ task'[t].status = task[t].status
           \/ task[t].status = "none" /\ task'[t].status = "pending"
           \/ task[t].status \in {"pending", "assigned"}
              /\ task'[t].status = "cancelled"
           \/ task[t].status = "failed" /\ task'[t].status = "pending"
           \/ task'[t].status = "running"
  PROVE  Promise!PromiseNext
<1>1. \A t \in Tasks : HoldersOf(t)' = HoldersOf(t)
  BY SameHolds, SameHolders
<1>2. \A t \in Tasks : Promise!TaskStep(t)
  BY <1>1, RowStep
<1>3. history.produced \subseteq Tasks
  BY DEF Inv, TypeOK
<1> QED BY <1>2, <1>3, MappedStep

\* A step that moves agents only, and gives none of them a task.
LEMMA AgentsStep ==
  ASSUME Inv, UNCHANGED <<task, history>>,
         \A a \in Agents, t \in Tasks : Holds(a, t)' => Holds(a, t)
  PROVE  Promise!PromiseNext
<1>1. \A t \in Tasks : HoldersOf(t)' \subseteq HoldersOf(t)
  BY DEF HoldersOf
<1>2. \A t \in Tasks : Promise!TaskStep(t)
  BY <1>1, LossStep
<1>3. history.produced \subseteq Tasks
  BY DEF Inv, TypeOK
<1> QED BY <1>2, <1>3, MappedStep

LEMMA RefineEngine ==
  ASSUME Inv, EngineStep
  PROVE  Promise!PromiseNext
<1>1. UNCHANGED agent
  BY DEF EngineStep, EngineTick, EngineNextJob, EngineTickDone, EngineCreateTask,
         EngineCreateConflict, EngineRenderFails, EngineSetScriptDir,
         EngineCounts, EngineRequeue, EngineFailJob
<1>2. /\ history'.completed = history.completed
      /\ history'.replayed = history.replayed
      /\ history'.produced = history.produced
  BY DEF Inv, TypeOK, EngineStep, EngineTick, EngineNextJob, EngineTickDone,
         EngineCreateTask, EngineCreateConflict, EngineRenderFails,
         EngineSetScriptDir, EngineCounts, EngineRequeue, EngineFailJob
<1>3. \A t \in Tasks : \/ task'[t].status = task[t].status
                       \/ task[t].status = "none" /\ task'[t].status = "pending"
  <2>1. CASE EngineCreateTask
    BY <2>1 DEF Inv, TypeOK, EngineCreateTask, NewTask
  <2>2. CASE EngineSetScriptDir
    BY <2>2 DEF Inv, TypeOK, TaskRow, EngineSetScriptDir
  <2>3. CASE UNCHANGED task
    BY <2>3
  <2> QED BY <2>1, <2>2, <2>3
          DEF EngineStep, EngineTick, EngineNextJob, EngineTickDone,
              EngineCreateConflict, EngineRenderFails, EngineCounts,
              EngineRequeue, EngineFailJob
<1> QED BY <1>1, <1>2, <1>3, RowsStep

LEMMA RefineApi ==
  ASSUME Inv, NEW j \in Jobs, ApiStep(j)
  PROVE  Promise!PromiseNext
<1>1. UNCHANGED <<agent, history>>
  BY DEF ApiStep, CancelStatus, CancelPendingTasks, RetryFailedTasks, RetryStatus
<1>2. \A t \in Tasks :
        \/ task'[t].status = task[t].status
        \/ task[t].status \in {"pending", "assigned"} /\ task'[t].status = "cancelled"
        \/ task[t].status = "failed" /\ task'[t].status = "pending"
  <2>1. CASE CancelPendingTasks(j)
    BY <2>1 DEF Inv, TypeOK, TaskRow, CancelPendingTasks, Cancellable
  <2>2. CASE RetryFailedTasks(j)
    BY <2>2 DEF Inv, TypeOK, TaskRow, RetryFailedTasks, Retryable
  <2>3. CASE UNCHANGED task
    BY <2>3
  <2> QED BY <2>1, <2>2, <2>3 DEF ApiStep, CancelStatus, RetryStatus
<1> QED BY <1>1, <1>2, RowsStep

LEMMA RefineEnvironment ==
  ASSUME Inv, Environment
  PROVE  Promise!PromiseNext
<1>0. agent \in [Agents -> AgentState]
  BY DEF Inv, TypeOK
<1>1. UNCHANGED <<task, history>>
  BY DEF Environment, CreateJob, CancelRead, RetryRead, LoseRequest, LoseCall,
         CrashAgent, CrashController
<1>2. ASSUME \A a \in Agents : \/ agent'[a] = agent[a]
                               \/ agent'[a].pc \in {"idle", "down"}
      PROVE  Promise!PromiseNext
  <2>1. \A a \in Agents, t \in Tasks : Holds(a, t)' => Holds(a, t)
    BY <1>2 DEF Holds, PollPcs, ScriptPcs
  <2> QED BY <1>1, <2>1, AgentsStep
<1>3. ASSUME NEW j \in Jobs,
             CreateJob(j) \/ CancelRead(j) \/ RetryRead(j) \/ LoseRequest(j)
      PROVE  Promise!PromiseNext
  BY <1>2, <1>3 DEF CreateJob, CancelRead, RetryRead, LoseRequest
<1>4. ASSUME NEW a \in Agents, LoseCall(a) PROVE Promise!PromiseNext
  BY <1>0, <1>2, <1>4 DEF LoseCall, AgentAfterLoss, AgentAt
<1>5. ASSUME NEW a \in Agents, CrashAgent(a) PROVE Promise!PromiseNext
  BY <1>0, <1>2, <1>5 DEF CrashAgent, AgentAt
<1>6. CASE CrashController
  BY <1>0, <1>2, <1>6 DEF CrashController, AgentAfterLoss, AgentAt
<1> QED BY <1>3, <1>4, <1>5, <1>6 DEF Environment

LEMMA RefineAgent ==
  ASSUME Inv, NEW a \in Agents, AgentStep(a) \/ ProgressStep(a)
  PROVE  Promise!PromiseNext
<1>0. /\ agent \in [Agents -> AgentState]
      /\ agent[a] \in AgentState
      /\ task \in [Tasks -> TaskRow]
      /\ history.produced \subseteq Tasks
  BY DEF Inv, TypeOK
<1>1. CASE ClaimNextTask(a)
  <2>1. PICK t \in Tasks :
          /\ task[t].status = "pending"
          /\ task' = [task EXCEPT ![t].status = "assigned", ![t].agent = a]
          /\ agent' = [agent EXCEPT ![a] = [AgentAt("poll_counts") EXCEPT
                                       !.task = t, !.scripts = task[t].scripts]]
          /\ UNCHANGED history
    BY <1>1 DEF ClaimNextTask, Claimable
  <2>2. /\ agent'[a].task = t /\ agent'[a].at = 0 /\ agent'[a].pc \in PollPcs
        /\ \A b \in Agents \ {a} : agent'[b] = agent[b]
    BY <1>0, <2>1 DEF AgentAt, PollPcs
  <2>3. \A u \in Tasks : ~Holds(a, u)
    BY <1>1 DEF ClaimNextTask, Holds, PollPcs, ScriptPcs
  <2>4. \A u \in Tasks : a \notin HoldersOf(u)
    BY <2>3 DEF HoldersOf
  <2>5. ASSUME NEW u \in Tasks, u # t PROVE Promise!TaskStep(u)
    <3>1. \A b \in Agents : Holds(b, u)' <=> Holds(b, u)
      BY <2>2, <2>3, <2>5 DEF Holds
    <3>2. task'[u].status = task[u].status
      BY <1>0, <2>1, <2>5
    <3> QED BY <2>1, <3>1, <3>2, SameHolders, RowStep
  <2>6. ASSUME t \notin history.replayed PROVE Promise!TaskStep(t)
    <3>1. HoldersOf(t) = {}
      BY <2>1, <2>6, OneHolder DEF HoldersOf
    <3>2. OutcomeOf(t) = "open"
      BY <2>1, <2>6, <3>1 DEF OutcomeOf
    <3>3. HoldersOf(t)' = {a}
      <4>1. \A b \in Agents : Holds(b, t)' <=> b = a
        BY <2>2, <3>1 DEF Holds, HoldersOf
      <4> QED BY <4>1 DEF HoldersOf
    <3>4. OutcomeOf(t)' = "held"
      BY <2>1, <2>6, <3>3 DEF OutcomeOf
    <3> QED BY <2>4, <3>2, <3>3, <3>4
            DEF Promise!TaskStep, Promise!Claim, Promise!Becomes
  <2>7. \A u \in Tasks : Promise!TaskStep(u)
    BY <2>1, <2>5, <2>6, ReplayedStep
  <2> QED BY <1>0, <2>1, <2>7, MappedStep
<1>2. CASE ProcessResult(a)
  <2>1. PICK t \in Tasks :
        /\ t = agent[a].task
        /\ task' = [task EXCEPT ![t].status = ResultStatus(a)]
        /\ agent' = [agent EXCEPT ![a].pc = "res_counts"]
        /\ history'.completed = IF agent[a].ok THEN history.completed \cup {t}
                                               ELSE history.completed
        /\ history'.replayed = IF agent[a].at > 0 THEN history.replayed \cup {t}
                                                  ELSE history.replayed
    BY <1>2 DEF Inv, TypeOK, AgentOK, ProcessResult, UpdateTaskStatus
  <2>2. history'.produced = history.produced
    BY <1>2 DEF Inv, TypeOK, ProcessResult
  <2>3. /\ agent'[a].pc = "res_counts"
        /\ \A b \in Agents \ {a} : agent'[b] = agent[b]
    BY <1>0, <2>1 DEF AgentState
  <2>4. ASSUME NEW u \in Tasks, u # t PROVE Promise!TaskStep(u)
    <3>1. \A b \in Agents : Holds(b, u)' <=> Holds(b, u)
      BY <2>1, <2>3, <2>4 DEF Holds, PollPcs, ScriptPcs
    <3>2. task'[u].status = task[u].status
      BY <1>0, <2>1, <2>4
    <3>3. HoldersOf(u)' = HoldersOf(u)
      BY <3>1, SameHolders
    <3>4. CASE u \in history'.replayed
      BY <3>4, ReplayedStep
    <3>5. CASE u \notin history'.replayed
      <4>1. OutcomeOf(u)' = OutcomeOf(u) /\ OutcomeOf(u) # "disputed"
        BY <2>1, <2>4, <3>2, <3>3, <3>5 DEF OutcomeOf
      <4> QED BY <3>3, <4>1 DEF Promise!TaskStep, Promise!Becomes
    <3> QED BY <3>4, <3>5
  <2>5. ASSUME t \notin history'.replayed PROVE Promise!TaskStep(t)
    <3>1. agent[a].at = 0 /\ t \notin history.replayed
      BY <1>0, <2>1, <2>5 DEF AgentState
    <3>2. Holds(a, t)
      BY <1>2, <2>1, <3>1 DEF ProcessResult, Holds
    <3>3. HoldersOf(t) = {a} /\ OutcomeOf(t) = "held" /\ t \notin history.completed
      BY <3>1, <3>2, OneHolder
    <3>4. \A b \in Agents : ~Holds(b, t)'
      BY <2>3, <3>3 DEF Holds, HoldersOf, PollPcs, ScriptPcs
    <3>5. HoldersOf(t)' = {}
      BY <3>4 DEF HoldersOf
    <3>6. task'[t].status = ResultStatus(a)
      BY <1>0, <2>1 DEF TaskRow
    <3>7. CASE agent[a].ok
      <4>1. OutcomeOf(t)' = "done"
        BY <2>5, <3>5, <3>6, <3>7 DEF OutcomeOf, ResultStatus
      <4>2. t \in history.produced
        BY <2>1, <3>7 DEF Inv, SuccessesProduced
      <4> QED BY <3>3, <3>5, <4>1, <4>2
              DEF Promise!TaskStep, Promise!Report, Promise!Becomes
    <3>8. CASE ~agent[a].ok
      <4>1. OutcomeOf(t)' = "failed"
        BY <2>5, <3>5, <3>6, <3>8 DEF OutcomeOf, ResultStatus
      <4> QED BY <3>3, <3>5, <4>1
              DEF Promise!TaskStep, Promise!Report, Promise!Becomes
    <3> QED BY <3>7, <3>8
  <2>6. \A u \in Tasks : Promise!TaskStep(u)
    BY <2>4, <2>5, ReplayedStep
  <2>7. history.replayed \subseteq history'.replayed
    BY <2>1
  <2> QED BY <1>0, <2>2, <2>6, <2>7, MappedStep
<1>3. CASE FinishScript(a)
  <2>1. PICK ok \in BOOLEAN :
          /\ agent' = [agent EXCEPT ![a] = [agent[a] EXCEPT !.pc = "res_task", !.ok = ok]]
          /\ history' = IF ok
                        THEN [history EXCEPT !.produced = @ \cup {agent[a].task}]
                        ELSE history
          /\ UNCHANGED task
    BY <1>3 DEF FinishScript
  <2>2. /\ agent[a].pc \in ScriptPcs /\ agent[a].at = 0 /\ agent[a].task \in Tasks
    BY <1>3 DEF FinishScript, Inv, MapInv, TypeOK, AgentOK, ScriptPcs
  <2>3. /\ agent'[a].pc = "res_task" /\ agent'[a].at = agent[a].at
        /\ agent'[a].task = agent[a].task
        /\ \A b \in Agents \ {a} : agent'[b] = agent[b]
    BY <1>0, <2>1 DEF AgentState
  <2>4. \A b \in Agents, t \in Tasks : Holds(b, t)' <=> Holds(b, t)
    BY <2>2, <2>3 DEF Holds
  <2>5. /\ history'.completed = history.completed
        /\ history'.replayed = history.replayed
        /\ history.produced \subseteq history'.produced
        /\ history'.produced \subseteq history.produced \cup {agent[a].task}
    BY <2>1 DEF Inv, TypeOK
  <2>6. \A t \in Tasks : Promise!TaskStep(t)
    BY <2>1, <2>4, <2>5, SameHolders, RowStep
  <2>7. HoldersOf(agent[a].task) # {}
    BY <2>2 DEF Holds, HoldersOf
  <2> QED BY <1>0, <2>2, <2>5, <2>6, <2>7, MappedStep
<1>4. CASE ReportProgress(a) \/ DropProgress(a)
  <2>1. UNCHANGED <<agent, history>>
    BY <1>4 DEF ReportProgress, DropProgress
  <2>2. \A t \in Tasks : task'[t].status = task[t].status \/ task'[t].status = "running"
    <3>1. CASE ReportProgress(a)
      <4>1. /\ progress[a] \in Tasks
            /\ task' = [task EXCEPT ![progress[a]].status = "running"]
        BY <3>1 DEF Inv, TypeOK, ReportProgress, UpdateTaskStatus
      <4> QED BY <1>0, <4>1 DEF TaskRow
    <3>2. CASE DropProgress(a)
      BY <3>2 DEF DropProgress
    <3> QED BY <1>4, <3>1, <3>2
  <2> QED BY <2>1, <2>2, RowsStep
<1>5. ASSUME NEW s, agent' = [agent EXCEPT ![a] = s], UNCHANGED <<task, history>>,
             \/ s.at # 0
             \/ s.pc \notin PollPcs \cup ScriptPcs \cup {"res_task"}
             \/ /\ agent[a].pc \in PollPcs \cup ScriptPcs
                /\ s.at = agent[a].at
                /\ s.task = agent[a].task
      PROVE  Promise!PromiseNext
  BY <1>0, <1>5, MovedHolds, AgentsStep
<1>6. CASE StartAgent(a)
  <2>1. AgentAt("idle").pc \notin PollPcs \cup ScriptPcs \cup {"res_task"}
    BY DEF AgentAt, PollPcs, ScriptPcs
  <2>2. Replay(a, 1).at # 0
    BY DEF Replay, AgentAt
  <2> QED BY <1>5, <1>6, <2>1, <2>2 DEF StartAgent
<1>7. CASE PollCounts(a)
  BY <1>0, <1>5, <1>7 DEF PollCounts, AgentState, PollPcs
<1>8. CASE PollJob(a)
  BY <1>0, <1>5, <1>8 DEF PollJob, AgentState, PollPcs
<1>9. CASE SendProgress(a)
  BY <1>0, <1>5, <1>9 DEF SendProgress, AgentState, ScriptPcs
<1>10. CASE ResultCounts(a) \/ WriteVerdict(a)
  BY <1>0, <1>5, <1>10 DEF ResultCounts, WriteVerdict, AgentState, PollPcs, ScriptPcs
<1>11. CASE CheckJobCompletion(a)
  BY <1>0, <1>5, <1>11 DEF CheckJobCompletion, AgentState, PollPcs, ScriptPcs
<1>12. CASE ResultAcked(a)
  <2>1. AgentAt("idle").pc \notin PollPcs \cup ScriptPcs \cup {"res_task"}
    BY DEF AgentAt, PollPcs, ScriptPcs
  <2>2. Replay(a, agent[a].at + 1).at # 0
    BY <1>0 DEF Replay, AgentAt, AgentState
  <2> QED BY <1>5, <1>12, <2>1, <2>2 DEF ResultAcked
<1> QED BY <1>1, <1>2, <1>3, <1>4, <1>6, <1>7, <1>8, <1>9, <1>10, <1>11, <1>12
        DEF AgentStep, ProgressStep

\* Every step of the dispatcher, and every stutter, is a step of the promise.
LEMMA RefineStep == Inv /\ [Next]_vars => Promise!PromiseNext
<1> SUFFICES ASSUME Inv, [Next]_vars PROVE Promise!PromiseNext
  OBVIOUS
<1>1. ASSUME NEW a \in Agents, AgentStep(a) \/ ProgressStep(a)
      PROVE  Promise!PromiseNext
  BY <1>1, RefineAgent
<1>2. ASSUME NEW j \in Jobs, ApiStep(j) PROVE Promise!PromiseNext
  BY <1>2, RefineApi
<1>3. CASE UNCHANGED vars
  BY <1>3, RowsStep DEF vars
<1> QED BY <1>1, <1>2, <1>3, RefineEngine, RefineEnvironment DEF Next

LEMMA RefineInit == Init => Promise!PromiseInit
<1> SUFFICES ASSUME Init PROVE Promise!PromiseInit
  OBVIOUS
<1>1. \A t \in Tasks : HoldersOf(t) = {}
  BY DEF Init, AgentAt, Holds, HoldersOf, PollPcs, ScriptPcs
<1>2. \A t \in Tasks : OutcomeOf(t) = "open"
  BY <1>1 DEF Init, NewTask, OutcomeOf
<1>3. history.produced = {}
  BY DEF Init
<1> QED BY <1>1, <1>2, <1>3 DEF Promise!PromiseInit

\* The dispatcher keeps the promise: for any number of jobs, chunks and agents,
\* and however often anything crashes, is lost, cancelled or retried, what
\* happens to the tasks is what TaskPromise allows.
THEOREM KeepsPromiseHolds == Spec => KeepsPromise
<1>1. Init => Inv /\ Promise!PromiseInit
  BY InvInit, RefineInit
<1>2. Inv /\ [Next]_vars => Inv' /\ [Promise!PromiseNext]_Promise!promiseVars
  BY InvStep, RefineStep
<1> QED BY <1>1, <1>2, PTL DEF Spec, KeepsPromise, Promise!PromiseSpec

--------------------------------------------------------------------------------
(* What the promise means for a single task                                *)

\* What may become of a completed row.  No retry of the job, no cancel, no claim
\* and no other agent's report takes it back.  A progress UPDATE that was still in
\* flight may: it sets the row to running, where it stays (CompletedNotRerun: the
\* task is handed to nobody for that).  So may the replay of a journaled result.
SuccessStays ==
  \A t \in Tasks : task[t].status = "completed" =>
    \/ task'[t].status = "completed"
    \/ task'[t].status = "running" /\ \E a \in Agents : progress[a] = t
    \/ t \in history'.replayed

\* A task whose agent or whose call has vanished is not handed out again, by the
\* loop, a retry or a poll: a cancel of the job or a replay of the journal is all
\* that still moves it.  Nothing in the code takes a claim back.
StrandedStays ==
  \A t \in Tasks :
    OutcomeOf(t) = "stranded" => OutcomeOf(t)' \in {"stranded", "cancelled", "disputed"}

\* A task goes to an agent only when it was open: never after a success, or after
\* a failure that nobody retried; and it is opened again only after a failure.
ClaimedWhenOpen ==
  \A t \in Tasks :
    /\ OutcomeOf(t) # "held" /\ OutcomeOf(t)' = "held" => OutcomeOf(t) = "open"
    /\ OutcomeOf(t) # "open" /\ OutcomeOf(t)' = "open" => OutcomeOf(t) = "failed"

\* What was replayed or stored stays known.
LEMMA HistoryGrows ==
  ASSUME TypeOK, [Next]_vars
  PROVE  /\ history.replayed \subseteq history'.replayed
         /\ history.completed \subseteq history'.completed
<1>1. CASE EngineStep
  BY <1>1 DEF TypeOK, EngineStep, EngineTick, EngineNextJob, EngineTickDone,
              EngineCreateTask, EngineCreateConflict, EngineRenderFails,
              EngineSetScriptDir, EngineCounts, EngineRequeue, EngineFailJob
<1>2. ASSUME NEW a \in Agents, AgentStep(a) \/ ProgressStep(a)
      PROVE  /\ history.replayed \subseteq history'.replayed
             /\ history.completed \subseteq history'.completed
  <2>1. CASE FinishScript(a)
    BY <2>1 DEF TypeOK, FinishScript
  <2>2. CASE ProcessResult(a)
    BY <2>2 DEF TypeOK, ProcessResult
  <2> QED BY <1>2, <2>1, <2>2
          DEF AgentStep, ProgressStep, StartAgent, ClaimNextTask, PollCounts, PollJob,
              ResultCounts, CheckJobCompletion, WriteVerdict, ResultAcked,
              SendProgress, ReportProgress, DropProgress
<1>3. ASSUME NEW j \in Jobs, ApiStep(j) PROVE UNCHANGED history
  BY <1>3 DEF ApiStep, CancelStatus, CancelPendingTasks, RetryFailedTasks, RetryStatus
<1>4. CASE Environment
  BY <1>4 DEF Environment, CreateJob, CancelRead, RetryRead, LoseRequest, LoseCall,
              CrashAgent, CrashController
<1>5. CASE UNCHANGED vars
  BY <1>5 DEF vars
<1> QED BY <1>1, <1>2, <1>3, <1>4, <1>5 DEF Next

\* Nothing but ReportProgress sets a row to running.
LEMMA RunningStep ==
  ASSUME TypeOK, [Next]_vars, NEW t \in Tasks, task'[t].status = "running"
  PROVE  task[t].status = "running" \/ \E a \in Agents : progress[a] = t
<1>0. /\ task \in [Tasks -> TaskRow]
      /\ task[t] \in TaskRow
  BY DEF TypeOK
<1>1. CASE UNCHANGED task
  BY <1>1
<1>2. CASE EngineCreateTask \/ EngineSetScriptDir
  BY <1>0, <1>2 DEF EngineCreateTask, EngineSetScriptDir, NewTask, TaskRow
<1>3. ASSUME NEW a \in Agents, ClaimNextTask(a)
      PROVE  task[t].status = "running" \/ \E b \in Agents : progress[b] = t
  <2>1. PICK u \in Tasks :
          task' = [task EXCEPT ![u].status = "assigned", ![u].agent = a]
    BY <1>3 DEF ClaimNextTask, Claimable
  <2> QED BY <1>0, <2>1 DEF TaskRow
<1>4. ASSUME NEW a \in Agents, ReportProgress(a)
      PROVE  task[t].status = "running" \/ \E b \in Agents : progress[b] = t
  BY <1>0, <1>4 DEF ReportProgress, UpdateTaskStatus
<1>5. ASSUME NEW a \in Agents, ProcessResult(a)
      PROVE  task[t].status = "running" \/ \E b \in Agents : progress[b] = t
  BY <1>0, <1>5 DEF ProcessResult, UpdateTaskStatus, ResultStatus, TaskRow
<1>6. ASSUME NEW j \in Jobs, CancelPendingTasks(j) \/ RetryFailedTasks(j)
      PROVE  task[t].status = "running"
  <2>1. PICK S \in {"cancelled", "pending"} :
          \/ task'[t] = task[t]
          \/ task'[t].status = S
    <3>1. CASE CancelPendingTasks(j)
      <4>1. task'[t] = IF JobOf(t) = j /\ task[t].status \in Cancellable
                       THEN [task[t] EXCEPT !.status = "cancelled"] ELSE task[t]
        BY <3>1 DEF CancelPendingTasks
      <4> QED BY <1>0, <4>1 DEF TaskRow
    <3>2. CASE RetryFailedTasks(j)
      <4>1. task'[t] = IF JobOf(t) = j /\ task[t].status \in Retryable
                       THEN [task[t] EXCEPT !.status = "pending", !.agent = NoAgent]
                       ELSE task[t]
        BY <3>2 DEF RetryFailedTasks
      <4> QED BY <1>0, <4>1 DEF TaskRow
    <3> QED BY <1>6, <3>1, <3>2
  <2> QED BY <2>1
<1>7. \/ UNCHANGED task
      \/ EngineCreateTask \/ EngineSetScriptDir
      \/ \E a \in Agents : ClaimNextTask(a) \/ ReportProgress(a) \/ ProcessResult(a)
      \/ \E j \in Jobs : CancelPendingTasks(j) \/ RetryFailedTasks(j)
  <2>1. CASE EngineStep
    BY <2>1 DEF EngineStep, EngineTick, EngineNextJob, EngineTickDone,
                EngineCreateConflict, EngineRenderFails, EngineCounts,
                EngineRequeue, EngineFailJob
  <2>2. ASSUME NEW a \in Agents, AgentStep(a) \/ ProgressStep(a)
        PROVE  UNCHANGED task \/ ClaimNextTask(a) \/ ReportProgress(a) \/ ProcessResult(a)
    BY <2>2 DEF AgentStep, ProgressStep, StartAgent, PollCounts, PollJob,
                FinishScript, ResultCounts, CheckJobCompletion, WriteVerdict,
                ResultAcked, SendProgress, DropProgress
  <2>3. ASSUME NEW j \in Jobs, ApiStep(j)
        PROVE  UNCHANGED task \/ CancelPendingTasks(j) \/ RetryFailedTasks(j)
    BY <2>3 DEF ApiStep, CancelStatus, RetryStatus
  <2>4. CASE Environment
    BY <2>4 DEF Environment, CreateJob, CancelRead, RetryRead, LoseRequest, LoseCall,
                CrashAgent, CrashController
  <2>5. CASE UNCHANGED vars
    BY <2>5 DEF vars
  <2> QED BY <2>1, <2>2, <2>3, <2>4, <2>5 DEF Next
<1> QED BY <1>1, <1>2, <1>3, <1>4, <1>5, <1>6, <1>7

\* A completed row is a stored success, unless it was replayed, and stays
\* completed or running in the next state.
LEMMA SuccessFollows ==
  ASSUME Inv, [Next]_vars, Inv'
  PROVE  SuccessStays
<1> SUFFICES ASSUME NEW t \in Tasks, task[t].status = "completed",
                    t \notin history'.replayed
             PROVE  \/ task'[t].status = "completed"
                    \/ /\ task'[t].status = "running"
                       /\ \E a \in Agents : progress[a] = t
  BY DEF SuccessStays
<1>1. /\ history.replayed \subseteq history'.replayed
      /\ history.completed \subseteq history'.completed
  BY HistoryGrows DEF Inv
<1>2. t \in history'.completed
  BY <1>1 DEF Inv, MapInv
<1>3. task'[t].status \in {"completed", "running"}
  BY <1>2 DEF Inv, HoldInv, CompletedNotRerun
<1>4. CASE task'[t].status = "running"
  BY <1>4, RunningStep DEF Inv
<1> QED BY <1>3, <1>4

LEMMA TaskFollows ==
  ASSUME Promise!PromiseNext
  PROVE  StrandedStays /\ ClaimedWhenOpen
<1>1. ASSUME NEW t \in Tasks
      PROVE  \/ OutcomeOf(t)' = OutcomeOf(t)
             \/ OutcomeOf(t)' = "disputed"
             \/ OutcomeOf(t) = "open" /\ OutcomeOf(t)' = "held"
             \/ OutcomeOf(t) = "held" /\ OutcomeOf(t)' \in {"done", "failed", "stranded", "cancelled"}
             \/ OutcomeOf(t) \in {"open", "stranded"} /\ OutcomeOf(t)' = "cancelled"
             \/ OutcomeOf(t) = "failed" /\ OutcomeOf(t)' = "open"
             \/ OutcomeOf(t) \in {"open", "failed", "cancelled"} /\ OutcomeOf(t)' = "stranded"
  <2>1. Promise!TaskStep(t)
    BY <1>1 DEF Promise!PromiseNext
  <2> QED BY <2>1 DEF Promise!TaskStep, Promise!Claim, Promise!Report, Promise!GiveUp,
                     Promise!Cancel, Promise!Retry, Promise!LateProgress, Promise!Replayed,
                     Promise!Becomes
<1> QED BY <1>1 DEF StrandedStays, ClaimedWhenOpen

\* A success that is stored stays, but for a late progress update or a replay.
THEOREM SuccessStaysHolds == Spec => [][SuccessStays]_vars
<1>1. Init => Inv
  BY InvInit
<1>2. Inv /\ [Next]_vars => Inv' /\ SuccessStays
  BY InvStep, SuccessFollows
<1> QED BY <1>1, <1>2, PTL DEF Spec

\* A task without its agent is handed out to nobody.
THEOREM StrandedStaysHolds == Spec => [][StrandedStays]_vars
<1>1. Init => Inv
  BY InvInit
<1>2. Inv /\ [Next]_vars => Inv' /\ StrandedStays
  BY InvStep, RefineStep, TaskFollows
<1> QED BY <1>1, <1>2, PTL DEF Spec

\* Agents are given open tasks only, and only a failed task is opened again.
THEOREM ClaimedWhenOpenHolds == Spec => [][ClaimedWhenOpen]_vars
<1>1. Init => Inv
  BY InvInit
<1>2. Inv /\ [Next]_vars => Inv' /\ ClaimedWhenOpen
  BY InvStep, RefineStep, TaskFollows
<1> QED BY <1>1, <1>2, PTL DEF Spec

================================================================================
