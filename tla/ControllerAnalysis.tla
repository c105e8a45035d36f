--------------------------- MODULE ControllerAnalysis ---------------------------
(***************************************************************************)
(* Jobs of the types hdr_detect, analysis and audio never become tasks:    *)
(* the dispatch loop sets them to running and starts a goroutine that      *)
(* takes a slot of the runner's semaphore, runs ffprobe or ffmpeg, stores  *)
(* what it found and writes the job's final status.  Cancels, retries and  *)
(* restarts of the controller act on the same row meanwhile.               *)
(*                                                                         *)
(* A definition named X_Something before a definition X is a seeded fault: *)
(* X as a plausible bug would have it.  Nothing uses it.                   *)
(***************************************************************************)
EXTENDS Integers, FiniteSets

CONSTANTS
  Jobs,          \* job rows; the number is the place in the claim order
  JobType,       \* the type of each job
  Concurrency,   \* analysis.concurrency; 0 is unlimited
  MaxLaunches,   \* how many goroutines a job gets at most
  MaxRestarts, MaxCancels, MaxRetries, MaxLosses
                 \* how often each event may happen in a behaviour

ASSUME AnalysisAssumption ==
  /\ Jobs \subseteq Nat /\ IsFiniteSet(Jobs)
  /\ JobType \in [Jobs -> {"hdr_detect", "analysis", "audio"}]
  /\ {Concurrency, MaxLaunches, MaxRestarts, MaxCancels, MaxRetries, MaxLosses}
       \subseteq Nat

VARIABLES
  status,    \* jobs.status
  todo,      \* the jobs the dispatch loop has still to look at in this tick
  run,       \* the goroutines: <<j, n>> is the n-th one started for job j
  slots,     \* how many slots of the semaphore are taken
  rows,      \* what is stored: <<j, type>> for job j's source
  requests,  \* per job, the cancels and retries that passed their check
  spent,     \* how many restarts, requests and losses happened so far
  history    \* auxiliary: which jobs lost a goroutine to a restart, which were
             \* retried during a retry or a run, which had a goroutine that
             \* succeeded

vars == <<status, todo, run, slots, rows, requests, spent, history>>

--------------------------------------------------------------------------------
JobStatus == {"absent", "queued", "running", "completed", "failed", "cancelled"}

Runs == Jobs \X (1..MaxLaunches)
JobOf(r) == r[1]

\* waiting: in acquire; working and scanning: with a slot; ok and error: RunX
\* has returned; over: the final status is written.
RunPcs  == {"none", "waiting", "working", "scanning", "ok", "error", "over"}
LivePcs == RunPcs \ {"none", "over"}
SlotPcs == {"working", "scanning"}

Live(r) == run[r] \in LivePcs
LiveRuns(j) == {r \in Runs : JobOf(r) = j /\ Live(r)}

UpdateJobStatus(j, s) == status' = [status EXCEPT ![j] = s]

--------------------------------------------------------------------------------
(* The dispatch loop                                                       *)

CreateJob(j) ==
  /\ status[j] = "absent"
  /\ UpdateJobStatus(j, "queued")
  /\ UNCHANGED <<todo, run, slots, rows, requests, spent, history>>

\* GetJobsNeedingExpansion; tasks_total stays 0 for these jobs.
EngineTick ==
  /\ todo = {}
  /\ todo' = {j \in Jobs : status[j] = "queued"}
  /\ todo' # {}
  /\ UNCHANGED <<status, run, slots, rows, requests, spent, history>>

StatusAtLaunch_Kept(j) == status[j]
\* "Transition to running immediately so the job is not re-picked-up": whatever
\* the status has become since the tick read it.
StatusAtLaunch(j) == "running"

ExpandControllerAnalysisJob(j) ==
  /\ j \in todo
  /\ \A k \in todo : j <= k
  /\ todo' = todo \ {j}
  /\ UpdateJobStatus(j, StatusAtLaunch(j))
  /\ \E n \in 1..MaxLaunches :
       /\ run[<<j, n>>] = "none"
       /\ \A m \in 1..(n - 1) : run[<<j, m>>] # "none"
       /\ run' = [run EXCEPT ![<<j, n>>] = "waiting"]
  /\ UNCHANGED <<slots, rows, requests, spent, history>>

--------------------------------------------------------------------------------
(* A goroutine: RunHDRDetect, RunAnalysis or RunAudio, and the final status *)

SlotFree_OneLess == Concurrency = 0 \/ slots + 1 < Concurrency
SlotFree == Concurrency = 0 \/ slots < Concurrency

Acquire(r) ==
  /\ run[r] = "waiting"
  /\ SlotFree
  /\ slots' = slots + 1
  /\ run' = [run EXCEPT ![r] = "working"]
  /\ UNCHANGED <<status, todo, rows, requests, spent, history>>

SlotsAfter_Twice(pc) == slots - 2
SlotsAfter_OnSuccess(pc) == IF pc = "ok" THEN slots - 1 ELSE slots
\* The deferred release: on every way out of RunX.
SlotsAfter(pc) == slots - 1

Return(r, pc) ==
  /\ run' = [run EXCEPT ![r] = pc]
  /\ slots' = SlotsAfter(pc)
  /\ history' = IF pc = "ok"
                THEN [history EXCEPT !.succeeded = @ \cup {JobOf(r)}] ELSE history

\* The path mappings cannot be read, or the program or the parser fails.  What
\* an analysis does after the mappings never fails it.
RunFails(r) ==
  /\ run[r] = "working"
  /\ Return(r, "error")
  /\ UNCHANGED <<status, todo, rows, requests, spent>>

\* UpdateSourceHDR writes columns of the source, with or without an HDR type;
\* ffmpeg writes the audio file itself.
DetectOrEncode(r) ==
  /\ run[r] = "working"
  /\ JobType[JobOf(r)] \in {"hdr_detect", "audio"}
  /\ rows' = IF JobType[JobOf(r)] = "hdr_detect"
             THEN rows \cup {<<JobOf(r), "hdr">>} ELSE rows
  /\ Return(r, "ok")
  /\ UNCHANGED <<status, todo, requests, spent>>

\* analysis_results_type_check.
ResultTypes == {"histogram", "vmaf", "scene_detect", "hdr_detect"}

\* The INSERT's error is discarded.
UpsertAnalysisResult(j, type) ==
  rows' = IF type \in ResultTypes THEN rows \cup {<<j, type>>} ELSE rows

\* Without stream information the scan goes on.
ProbeStreamInfo(r) ==
  /\ run[r] = "working"
  /\ JobType[JobOf(r)] = "analysis"
  /\ \/ UpsertAnalysisResult(JobOf(r), "stream_info")
     \/ UNCHANGED rows
  /\ run' = [run EXCEPT ![r] = "scanning"]
  /\ UNCHANGED <<status, todo, slots, requests, spent, history>>

\* The exit status of ffmpeg is ignored: there is a result, even if it is empty.
DetectScenes(r) ==
  /\ run[r] = "scanning"
  /\ UpsertAnalysisResult(JobOf(r), "scene")
  /\ Return(r, "ok")
  /\ UNCHANGED <<status, todo, requests, spent>>

FinalStatus_Completed(pc) == "completed"
FinalStatus(pc) == IF pc = "ok" THEN "completed" ELSE "failed"

\* Written over whatever the status has become.
Finish_QuietError(r) ==
  /\ run[r] \in {"ok", "error"}
  /\ IF run[r] = "ok" THEN UpdateJobStatus(JobOf(r), "completed") ELSE UNCHANGED status
  /\ run' = [run EXCEPT ![r] = "over"]
  /\ UNCHANGED <<todo, slots, rows, requests, spent, history>>
Finish(r) ==
  /\ run[r] \in {"ok", "error"}
  /\ UpdateJobStatus(JobOf(r), FinalStatus(run[r]))
  /\ run' = [run EXCEPT ![r] = "over"]
  /\ UNCHANGED <<todo, slots, rows, requests, spent, history>>

RunStep(r) ==
  \/ RunFails(r) \/ DetectOrEncode(r)
  \/ ProbeStreamInfo(r) \/ DetectScenes(r) \/ Finish(r)

\* A restart ends the goroutines where they are.  So does a shutdown: their
\* context is cancelled, which fails the final write too.
Restart ==
  /\ spent.restart < MaxRestarts
  /\ spent' = [spent EXCEPT !.restart = @ + 1]
  /\ todo' = {}
  /\ run' = [r \in Runs |-> IF Live(r) THEN "over" ELSE run[r]]
  /\ slots' = 0
  /\ requests' = [j \in Jobs |-> [cancel |-> 0, retry |-> 0]]
  /\ history' = [history EXCEPT
                   !.interrupted = @ \cup {j \in Jobs : LiveRuns(j) # {}}]
  /\ UNCHANGED <<status, rows>>

--------------------------------------------------------------------------------
(* POST /jobs/{id}/cancel and /jobs/{id}/retry; there are no tasks to change *)

CancelRead(j) ==
  /\ spent.cancel < MaxCancels
  /\ status[j] \notin {"absent", "cancelled", "completed"}
  /\ spent' = [spent EXCEPT !.cancel = @ + 1]
  /\ requests' = [requests EXCEPT ![j].cancel = @ + 1]
  /\ UNCHANGED <<status, todo, run, slots, rows, history>>

CancelWrite(j) ==
  /\ requests[j].cancel > 0
  /\ requests' = [requests EXCEPT ![j].cancel = @ - 1]
  /\ UpdateJobStatus(j, "cancelled")
  /\ UNCHANGED <<todo, run, slots, rows, spent, history>>

MayRetry(j) == status[j] = "failed"

RetryRead(j) ==
  /\ spent.retry < MaxRetries
  /\ MayRetry(j)
  /\ spent' = [spent EXCEPT !.retry = @ + 1]
  /\ requests' = [requests EXCEPT ![j].retry = @ + 1]
  /\ history' = IF requests[j].retry > 0
                THEN [history EXCEPT !.overlapped = @ \cup {j}] ELSE history
  /\ UNCHANGED <<status, todo, run, slots, rows>>

RetryWrite(j) ==
  /\ requests[j].retry > 0
  /\ requests' = [requests EXCEPT ![j].retry = @ - 1]
  /\ UpdateJobStatus(j, "queued")
  /\ UNCHANGED <<todo, run, slots, rows, spent, history>>

\* The client goes away before the write.
LoseRequest(j) ==
  /\ spent.loss < MaxLosses
  /\ spent' = [spent EXCEPT !.loss = @ + 1]
  /\ \/ /\ requests[j].cancel > 0
        /\ requests' = [requests EXCEPT ![j].cancel = @ - 1]
     \/ /\ requests[j].retry > 0
        /\ requests' = [requests EXCEPT ![j].retry = @ - 1]
  /\ UNCHANGED <<status, todo, run, slots, rows, history>>

--------------------------------------------------------------------------------
(* The commands "job cancel" and "job retry" write without looking at the job *)

CommandCancel(j) ==
  /\ spent.cancel < MaxCancels
  /\ status[j] # "absent"
  /\ spent' = [spent EXCEPT !.cancel = @ + 1]
  /\ UpdateJobStatus(j, "cancelled")
  /\ UNCHANGED <<todo, run, slots, rows, requests, history>>

CommandRetry(j) ==
  /\ spent.retry < MaxRetries
  /\ status[j] # "absent"
  /\ spent' = [spent EXCEPT !.retry = @ + 1]
  /\ UpdateJobStatus(j, "queued")
  /\ history' = IF LiveRuns(j) # {} \/ requests[j].retry > 0
                THEN [history EXCEPT !.overlapped = @ \cup {j}] ELSE history
  /\ UNCHANGED <<todo, run, slots, rows, requests>>

Command(j) == CommandCancel(j) \/ CommandRetry(j)

--------------------------------------------------------------------------------
Init ==
  /\ status = [j \in Jobs |-> "absent"]
  /\ todo = {}
  /\ run = [r \in Runs |-> "none"]
  /\ slots = 0
  /\ rows = {}
  /\ requests = [j \in Jobs |-> [cancel |-> 0, retry |-> 0]]
  /\ spent = [restart |-> 0, cancel |-> 0, retry |-> 0, loss |-> 0]
  /\ history = [interrupted |-> {}, overlapped |-> {}, succeeded |-> {}]

EngineStep == EngineTick \/ \E j \in Jobs : ExpandControllerAnalysisJob(j)
ApiStep(j) == CancelWrite(j) \/ RetryWrite(j)

Next ==
  \/ EngineStep
  \/ \E r \in Runs : Acquire(r) \/ RunStep(r)
  \/ \E j \in Jobs :
       \/ CreateJob(j) \/ CancelRead(j) \/ RetryRead(j) \/ LoseRequest(j)
       \/ ApiStep(j) \/ Command(j)
  \/ Restart

Spec == Init /\ [][Next]_vars

\* The ticker keeps ticking, programs end, handlers run to their end, and a
\* Go channel serves the goroutines that wait for it in their order.
Fairness ==
  /\ WF_vars(EngineStep)
  /\ \A r \in Runs : SF_vars(Acquire(r)) /\ WF_vars(RunStep(r))
  /\ \A j \in Jobs : WF_vars(ApiStep(j))

FairSpec == Spec /\ Fairness

\* An operator retries what can be retried.
OperatedSpec == FairSpec /\ \A j \in Jobs : WF_vars(RetryRead(j))

--------------------------------------------------------------------------------
(* Properties                                                              *)

TypeOK ==
  /\ status \in [Jobs -> JobStatus]
  /\ todo \subseteq Jobs
  /\ run \in [Runs -> RunPcs]
  /\ slots \in Nat
  /\ rows \subseteq Jobs \X (ResultTypes \cup {"hdr"})
  /\ requests \in [Jobs -> [cancel : Nat, retry : Nat]]
  /\ spent \in [restart : Nat, cancel : Nat, retry : Nat, loss : Nat]
  /\ history \in [interrupted : SUBSET Jobs, overlapped : SUBSET Jobs,
                  succeeded : SUBSET Jobs]

\* A job has one goroutine at a time, through cancels, retries, lost requests
\* and restarts: two would write the same output file.  Only two retries that
\* both saw the same failure, or the command "job retry" for a job at work, can
\* start a second one.
OneRunAtATime ==
  \A j \in Jobs \ history.overlapped : \A r, s \in LiveRuns(j) : r = s

\* A job that says running has a goroutine working for it, until a restart
\* takes that away: no way through the goroutine forgets the final status.
RunningHasRun ==
  \A j \in Jobs \ history.interrupted : status[j] = "running" => LiveRuns(j) # {}

\* A completed job had a goroutine that succeeded, and a completed hdr_detect
\* has written its source.
CompletedWasRun ==
  \A j \in Jobs : status[j] = "completed" =>
    /\ j \in history.succeeded
    /\ JobType[j] = "hdr_detect" => <<j, "hdr">> \in rows

\* The semaphore counts the goroutines that hold a slot, and holds no more than
\* the configured number.
SlotsAreHeld ==
  /\ slots = Cardinality({r \in Runs : run[r] \in SlotPcs})
  /\ Concurrency > 0 => slots <= Concurrency

\* Every job that is queued or running gets its final status, however many wait
\* for a slot, unless a restart interrupts it.
JobsAreAnswered ==
  \A j \in Jobs :
    status[j] \in {"queued", "running"} ~>
      status[j] \in {"completed", "failed", "cancelled"} \/ j \in history.interrupted

--------------------------------------------------------------------------------
(* Statements of the documentation that the code does not keep             *)

\* A job left in running by a restart can be queued again by a retry of the API.
StuckJobCanBeRetried ==
  \A j \in Jobs : status[j] = "running" ~> status[j] # "running"

\* An analysis stores its scenes.
CompletedAnalysisHasScenes ==
  \A j \in Jobs : status[j] = "completed" /\ JobType[j] = "analysis"
    => \E type \in {"scene", "scene_detect"} : <<j, type>> \in rows

================================================================================
