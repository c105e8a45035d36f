------------------------ MODULE ControllerAnalysis_proofs ------------------------
(***************************************************************************)
(* Proofs about ControllerAnalysis, for any finite set of jobs, any        *)
(* concurrency and any bounds: the semaphore's accounting and the types,   *)
(* one goroutine per job, and what the statuses running and completed mean.*)
(***************************************************************************)
EXTENDS ControllerAnalysis, FiniteSetTheorems, TLAPS

LEMMA RunsFinite == IsFiniteSet(Runs)
<1>1. IsFiniteSet(1..MaxLaunches)
  BY AnalysisAssumption, FS_Interval
<1>2. QED
  BY <1>1, AnalysisAssumption, FS_Product DEF Runs

Holders == {r \in Runs : run[r] \in SlotPcs}

LEMMA HoldersFinite == IsFiniteSet(Holders) /\ Cardinality(Holders) \in Nat
  BY RunsFinite, FS_Subset, FS_CardinalityType DEF Holders

LEMMA HoldersFiniteNext == IsFiniteSet(Holders') /\ Cardinality(Holders') \in Nat
  BY RunsFinite, FS_Subset, FS_CardinalityType DEF Holders

--------------------------------------------------------------------------------
(***************************************************************************)
(* slots \in Nat is not kept by the types alone: a release subtracts one,  *)
(* and only the accounting says that there is one to subtract.  Types is   *)
(* TypeOK without it, and IInv adds the accounting.                        *)
(***************************************************************************)

Types ==
  /\ status \in [Jobs -> JobStatus]
  /\ todo \subseteq Jobs
  /\ run \in [Runs -> RunPcs]
  /\ rows \subseteq Jobs \X (ResultTypes \cup {"hdr"})
  /\ requests \in [Jobs -> [cancel : Nat, retry : Nat]]
  /\ spent \in [restart : Nat, cancel : Nat, retry : Nat, loss : Nat]
  /\ history \in [interrupted : SUBSET Jobs, overlapped : SUBSET Jobs,
                  succeeded : SUBSET Jobs]

IInv == TypeOK /\ SlotsAreHeld

LEMMA RunJob == \A r \in Runs : JobOf(r) \in Jobs
  BY DEF Runs, JobOf

LEMMA InitHolds == Init => IInv
<1> SUFFICES ASSUME Init PROVE IInv
  OBVIOUS
<1>1. TypeOK
  BY DEF Init, TypeOK, JobStatus, RunPcs
<1>2. {r \in Runs : run[r] \in SlotPcs} = {}
  BY DEF Init, SlotPcs
<1>3. SlotsAreHeld
  BY <1>2, FS_EmptySet, AnalysisAssumption DEF Init, SlotsAreHeld
<1>4. QED
  BY <1>1, <1>3 DEF IInv

LEMMA TypesRun ==
  ASSUME TypeOK, NEW r \in Runs, Acquire(r) \/ RunStep(r)
  PROVE  Types'
<1> USE RunJob DEF TypeOK, Types, RunPcs
<1>1. CASE Acquire(r)
  BY <1>1 DEF Acquire
<1>2. CASE RunFails(r)
  BY <1>2 DEF RunFails, Return
<1>3. CASE DetectOrEncode(r)
  <2>1. rows' \subseteq Jobs \X (ResultTypes \cup {"hdr"})
    BY <1>3 DEF DetectOrEncode
  <2>2. history' \in [interrupted : SUBSET Jobs, overlapped : SUBSET Jobs,
                      succeeded : SUBSET Jobs]
    BY <1>3 DEF DetectOrEncode, Return
  <2>3. run' \in [Runs -> RunPcs]
    BY <1>3 DEF DetectOrEncode, Return
  <2>4. QED
    BY <1>3, <2>1, <2>2, <2>3 DEF DetectOrEncode
<1>4. CASE ProbeStreamInfo(r)
  BY <1>4 DEF ProbeStreamInfo, UpsertAnalysisResult
<1>5. CASE DetectScenes(r)
  <2>1. rows' \subseteq Jobs \X (ResultTypes \cup {"hdr"})
    BY <1>5 DEF DetectScenes, UpsertAnalysisResult
  <2>2. history' \in [interrupted : SUBSET Jobs, overlapped : SUBSET Jobs,
                      succeeded : SUBSET Jobs]
    BY <1>5 DEF DetectScenes, Return
  <2>3. run' \in [Runs -> RunPcs]
    BY <1>5 DEF DetectScenes, Return
  <2>4. QED
    BY <1>5, <2>1, <2>2, <2>3 DEF DetectScenes
<1>6. CASE Finish(r)
  BY <1>6 DEF Finish, UpdateJobStatus, FinalStatus, JobStatus
<1>7. QED
  BY <1>1, <1>2, <1>3, <1>4, <1>5, <1>6 DEF RunStep

LEMMA TypesJob ==
  ASSUME TypeOK, NEW j \in Jobs,
         \/ ExpandControllerAnalysisJob(j) \/ CreateJob(j) \/ CancelRead(j)
         \/ RetryRead(j) \/ LoseRequest(j) \/ ApiStep(j) \/ Command(j)
  PROVE  Types'
<1> USE DEF TypeOK, Types, JobStatus, RunPcs, UpdateJobStatus
<1>1. CASE ExpandControllerAnalysisJob(j)
  BY <1>1 DEF ExpandControllerAnalysisJob, StatusAtLaunch
<1>2. CASE CreateJob(j)
  BY <1>2 DEF CreateJob
<1>3. CASE CancelRead(j)
  BY <1>3 DEF CancelRead
<1>4. CASE RetryRead(j)
  <2>1. spent' \in [restart : Nat, cancel : Nat, retry : Nat, loss : Nat]
    BY <1>4 DEF RetryRead
  <2>2. requests' \in [Jobs -> [cancel : Nat, retry : Nat]]
    BY <1>4 DEF RetryRead
  <2>3. history' \in [interrupted : SUBSET Jobs, overlapped : SUBSET Jobs,
                      succeeded : SUBSET Jobs]
    BY <1>4 DEF RetryRead
  <2>4. QED
    BY <1>4, <2>1, <2>2, <2>3 DEF RetryRead
<1>5. CASE LoseRequest(j)
  <2>1. spent' \in [restart : Nat, cancel : Nat, retry : Nat, loss : Nat]
    BY <1>5 DEF LoseRequest
  <2>2. requests' \in [Jobs -> [cancel : Nat, retry : Nat]]
    BY <1>5 DEF LoseRequest
  <2>3. QED
    BY <1>5, <2>1, <2>2 DEF LoseRequest
<1>6. CASE CancelWrite(j)
  BY <1>6 DEF CancelWrite
<1>7. CASE RetryWrite(j)
  BY <1>7 DEF RetryWrite
<1>8. CASE CommandCancel(j)
  BY <1>8 DEF CommandCancel
<1>9. CASE CommandRetry(j)
  <2>1. history' \in [interrupted : SUBSET Jobs, overlapped : SUBSET Jobs,
                      succeeded : SUBSET Jobs]
    BY <1>9 DEF CommandRetry
  <2>2. spent' \in [restart : Nat, cancel : Nat, retry : Nat, loss : Nat]
    BY <1>9 DEF CommandRetry
  <2>3. QED
    BY <1>9, <2>1, <2>2 DEF CommandRetry
<1>10. QED
  BY <1>1, <1>2, <1>3, <1>4, <1>5, <1>6, <1>7, <1>8, <1>9 DEF ApiStep, Command

LEMMA TypesStep == TypeOK /\ [Next]_vars => Types'
<1> SUFFICES ASSUME TypeOK, [Next]_vars PROVE Types'
  OBVIOUS
<1>1. CASE UNCHANGED vars
  BY <1>1 DEF vars, TypeOK, Types
<1>2. CASE EngineTick
  BY <1>2 DEF EngineTick, TypeOK, Types
<1>3. CASE Restart
  <2>1. run' \in [Runs -> RunPcs]
    BY <1>3 DEF Restart, TypeOK, RunPcs
  <2>2. history' \in [interrupted : SUBSET Jobs, overlapped : SUBSET Jobs,
                      succeeded : SUBSET Jobs]
    BY <1>3 DEF Restart, TypeOK
  <2>3. requests' \in [Jobs -> [cancel : Nat, retry : Nat]]
    BY <1>3 DEF Restart
  <2>4. spent' \in [restart : Nat, cancel : Nat, retry : Nat, loss : Nat]
    BY <1>3 DEF Restart, TypeOK
  <2>5. QED
    BY <1>3, <2>1, <2>2, <2>3, <2>4 DEF Restart, TypeOK, Types
<1>4. QED
  BY <1>1, <1>2, <1>3, TypesRun, TypesJob DEF Next, EngineStep

LEMMA HeldStep == IInv /\ [Next]_vars => SlotsAreHeld'
<1> SUFFICES ASSUME IInv, [Next]_vars PROVE SlotsAreHeld'
  OBVIOUS
<1> USE AnalysisAssumption
<1>a. /\ slots \in Nat /\ slots = Cardinality(Holders)
      /\ Concurrency > 0 => slots <= Concurrency
  BY DEF IInv, TypeOK, SlotsAreHeld, Holders
<1>b. ASSUME Holders' = Holders, slots' = slots PROVE SlotsAreHeld'
  BY <1>a, <1>b DEF SlotsAreHeld, Holders
<1>1. CASE UNCHANGED <<run, slots>>
  BY <1>1, <1>b DEF Holders
<1>2. ASSUME NEW r \in Runs, Acquire(r) PROVE SlotsAreHeld'
  <2>1. Holders' = Holders \cup {r} /\ r \notin Holders
    BY <1>2 DEF Acquire, Holders, SlotPcs, IInv, TypeOK
  <2>2. Cardinality(Holders') = Cardinality(Holders) + 1
    BY <2>1, HoldersFinite, FS_AddElement
  <2>3. slots' = Cardinality(Holders')
    BY <1>2, <1>a, <2>2 DEF Acquire
  <2>4. Concurrency > 0 => slots' <= Concurrency
    BY <1>2, <1>a DEF Acquire, SlotFree
  <2>5. QED
    BY <2>3, <2>4 DEF SlotsAreHeld, Holders
<1>3. ASSUME NEW r \in Runs, RunFails(r) \/ DetectOrEncode(r) \/ DetectScenes(r)
      PROVE  SlotsAreHeld'
  <2>1. PICK pc \in {"ok", "error"} :
          /\ run[r] \in SlotPcs
          /\ run' = [run EXCEPT ![r] = pc] /\ slots' = slots - 1
    BY <1>3 DEF RunFails, DetectOrEncode, DetectScenes, Return, SlotsAfter, SlotPcs
  <2>2. Holders' = Holders \ {r} /\ r \in Holders
    BY <2>1 DEF Holders, SlotPcs, IInv, TypeOK
  <2>3. Cardinality(Holders') = Cardinality(Holders) - 1
    BY <2>2, HoldersFinite, FS_RemoveElement
  <2>4. slots' = Cardinality(Holders')
    BY <1>a, <2>1, <2>3
  <2>5. QED
    BY <1>a, <2>1, <2>4 DEF SlotsAreHeld, Holders
<1>4. ASSUME NEW r \in Runs, ProbeStreamInfo(r) \/ Finish(r) PROVE SlotsAreHeld'
  <2>1. Holders' = Holders
    BY <1>4 DEF ProbeStreamInfo, Finish, Holders, SlotPcs, IInv, TypeOK
  <2>2. QED
    BY <1>4, <1>b, <2>1 DEF ProbeStreamInfo, Finish
<1>5. ASSUME NEW j \in Jobs, ExpandControllerAnalysisJob(j) PROVE SlotsAreHeld'
  <2>1. Holders' = Holders
    BY <1>5 DEF ExpandControllerAnalysisJob, Holders, SlotPcs, IInv, TypeOK, Runs
  <2>2. QED
    BY <1>5, <1>b, <2>1 DEF ExpandControllerAnalysisJob
<1>6. CASE Restart
  <2>1. Holders' = {}
    BY <1>6 DEF Restart, Holders, SlotPcs, Live, LivePcs, RunPcs, IInv, TypeOK
  <2>2. slots' = 0 /\ Cardinality(Holders') = 0
    BY <1>6, <2>1, FS_EmptySet DEF Restart
  <2>3. Concurrency \in Nat
    OBVIOUS
  <2>4. QED
    BY <2>2, <2>3 DEF SlotsAreHeld, Holders
<1>7. CASE EngineTick
  BY <1>1, <1>7 DEF EngineTick
<1>8. ASSUME NEW j \in Jobs,
             \/ CreateJob(j) \/ CancelRead(j) \/ RetryRead(j) \/ LoseRequest(j)
             \/ ApiStep(j) \/ Command(j)
      PROVE  SlotsAreHeld'
  BY <1>1, <1>8
  DEF CreateJob, CancelRead, RetryRead, LoseRequest, ApiStep, CancelWrite, RetryWrite,
      Command, CommandCancel, CommandRetry
<1>9. QED
  BY <1>1, <1>2, <1>3, <1>4, <1>5, <1>6, <1>7, <1>8
  DEF Next, EngineStep, RunStep, vars

LEMMA IInvStep == IInv /\ [Next]_vars => IInv'
<1> SUFFICES ASSUME IInv, [Next]_vars PROVE IInv'
  OBVIOUS
<1>1. Types' /\ SlotsAreHeld'
  BY TypesStep, HeldStep DEF IInv
<1>2. slots' \in Nat
  BY <1>1, HoldersFiniteNext DEF SlotsAreHeld, Holders
<1>3. QED
  BY <1>1, <1>2 DEF IInv, TypeOK, Types

\* Rows, goroutines and requests keep their types; a release never takes the
\* semaphore below zero.
THEOREM TypeCorrect == Spec => []TypeOK
<1>1. IInv => TypeOK
  BY DEF IInv
<1>2. QED
  BY <1>1, InitHolds, IInvStep, PTL DEF Spec

\* The semaphore's count is the number of goroutines between acquire and
\* release, on every way out and through restarts, and never above the limit.
THEOREM SlotsAreHeldHolds == Spec => []SlotsAreHeld
<1>1. IInv => SlotsAreHeld
  BY DEF IInv
<1>2. QED
  BY <1>1, InitHolds, IInvStep, PTL DEF Spec

--------------------------------------------------------------------------------
(***************************************************************************)
(* OneRunAtATime is not inductive: what keeps a second goroutine away is   *)
(* that a job that can be launched, or made launchable by a retry that has *)
(* passed its check, has none.                                             *)
(***************************************************************************)

Launchable(j) == status[j] \in {"absent", "queued", "failed"} \/ j \in todo

OneRun(j) ==
  /\ \A r, s \in LiveRuns(j) : r = s
  /\ Launchable(j) \/ requests[j].retry > 0 => LiveRuns(j) = {}
  /\ status[j] = "failed" => j \notin todo
  /\ requests[j].retry > 0 =>
       /\ requests[j].retry = 1
       /\ status[j] \in {"failed", "cancelled"}
       /\ j \notin todo

OneRuns == \A j \in Jobs \ history.overlapped : OneRun(j)

LEMMA OneRunInit == Init => OneRuns
  BY DEF Init, OneRuns, OneRun, LiveRuns, Live, LivePcs, RunPcs

\* A step that changes nothing OneRun(j) speaks of keeps it.
LEMMA OneRunSame ==
  ASSUME NEW j \in Jobs, OneRun(j),
         LiveRuns(j)' = LiveRuns(j), status'[j] = status[j],
         j \in todo' <=> j \in todo, requests'[j].retry = requests[j].retry
  PROVE  OneRun(j)'
  BY DEF OneRun, Launchable

LEMMA LiveSame ==
  ASSUME NEW j \in Jobs, run' = run
  PROVE  LiveRuns(j)' = LiveRuns(j)
  BY DEF LiveRuns, Live

\* A goroutine on its way stays alive; the others are not touched.
LEMMA LiveOnTheWay ==
  ASSUME TypeOK, NEW r \in Runs, NEW pc \in LivePcs, Live(r),
         run' = [run EXCEPT ![r] = pc], NEW j \in Jobs
  PROVE  LiveRuns(j)' = LiveRuns(j)
  BY DEF LiveRuns, Live, TypeOK

LEMMA OneRunStep == TypeOK /\ OneRuns /\ [Next]_vars => OneRuns'
<1> SUFFICES ASSUME TypeOK, OneRuns, [Next]_vars,
                    NEW j \in Jobs, j \notin history'.overlapped
             PROVE  OneRun(j)'
  BY DEF OneRuns
<1> USE DEF JobStatus
<1>1. j \notin history.overlapped
  <2>1. history.overlapped \subseteq history'.overlapped
    BY DEF Next, vars, EngineStep, EngineTick, ExpandControllerAnalysisJob, Acquire,
           RunStep, RunFails, DetectOrEncode, ProbeStreamInfo, DetectScenes, Finish,
           Return, CreateJob, CancelRead, RetryRead, LoseRequest, ApiStep,
           CancelWrite, RetryWrite, Command, CommandCancel, CommandRetry,
           Restart, TypeOK
  <2>2. QED
    BY <2>1
<1>2. OneRun(j)
  BY <1>1 DEF OneRuns
<1>3. requests[j].retry \in Nat /\ status[j] \in JobStatus
  BY DEF TypeOK
<1>4. CASE UNCHANGED vars
  BY <1>2, <1>4, OneRunSame, LiveSame DEF vars
<1>5. CASE EngineTick
  <2>1. UNCHANGED <<run, status, requests>> /\ (j \in todo' => status[j] = "queued")
        /\ j \notin todo
    BY <1>5 DEF EngineTick
  <2>2. QED
    BY <1>2, <2>1, LiveSame DEF OneRun, Launchable
<1>6. ASSUME NEW k \in Jobs, ExpandControllerAnalysisJob(k) PROVE OneRun(j)'
  <2>1. PICK n \in 1..MaxLaunches : run[<<k, n>>] = "none"
                                   /\ run' = [run EXCEPT ![<<k, n>>] = "waiting"]
    BY <1>6 DEF ExpandControllerAnalysisJob
  <2>2. <<k, n>> \in Runs
    BY DEF Runs
  <2>3. CASE j = k
    <3>1. LiveRuns(j) = {} /\ requests[j].retry = 0
      BY <1>2, <1>3, <1>6, <2>3 DEF ExpandControllerAnalysisJob, OneRun, Launchable
    <3>2. LiveRuns(j)' \subseteq {<<k, n>>}
      BY <2>1, <2>2, <3>1 DEF LiveRuns, Live, TypeOK
    <3>3. status'[j] = "running" /\ j \notin todo' /\ requests' = requests
      BY <1>6, <2>3
      DEF ExpandControllerAnalysisJob, UpdateJobStatus, StatusAtLaunch, TypeOK
    <3>4. QED
      BY <3>1, <3>2, <3>3 DEF OneRun, Launchable
  <2>4. CASE j # k
    <3>1. LiveRuns(j)' = LiveRuns(j)
      BY <2>1, <2>2, <2>4 DEF LiveRuns, Live, TypeOK, JobOf
    <3>2. status'[j] = status[j] /\ (j \in todo' <=> j \in todo) /\ requests' = requests
      BY <1>6, <2>4 DEF ExpandControllerAnalysisJob, UpdateJobStatus, TypeOK
    <3>3. QED
      BY <1>2, <3>1, <3>2, OneRunSame
  <2>5. QED
    BY <2>3, <2>4
<1>7. ASSUME NEW r \in Runs, Acquire(r) \/ RunStep(r), ~Finish(r) PROVE OneRun(j)'
  <2>1. /\ UNCHANGED <<status, todo, requests>> /\ Live(r)
        /\ \E pc \in LivePcs : run' = [run EXCEPT ![r] = pc]
    BY <1>7
    DEF Acquire, RunStep, RunFails, DetectOrEncode, ProbeStreamInfo, DetectScenes,
        Return, Live, LivePcs, RunPcs
  <2>2. LiveRuns(j)' = LiveRuns(j)
    BY <2>1, LiveOnTheWay
  <2>3. QED
    BY <1>2, <2>1, <2>2, OneRunSame
<1>8. ASSUME NEW r \in Runs, Finish(r) PROVE OneRun(j)'
  <2>1. Live(r) /\ run' = [run EXCEPT ![r] = "over"] /\ UNCHANGED <<todo, requests>>
    BY <1>8 DEF Finish, Live, LivePcs, RunPcs
  <2>2. CASE JobOf(r) = j
    <3>1. r \in LiveRuns(j)
      BY <2>1, <2>2 DEF LiveRuns
    <3>2. LiveRuns(j) = {r} /\ j \notin todo /\ requests[j].retry = 0
      BY <1>2, <1>3, <3>1 DEF OneRun, Launchable
    <3>3. LiveRuns(j)' = {}
      BY <2>1, <3>2 DEF LiveRuns, Live, LivePcs, TypeOK
    <3>4. QED
      BY <2>1, <3>2, <3>3 DEF OneRun, Launchable
  <2>3. CASE JobOf(r) # j
    <3>1. LiveRuns(j)' = LiveRuns(j)
      BY <2>1, <2>3 DEF LiveRuns, Live, TypeOK
    <3>2. status'[j] = status[j]
      BY <1>8, <2>3, RunJob DEF Finish, UpdateJobStatus, TypeOK
    <3>3. QED
      BY <1>2, <2>1, <3>1, <3>2, OneRunSame
  <2>4. QED
    BY <2>2, <2>3
<1>9. ASSUME NEW k \in Jobs, CreateJob(k) \/ CancelRead(k) \/ CancelWrite(k)
      PROVE  OneRun(j)'
  <2>1. run' = run /\ todo' = todo /\ requests'[j].retry = requests[j].retry
    BY <1>9 DEF CreateJob, CancelRead, CancelWrite, TypeOK
  <2>2. \/ status'[j] = status[j]
        \/ status[j] = "absent" /\ status'[j] = "queued"
        \/ status'[j] = "cancelled"
    BY <1>9 DEF CreateJob, CancelRead, CancelWrite, UpdateJobStatus, TypeOK
  <2>3. QED
    BY <1>2, <1>3, <2>1, <2>2, LiveSame DEF OneRun, Launchable
<1>10. ASSUME NEW k \in Jobs, RetryRead(k) PROVE OneRun(j)'
  <2>1. run' = run /\ todo' = todo /\ status' = status
    BY <1>10 DEF RetryRead
  <2>2. CASE j = k
    <3>1. requests[j].retry = 0
      BY <1>3, <1>10, <2>2 DEF RetryRead, TypeOK
    <3>2. status[j] = "failed" /\ requests'[j].retry = 1
      BY <1>10, <2>2, <3>1 DEF RetryRead, MayRetry, TypeOK
    <3>3. QED
      BY <1>2, <2>1, <3>1, <3>2, LiveSame DEF OneRun, Launchable
  <2>3. CASE j # k
    <3>1. requests'[j] = requests[j]
      BY <1>10, <2>3 DEF RetryRead, TypeOK
    <3>2. QED
      BY <1>2, <2>1, <3>1, LiveSame, OneRunSame
  <2>4. QED
    BY <2>2, <2>3
<1>11. ASSUME NEW k \in Jobs, RetryWrite(k) PROVE OneRun(j)'
  <2>1. run' = run /\ todo' = todo
    BY <1>11 DEF RetryWrite
  <2>2. CASE j = k
    <3>1. requests[j].retry > 0 /\ requests'[j].retry = requests[j].retry - 1
      BY <1>11, <2>2 DEF RetryWrite, TypeOK
    <3>2. status'[j] = "queued"
      BY <1>11, <2>2 DEF RetryWrite, UpdateJobStatus, TypeOK
    <3>3. QED
      BY <1>2, <1>3, <2>1, <3>1, <3>2, LiveSame DEF OneRun, Launchable
  <2>3. CASE j # k
    <3>1. requests'[j] = requests[j] /\ status'[j] = status[j]
      BY <1>11, <2>3 DEF RetryWrite, UpdateJobStatus, TypeOK
    <3>2. QED
      BY <1>2, <2>1, <3>1, LiveSame, OneRunSame
  <2>4. QED
    BY <2>2, <2>3
<1>12. ASSUME NEW k \in Jobs, LoseRequest(k) PROVE OneRun(j)'
  <2>1. run' = run /\ todo' = todo /\ status' = status
    BY <1>12 DEF LoseRequest
  <2>2. \/ requests'[j].retry = requests[j].retry
        \/ requests[j].retry > 0 /\ requests'[j].retry = requests[j].retry - 1
    BY <1>12 DEF LoseRequest, TypeOK
  <2>3. QED
    BY <1>2, <1>3, <2>1, <2>2, LiveSame DEF OneRun, Launchable
<1>13. CASE Restart
  <2>1. LiveRuns(j)' = {}
    BY <1>13 DEF Restart, LiveRuns, Live, LivePcs, RunPcs, TypeOK
  <2>2. requests'[j].retry = 0 /\ j \notin todo'
    BY <1>13 DEF Restart
  <2>3. QED
    BY <2>1, <2>2 DEF OneRun, Launchable
<1>14. ASSUME NEW k \in Jobs, CommandCancel(k) PROVE OneRun(j)'
  <2>1. run' = run /\ todo' = todo /\ requests' = requests
    BY <1>14 DEF CommandCancel
  <2>2. status'[j] = status[j] \/ status'[j] = "cancelled"
    BY <1>14 DEF CommandCancel, UpdateJobStatus, TypeOK
  <2>3. QED
    BY <1>2, <1>3, <2>1, <2>2, LiveSame DEF OneRun, Launchable
<1>15. ASSUME NEW k \in Jobs, CommandRetry(k) PROVE OneRun(j)'
  <2>1. run' = run /\ todo' = todo /\ requests' = requests
    BY <1>15 DEF CommandRetry
  <2>2. CASE j = k
    <3>1. LiveRuns(j) = {} /\ requests[j].retry = 0
      BY <1>3, <1>15, <2>2 DEF CommandRetry, TypeOK
    <3>2. status'[j] = "queued"
      BY <1>15, <2>2 DEF CommandRetry, UpdateJobStatus, TypeOK
    <3>3. QED
      BY <1>2, <2>1, <3>1, <3>2, LiveSame DEF OneRun, Launchable
  <2>3. CASE j # k
    <3>1. status'[j] = status[j]
      BY <1>15, <2>3 DEF CommandRetry, UpdateJobStatus, TypeOK
    <3>2. QED
      BY <1>2, <2>1, <3>1, LiveSame, OneRunSame
  <2>4. QED
    BY <2>2, <2>3
<1>16. QED
  BY <1>4, <1>5, <1>6, <1>7, <1>8, <1>9, <1>10, <1>11, <1>12, <1>13, <1>14, <1>15
  DEF Next, EngineStep, ApiStep, RunStep, Command

\* One goroutine per job, for any number of restarts, cancels and retries: only
\* two retries that both saw the same failure, or the command "job retry" for a
\* job at work, start a second one.
THEOREM OneRunAtATimeHolds == Spec => []OneRunAtATime
<1>1. Init => IInv /\ OneRuns
  BY InitHolds, OneRunInit
<1>2. IInv /\ OneRuns /\ [Next]_vars => (IInv /\ OneRuns)'
  BY IInvStep, OneRunStep DEF IInv
<1>3. IInv /\ OneRuns => OneRunAtATime
  BY DEF OneRuns, OneRun, OneRunAtATime
<1>4. QED
  BY <1>1, <1>2, <1>3, PTL DEF Spec

--------------------------------------------------------------------------------
(***************************************************************************)
(* RunningHasRun is inductive.  CompletedWasRun is not: the final write    *)
(* depends on how RunX returned, so Earned relates the goroutines that     *)
(* have returned with success to what they have stored.                    *)
(***************************************************************************)

LEMMA RunningStep == TypeOK /\ RunningHasRun /\ [Next]_vars => RunningHasRun'
<1> SUFFICES ASSUME TypeOK, RunningHasRun, [Next]_vars,
                    NEW j \in Jobs, j \notin history'.interrupted,
                    status'[j] = "running"
             PROVE  LiveRuns(j)' # {}
  BY DEF RunningHasRun
<1>1. j \notin history.interrupted
  <2>1. history.interrupted \subseteq history'.interrupted
    BY DEF Next, vars, EngineStep, EngineTick, ExpandControllerAnalysisJob, Acquire,
           RunStep, RunFails, DetectOrEncode, ProbeStreamInfo, DetectScenes, Finish,
           Return, CreateJob, CancelRead, RetryRead, LoseRequest, ApiStep,
           CancelWrite, RetryWrite, Command, CommandCancel, CommandRetry,
           Restart, TypeOK
  <2>2. QED
    BY <2>1
<1>2. ASSUME status[j] = "running", LiveRuns(j)' = LiveRuns(j) PROVE LiveRuns(j)' # {}
  BY <1>1, <1>2 DEF RunningHasRun
<1>3. CASE UNCHANGED <<status, run>>
  BY <1>2, <1>3, LiveSame
<1>4. ASSUME NEW k \in Jobs, ExpandControllerAnalysisJob(k)
      PROVE  LiveRuns(j)' # {}
  <2>1. PICK n \in 1..MaxLaunches : run[<<k, n>>] = "none"
                                   /\ run' = [run EXCEPT ![<<k, n>>] = "waiting"]
    BY <1>4 DEF ExpandControllerAnalysisJob
  <2>2. <<k, n>> \in Runs /\ JobOf(<<k, n>>) = k
    BY DEF Runs, JobOf
  <2>3. CASE j = k
    <3>1. <<k, n>> \in LiveRuns(j)'
      BY <2>1, <2>2, <2>3 DEF LiveRuns, Live, LivePcs, RunPcs, TypeOK
    <3>2. QED
      BY <3>1
  <2>4. CASE j # k
    <3>1. LiveRuns(j)' = LiveRuns(j)
      BY <2>1, <2>2, <2>4 DEF LiveRuns, Live, TypeOK, JobOf
    <3>2. status'[j] = status[j]
      BY <1>4, <2>4 DEF ExpandControllerAnalysisJob, UpdateJobStatus, TypeOK
    <3>3. QED
      BY <1>2, <3>1, <3>2
  <2>5. QED
    BY <2>3, <2>4
<1>5. ASSUME NEW r \in Runs, Acquire(r) \/ RunStep(r), ~Finish(r)
      PROVE  LiveRuns(j)' # {}
  <2>1. /\ UNCHANGED status /\ Live(r)
        /\ \E pc \in LivePcs : run' = [run EXCEPT ![r] = pc]
    BY <1>5
    DEF Acquire, RunStep, RunFails, DetectOrEncode, ProbeStreamInfo, DetectScenes,
        Return, Live, LivePcs, RunPcs
  <2>2. LiveRuns(j)' = LiveRuns(j)
    BY <2>1, LiveOnTheWay
  <2>3. QED
    BY <1>2, <2>1, <2>2
<1>6. ASSUME NEW r \in Runs, Finish(r) PROVE LiveRuns(j)' # {}
  <2>1. JobOf(r) # j
    BY <1>6, RunJob DEF Finish, UpdateJobStatus, FinalStatus, TypeOK
  <2>2. status'[j] = status[j]
    BY <1>6, <2>1, RunJob DEF Finish, UpdateJobStatus, TypeOK
  <2>3. LiveRuns(j)' = LiveRuns(j)
    BY <1>6, <2>1 DEF Finish, LiveRuns, Live, TypeOK
  <2>4. QED
    BY <1>2, <2>2, <2>3
<1>7. ASSUME NEW k \in Jobs, CreateJob(k) \/ ApiStep(k) \/ Command(k)
      PROVE  LiveRuns(j)' # {}
  <2>1. run' = run /\ status[j] = "running"
    BY <1>7
    DEF CreateJob, ApiStep, CancelWrite, RetryWrite, Command, CommandCancel,
        CommandRetry, UpdateJobStatus, TypeOK
  <2>2. QED
    BY <1>2, <2>1, LiveSame
<1>8. CASE Restart
  <2>1. LiveRuns(j) # {}
    BY <1>1, <1>8 DEF Restart, RunningHasRun
  <2>2. j \in history'.interrupted
    BY <1>8, <2>1 DEF Restart, TypeOK
  <2>3. QED
    BY <2>2
<1>9. QED
  BY <1>3, <1>4, <1>5, <1>6, <1>7, <1>8
  DEF Next, EngineStep, EngineTick, RunStep, CancelRead, RetryRead, LoseRequest, vars

\* A job that says running has a goroutine at work, unless a restart took it.
THEOREM RunningHasRunHolds == Spec => []RunningHasRun
<1>1. Init => IInv /\ RunningHasRun
  BY InitHolds DEF Init, RunningHasRun
<1>2. IInv /\ RunningHasRun /\ [Next]_vars => (IInv /\ RunningHasRun)'
  BY IInvStep, RunningStep DEF IInv
<1>3. QED
  BY <1>1, <1>2, PTL DEF Spec

Has(j) ==
  /\ j \in history.succeeded
  /\ JobType[j] = "hdr_detect" => <<j, "hdr">> \in rows

Earned ==
  \A r \in Runs :
    /\ run[r] = "ok" => Has(JobOf(r))
    /\ run[r] = "scanning" => JobType[JobOf(r)] = "analysis"

\* What a job has it keeps.
LEMMA HasKept == ASSUME TypeOK, [Next]_vars, NEW j, Has(j) PROVE Has(j)'
<1>1. history.succeeded \subseteq history'.succeeded
  BY DEF Next, vars, EngineStep, EngineTick, ExpandControllerAnalysisJob, Acquire,
         RunStep, RunFails, DetectOrEncode, ProbeStreamInfo, DetectScenes, Finish,
         Return, CreateJob, CancelRead, RetryRead, LoseRequest, ApiStep,
         CancelWrite, RetryWrite, Command, CommandCancel, CommandRetry,
         Restart, TypeOK
<1>2. rows \subseteq rows'
  BY DEF Next, vars, EngineStep, EngineTick, ExpandControllerAnalysisJob, Acquire,
         RunStep, RunFails, DetectOrEncode, ProbeStreamInfo, DetectScenes, Finish,
         UpsertAnalysisResult, CreateJob, CancelRead, RetryRead, LoseRequest, ApiStep,
         CancelWrite, RetryWrite, Command, CommandCancel, CommandRetry,
         Restart
<1>3. QED
  BY <1>1, <1>2 DEF Has

LEMMA EarnedStep == TypeOK /\ Earned /\ [Next]_vars => Earned'
<1> SUFFICES ASSUME TypeOK, Earned, [Next]_vars, NEW r \in Runs
             PROVE  /\ run'[r] = "ok" => Has(JobOf(r))'
                    /\ run'[r] = "scanning" => JobType[JobOf(r)] = "analysis"
  BY DEF Earned, JobOf
<1>1. CASE run'[r] = run[r]
  BY <1>1, HasKept DEF Earned
<1>2. CASE run'[r] # run[r] /\ run'[r] \in {"ok", "scanning"}
  <2>1. DetectOrEncode(r) \/ ProbeStreamInfo(r) \/ DetectScenes(r)
    <3>1. ASSUME NEW q \in Runs, Acquire(q) \/ RunFails(q) \/ Finish(q) PROVE FALSE
      BY <1>2, <3>1 DEF Acquire, RunFails, Finish, Return, TypeOK
    <3>2. ASSUME NEW j \in Jobs, ExpandControllerAnalysisJob(j) PROVE FALSE
      BY <1>2, <3>2 DEF ExpandControllerAnalysisJob, TypeOK
    <3>3. ~Restart
      BY <1>2 DEF Restart
    <3>4. ASSUME NEW q \in Runs,
                 DetectOrEncode(q) \/ ProbeStreamInfo(q) \/ DetectScenes(q)
          PROVE  q = r
      BY <1>2, <3>4 DEF DetectOrEncode, ProbeStreamInfo, DetectScenes, Return, TypeOK
    <3>5. run' # run
      BY <1>2
    <3>6. QED
      BY <3>1, <3>2, <3>3, <3>4, <3>5
      DEF Next, vars, EngineStep, EngineTick, RunStep, CreateJob, CancelRead,
          RetryRead, LoseRequest, ApiStep, CancelWrite, RetryWrite, Command,
          CommandCancel, CommandRetry
  <2>2. CASE DetectOrEncode(r)
    <3>1. run'[r] = "ok" /\ JobOf(r) \in history'.succeeded
      BY <2>2, RunJob DEF DetectOrEncode, Return, TypeOK
    <3>2. JobType[JobOf(r)] = "hdr_detect" => <<JobOf(r), "hdr">> \in rows'
      BY <2>2 DEF DetectOrEncode
    <3>3. QED
      BY <3>1, <3>2 DEF Has, JobOf
  <2>3. CASE ProbeStreamInfo(r)
    BY <2>3 DEF ProbeStreamInfo, TypeOK
  <2>4. CASE DetectScenes(r)
    <3>1. run'[r] = "ok" /\ JobOf(r) \in history'.succeeded
      BY <2>4, RunJob DEF DetectScenes, Return, TypeOK
    <3>2. JobType[JobOf(r)] = "analysis"
      BY <2>4 DEF DetectScenes, Earned
    <3>3. QED
      BY <3>1, <3>2 DEF Has, JobOf
  <2>5. QED
    BY <2>1, <2>2, <2>3, <2>4
<1>3. QED
  BY <1>1, <1>2

LEMMA CompletedStep ==
  TypeOK /\ Earned /\ CompletedWasRun /\ [Next]_vars => CompletedWasRun'
<1> SUFFICES ASSUME TypeOK, Earned, CompletedWasRun, [Next]_vars,
                    NEW j \in Jobs, status'[j] = "completed"
             PROVE  Has(j)'
  BY DEF CompletedWasRun, Has
<1>1. CASE status[j] = "completed"
  BY <1>1, HasKept DEF CompletedWasRun, Has
<1>2. CASE status[j] # "completed"
  <2>1. \E r \in Runs : Finish(r)
    BY <1>2
    DEF Next, vars, EngineStep, EngineTick, ExpandControllerAnalysisJob, Acquire,
        RunStep, RunFails, DetectOrEncode, ProbeStreamInfo, DetectScenes,
        StatusAtLaunch, UpdateJobStatus, CreateJob, CancelRead, RetryRead,
        LoseRequest, ApiStep, CancelWrite, RetryWrite, Command, CommandCancel, CommandRetry,
        Restart, TypeOK
  <2>2. PICK r \in Runs : Finish(r)
    BY <2>1
  <2>3. JobOf(r) = j /\ run[r] = "ok"
    BY <1>2, <2>2, RunJob DEF Finish, UpdateJobStatus, FinalStatus, TypeOK
  <2>4. Has(j)
    BY <2>3 DEF Earned
  <2>5. QED
    BY <2>4, HasKept
<1>3. QED
  BY <1>1, <1>2

\* A completed job had a goroutine that succeeded, and a completed hdr_detect
\* has written its source, whatever cancels, retries and restarts did.
THEOREM CompletedWasRunHolds == Spec => []CompletedWasRun
<1>1. Init => IInv /\ Earned /\ CompletedWasRun
  BY InitHolds DEF Init, Earned, CompletedWasRun
<1>2. IInv /\ Earned /\ CompletedWasRun /\ [Next]_vars
        => (IInv /\ Earned /\ CompletedWasRun)'
  BY IInvStep, EarnedStep, CompletedStep DEF IInv
<1>3. QED
  BY <1>1, <1>2, PTL DEF Spec

================================================================================
