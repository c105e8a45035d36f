-------------------------- MODULE AgentRegistry_proofs --------------------------
(***************************************************************************)
(* Proofs about AgentRegistry: type correctness, and the two safety        *)
(* invariants, for any set of agents and any bounds.                       *)
(***************************************************************************)
EXTENDS AgentRegistry, TLAPS

LEMMA InitType == Init => TypeOK
  BY RegistryAssumption
  DEF Init, TypeOK, AgentStatus, BeatAge, AgentState, NoRow, Down

(***************************************************************************)
(* Every action keeps the types.                                           *)
(***************************************************************************)

LEMMA TypeRegister ==
  ASSUME TypeOK, NEW a \in Agents,
         StartAgent(a) \/ RegisterStep(a) \/ LoseRegister(a)
  PROVE  TypeOK'
<1> USE DEF TypeOK, AgentStatus, BeatAge, AgentState
<1>1. CASE StartAgent(a)
  BY <1>1 DEF StartAgent, Down
<1>2. CASE Register(a)
  <2>1. UpsertAgent(row[a]) \in [status : AgentStatus, beat : BeatAge]
    BY DEF UpsertAgent, NewRow
  <2>2. row' \in [Agents -> [status : AgentStatus, beat : BeatAge]]
    BY <1>2, <2>1 DEF Register
  <2>3. PICK s \in AgentStatus :
          proc' = [proc EXCEPT ![a] = [@ EXCEPT !.pc = "approve", !.seen = s]]
    BY <1>2, <2>1 DEF Register
  <2>4. proc' \in [Agents -> [pc : {"down", "register", "approve", "reply", "up"},
                              seen : AgentStatus, state : AgentState]]
    BY <2>3
  <2>5. UNCHANGED <<beat, approval, spent, decided>>
    BY <1>2 DEF Register
  <2>6. QED
    BY <2>2, <2>4, <2>5
<1>3. CASE RegisterAutoApprove(a)
  BY <1>3 DEF RegisterAutoApprove, UpdateAgentStatus, Decide
<1>4. CASE RegisterKeep(a)
  BY <1>4 DEF RegisterKeep
<1>5. CASE RegisterReply(a)
  BY <1>5 DEF RegisterReply
<1>6. CASE LoseRegister(a)
  <2>1. spent' \in [crash : Nat, loss : Nat, request : Nat]
    BY <1>6 DEF LoseRegister
  <2>2. proc' \in [Agents -> [pc : {"down", "register", "approve", "reply", "up"},
                              seen : AgentStatus, state : AgentState]]
    BY <1>6 DEF LoseRegister
  <2>3. QED
    BY <1>6, <2>1, <2>2 DEF LoseRegister
<1>7. QED
  BY <1>1, <1>2, <1>3, <1>4, <1>5, <1>6 DEF RegisterStep

LEMMA TypeUp ==
  ASSUME TypeOK, NEW a \in Agents,
         \/ TakeTask(a) \/ FinishTask(a) \/ HeartbeatStep(a)
         \/ LoseHeartbeat(a) \/ CrashAgent(a) \/ TimePasses(a)
  PROVE  TypeOK'
<1> USE DEF TypeOK, AgentStatus, BeatAge, AgentState
<1>1. CASE TakeTask(a)
  BY <1>1 DEF TakeTask
<1>2. CASE FinishTask(a)
  BY <1>2 DEF FinishTask
<1>3. CASE SendHeartbeat(a)
  BY <1>3 DEF SendHeartbeat
<1>4. CASE Heartbeat(a)
  BY <1>4 DEF Heartbeat, UpdateAgentHeartbeat, MapAgentState
<1>5. CASE LoseHeartbeat(a)
  BY <1>5 DEF LoseHeartbeat
<1>6. CASE CrashAgent(a)
  BY <1>6 DEF CrashAgent, Down
<1>7. CASE TimePasses(a)
  BY <1>7 DEF TimePasses
<1>8. QED
  BY <1>1, <1>2, <1>3, <1>4, <1>5, <1>6, <1>7 DEF HeartbeatStep

LEMMA TypeRequest ==
  ASSUME TypeOK, NEW a \in Agents,
         ApproveRead(a) \/ ApproveWrite(a) \/ Enable(a) \/ Drain(a)
  PROVE  TypeOK'
<1> USE DEF TypeOK, AgentStatus, BeatAge, AgentState, Request,
            UpdateAgentStatus, Decide
<1>1. CASE ApproveRead(a)
  BY <1>1 DEF ApproveRead
<1>2. CASE ApproveWrite(a)
  BY <1>2 DEF ApproveWrite
<1>3. CASE Enable(a)
  BY <1>3 DEF Enable
<1>4. CASE Drain(a)
  BY <1>4 DEF Drain
<1>5. QED
  BY <1>1, <1>2, <1>3, <1>4

LEMMA TypeStep == TypeOK /\ [Next]_vars => TypeOK'
<1> SUFFICES ASSUME TypeOK, [Next]_vars PROVE TypeOK'
  OBVIOUS
<1>1. CASE UNCHANGED vars
  BY <1>1 DEF vars, TypeOK
<1>2. CASE MarkStaleAgents
  BY <1>2 DEF MarkStaleAgents, TypeOK, AgentStatus, BeatAge
<1>3. CASE Next /\ ~MarkStaleAgents
  BY <1>3, TypeRegister, TypeUp, TypeRequest DEF Next
<1>4. QED
  BY <1>1, <1>2, <1>3

\* The rows, the agent processes, the heartbeats and approvals in flight always
\* have their types, for any number of agents, crashes, losses and requests.
THEOREM TypeCorrect == Spec => []TypeOK
  BY InitType, TypeStep, PTL DEF Spec

--------------------------------------------------------------------------------
(***************************************************************************)
(* NoSelfApproval is not inductive: the reply of a Register call depends   *)
(* on the status its handler saw.  Undecided adds that the handler of an   *)
(* agent nobody decided about saw pending_approval.                        *)
(***************************************************************************)

Undecided ==
  \A a \in Agents \ decided :
    proc[a].pc \in {"approve", "reply"} => proc[a].seen = "pending_approval"

Outside == NoSelfApproval /\ Undecided

LEMMA OutsideInit == Init => Outside
  BY DEF Init, Outside, NoSelfApproval, Undecided, NoRow, Down

LEMMA OutsideStep == TypeOK /\ Outside /\ [Next]_vars => Outside'
<1> SUFFICES ASSUME TypeOK, Outside, [Next]_vars PROVE Outside'
  OBVIOUS
<1> USE DEF TypeOK, Outside, NoSelfApproval, Undecided, AgentState
<1>1. CASE UNCHANGED vars
  BY <1>1 DEF vars
<1>2. CASE MarkStaleAgents
  BY <1>2 DEF MarkStaleAgents, Stale
<1>3. ASSUME NEW a \in Agents, StartAgent(a) \/ LoseRegister(a) PROVE Outside'
  <2>1. \A b \in Agents : proc'[b].pc \in {proc[b].pc, "register"}
    BY <1>3 DEF StartAgent, LoseRegister, Down
  <2>2. \A b \in Agents : proc'[b].pc \in {"approve", "reply"} => proc'[b] = proc[b]
    BY <1>3 DEF StartAgent, LoseRegister, Down
  <2>3. QED
    BY <1>3, <2>1, <2>2 DEF StartAgent, LoseRegister
<1>4. ASSUME NEW a \in Agents, Register(a) PROVE Outside'
  BY <1>4 DEF Register, UpsertAgent, NewRow
<1>5. ASSUME NEW a \in Agents, RegisterAutoApprove(a) PROVE Outside'
  BY <1>5 DEF RegisterAutoApprove, UpdateAgentStatus, Decide
<1>6. ASSUME NEW a \in Agents, RegisterKeep(a) \/ RegisterReply(a) PROVE Outside'
  <2>1. CASE RegisterKeep(a)
    BY <2>1 DEF RegisterKeep
  <2>2. CASE RegisterReply(a)
    <3>1. \A b \in Agents : /\ proc'[b].seen = proc[b].seen
                            /\ b # a => proc'[b] = proc[b]
      BY <2>2 DEF RegisterReply
    <3>2. a \notin decided => proc'[a].pc = "register"
      BY <2>2 DEF RegisterReply, Approved
    <3>3. QED
      BY <2>2, <3>1, <3>2 DEF RegisterReply
  <2>3. QED
    BY <1>6, <2>1, <2>2
<1>7. ASSUME NEW a \in Agents, TakeTask(a) \/ FinishTask(a) PROVE Outside'
  <2>1. \A b \in Agents : proc'[b].pc = proc[b].pc /\ proc'[b].seen = proc[b].seen
    BY <1>7 DEF TakeTask, FinishTask
  <2>2. QED
    BY <1>7, <2>1 DEF TakeTask, FinishTask
<1>8. ASSUME NEW a \in Agents, SendHeartbeat(a) PROVE Outside'
  BY <1>8 DEF SendHeartbeat
<1>9. ASSUME NEW a \in Agents, Heartbeat(a) \/ LoseHeartbeat(a) PROVE Outside'
  BY <1>9 DEF Heartbeat, LoseHeartbeat, UpdateAgentHeartbeat, MapAgentState
<1>10. ASSUME NEW a \in Agents, CrashAgent(a) PROVE Outside'
  BY <1>10 DEF CrashAgent, Down
<1>11. ASSUME NEW a \in Agents, TimePasses(a) PROVE Outside'
  BY <1>11 DEF TimePasses
<1>12. ASSUME NEW a \in Agents, ApproveRead(a) PROVE Outside'
  BY <1>12 DEF ApproveRead, Request
<1>13. ASSUME NEW a \in Agents, ApproveWrite(a) \/ Enable(a) \/ Drain(a)
       PROVE  Outside'
  BY <1>13 DEF ApproveWrite, Enable, Drain, Request, UpdateAgentStatus, Decide
<1>14. QED
  BY <1>1, <1>2, <1>3, <1>4, <1>5, <1>6, <1>7, <1>8, <1>9, <1>10, <1>11, <1>12,
     <1>13 DEF Next, RegisterStep, HeartbeatStep

\* However often an agent registers, dies, loses its calls or is looked at by
\* the stale check, it stays outside until somebody sets its status.
THEOREM NoSelfApprovalHolds == Spec => []NoSelfApproval
<1>1. TypeOK /\ Outside /\ [Next]_vars => (TypeOK /\ Outside)'
  BY TypeStep, OutsideStep
<1>2. TypeOK /\ Outside => NoSelfApproval
  BY DEF Outside
<1>3. QED
  BY <1>1, <1>2, InitType, OutsideInit, PTL DEF Spec

--------------------------------------------------------------------------------
(***************************************************************************)
(* OfflineIsStale is inductive: of the five statements that write an agent *)
(* row only the stale check writes offline, and only a heartbeat renews    *)
(* last_heartbeat.                                                         *)
(***************************************************************************)

LEMMA OfflineStep == TypeOK /\ OfflineIsStale /\ [Next]_vars => OfflineIsStale'
<1> SUFFICES ASSUME TypeOK, OfflineIsStale, [Next]_vars PROVE OfflineIsStale'
  OBVIOUS
<1> USE DEF TypeOK, OfflineIsStale
<1>1. CASE UNCHANGED row
  BY <1>1
<1>2. CASE MarkStaleAgents
  BY <1>2 DEF MarkStaleAgents, Stale
<1>3. ASSUME NEW a \in Agents, Register(a) PROVE OfflineIsStale'
  BY <1>3 DEF Register, UpsertAgent, NewRow
<1>4. ASSUME NEW a \in Agents, Heartbeat(a) PROVE OfflineIsStale'
  BY <1>4 DEF Heartbeat, UpdateAgentHeartbeat, MapAgentState
<1>5. ASSUME NEW a \in Agents, TimePasses(a) PROVE OfflineIsStale'
  BY <1>5 DEF TimePasses
<1>6. ASSUME NEW a \in Agents,
             RegisterAutoApprove(a) \/ ApproveWrite(a) \/ Enable(a) \/ Drain(a)
      PROVE  OfflineIsStale'
  <2>1. \E s \in {"idle", "draining"} : row' = [row EXCEPT ![a].status = s]
    BY <1>6
    DEF RegisterAutoApprove, ApproveWrite, Enable, Drain, Decide, UpdateAgentStatus
  <2>2. QED
    BY <2>1
<1>7. ASSUME NEW a \in Agents,
             \/ StartAgent(a) \/ RegisterKeep(a) \/ RegisterReply(a)
             \/ LoseRegister(a) \/ TakeTask(a) \/ FinishTask(a)
             \/ SendHeartbeat(a) \/ LoseHeartbeat(a) \/ CrashAgent(a)
             \/ ApproveRead(a)
      PROVE  UNCHANGED row
  BY <1>7
  DEF StartAgent, RegisterKeep, RegisterReply, LoseRegister, TakeTask,
      FinishTask, SendHeartbeat, LoseHeartbeat, CrashAgent, ApproveRead
<1>8. QED
  BY <1>1, <1>2, <1>3, <1>4, <1>5, <1>6, <1>7
  DEF Next, RegisterStep, HeartbeatStep, vars

\* An offline row always has an old heartbeat.
THEOREM OfflineIsStaleHolds == Spec => []OfflineIsStale
<1>1. Init => OfflineIsStale
  BY DEF Init, OfflineIsStale, NoRow
<1>2. TypeOK /\ OfflineIsStale /\ [Next]_vars => (TypeOK /\ OfflineIsStale)'
  BY TypeStep, OfflineStep
<1>3. QED
  BY <1>1, <1>2, InitType, PTL DEF Spec

================================================================================
