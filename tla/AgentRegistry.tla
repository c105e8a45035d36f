----------------------------- MODULE AgentRegistry -----------------------------
(***************************************************************************)
(* The agents table: an agent process registers until it is approved, then *)
(* sends heartbeats and takes tasks; administrators approve, enable, drain *)
(* and disable; the dispatch loop marks agents offline whose heartbeat is  *)
(* too old.  The status column is written by all of them, one statement at *)
(* a time and unconditionally.                                             *)
(*                                                                         *)
(* A definition named X_Something before a definition X is a seeded fault: *)
(* X as a plausible bug would have it.  Nothing uses it.                   *)
(***************************************************************************)
EXTENDS Naturals

CONSTANTS
  Agents,        \* agent processes; one row each, keyed by the hostname
  AutoApprove,   \* the values agent.auto_approve has in the controller's
                 \* configuration, which a restart of it may change
  MaxCrashes, MaxLosses, MaxRequests
                 \* how often an agent dies, a call breaks and an
                 \* administrator acts in a behaviour

ASSUME RegistryAssumption ==
  /\ AutoApprove \subseteq BOOLEAN
  /\ {MaxCrashes, MaxLosses, MaxRequests} \subseteq Nat

VARIABLES
  row,       \* agents: status and how old last_heartbeat is
  proc,      \* each agent process with the Register handler that serves it
  beat,      \* the state carried by a heartbeat in flight, or "none"
  approval,  \* the agents whose POST approve was found pending, not yet written
  spent,     \* how many crashes, losses and requests happened so far
  decided    \* auxiliary: the rows an administrator, or auto_approve, has set
             \* the status of

vars == <<row, proc, beat, approval, spent, decided>>

--------------------------------------------------------------------------------
AgentState  == {"IDLE", "BUSY"}
AgentStatus == {"absent", "pending_approval", "idle", "busy", "offline", "draining"}
BeatAge     == {"never", "fresh", "old"}

NoRow  == [status |-> "absent", beat |-> "never"]
NewRow == [status |-> "pending_approval", beat |-> "never"]

\* seen: the status the Register handler read, or last wrote.
Down == [pc |-> "down", seen |-> "absent", state |-> "IDLE"]

\* Unconditional: whatever the status has become.
UpdateAgentStatus(a, s) == row' = [row EXCEPT ![a].status = s]

\* Somebody sets the status of the row, approving it or not.
Decide(a, s) == UpdateAgentStatus(a, s) /\ decided' = decided \cup {a}

--------------------------------------------------------------------------------
(* Registration                                                            *)

StartAgent(a) ==
  /\ proc[a].pc = "down"
  /\ proc' = [proc EXCEPT ![a] = [Down EXCEPT !.pc = "register"]]
  /\ UNCHANGED <<row, beat, approval, spent, decided>>

\* ON CONFLICT (name) DO UPDATE leaves status and last_heartbeat alone.
UpsertAgent_Reset(r) == [r EXCEPT !.status = IF @ = "absent" THEN "pending_approval"
                                                             ELSE "idle"]
UpsertAgent(r) == IF r.status = "absent" THEN NewRow ELSE r

Register(a) ==
  /\ proc[a].pc = "register"
  /\ row' = [row EXCEPT ![a] = UpsertAgent(@)]
  /\ proc' = [proc EXCEPT ![a] =
                [@ EXCEPT !.pc = "approve", !.seen = UpsertAgent(row[a]).status]]
  /\ UNCHANGED <<beat, approval, spent, decided>>

RegisterAutoApprove(a) ==
  /\ proc[a].pc = "approve"
  /\ TRUE \in AutoApprove /\ proc[a].seen = "pending_approval"
  /\ Decide(a, "idle")
  /\ proc' = [proc EXCEPT ![a].pc = "reply", ![a].seen = "idle"]
  /\ UNCHANGED <<beat, approval, spent>>

RegisterKeep(a) ==
  /\ proc[a].pc = "approve"
  /\ FALSE \in AutoApprove \/ proc[a].seen # "pending_approval"
  /\ proc' = [proc EXCEPT ![a].pc = "reply"]
  /\ UNCHANGED <<row, beat, approval, spent, decided>>

Approved_Online(s) == s \in {"idle", "busy"}
\* Any status but pending_approval counts as approved.
Approved(s) == s # "pending_approval"

\* An agent that is not approved registers again, forever.
RegisterReply(a) ==
  /\ proc[a].pc = "reply"
  /\ proc' = [proc EXCEPT ![a].pc = IF Approved(proc[a].seen) THEN "up"
                                                              ELSE "register"]
  /\ UNCHANGED <<row, beat, approval, spent, decided>>

\* The call breaks after a statement of the handler: the agent tries again.
LoseRegister(a) ==
  /\ proc[a].pc \in {"approve", "reply"}
  /\ spent.loss < MaxLosses
  /\ spent' = [spent EXCEPT !.loss = @ + 1]
  /\ proc' = [proc EXCEPT ![a].pc = "register"]
  /\ UNCHANGED <<row, beat, approval, decided>>

--------------------------------------------------------------------------------
(* A registered agent                                                      *)

\* PollTask looks at no agent row: whoever polls is given a task.
TakeTask(a) ==
  /\ proc[a].pc = "up"
  /\ proc[a].state = "IDLE"
  /\ proc' = [proc EXCEPT ![a].state = "BUSY"]
  /\ UNCHANGED <<row, beat, approval, spent, decided>>

FinishTask(a) ==
  /\ proc[a].pc = "up"
  /\ proc[a].state = "BUSY"
  /\ proc' = [proc EXCEPT ![a].state = "IDLE"]
  /\ UNCHANGED <<row, beat, approval, spent, decided>>

\* The state is read under the mutex, the call made after.
SendHeartbeat(a) ==
  /\ proc[a].pc = "up"
  /\ beat[a] = "none"
  /\ beat' = [beat EXCEPT ![a] = proc[a].state]
  /\ UNCHANGED <<row, proc, approval, spent, decided>>

MapAgentState_Raw(s) == s
MapAgentState(s) == IF s = "BUSY" THEN "busy" ELSE "idle"

UpdateAgentHeartbeat_KeepOffline(r, s) ==
  [status |-> IF r.status = "offline" THEN "offline" ELSE s, beat |-> "fresh"]
\* One UPDATE sets status and last_heartbeat; the agent reads the reply's flags
\* and only logs them.
UpdateAgentHeartbeat(r, s) == [status |-> s, beat |-> "fresh"]

Heartbeat(a) ==
  /\ beat[a] # "none"
  /\ row' = [row EXCEPT ![a] = UpdateAgentHeartbeat(@, MapAgentState(beat[a]))]
  /\ beat' = [beat EXCEPT ![a] = "none"]
  /\ UNCHANGED <<proc, approval, spent, decided>>

\* The call fails on the way: the agent logs it and waits for the next tick.
LoseHeartbeat(a) ==
  /\ beat[a] # "none"
  /\ spent.loss < MaxLosses
  /\ spent' = [spent EXCEPT !.loss = @ + 1]
  /\ beat' = [beat EXCEPT ![a] = "none"]
  /\ UNCHANGED <<row, proc, approval, decided>>

\* A heartbeat of a dying process may still reach the controller.
CrashAgent(a) ==
  /\ proc[a].pc # "down"
  /\ spent.crash < MaxCrashes
  /\ spent' = [spent EXCEPT !.crash = @ + 1]
  /\ proc' = [proc EXCEPT ![a] = Down]
  /\ \E b \in {beat[a], "none"} : beat' = [beat EXCEPT ![a] = b]
  /\ UNCHANGED <<row, approval, decided>>

--------------------------------------------------------------------------------
(* The dispatch loop's stale check                                         *)

TimePasses(a) ==
  /\ row[a].beat = "fresh"
  /\ row' = [row EXCEPT ![a].beat = "old"]
  /\ UNCHANGED <<proc, beat, approval, spent, decided>>

Stale_IdleOnly(r) == r.status = "idle" /\ r.beat = "old"
\* A NULL last_heartbeat is not older than anything.
Stale(r) == r.status \in {"idle", "busy"} /\ r.beat = "old"

MarkStaleAgents ==
  /\ \E a \in Agents : Stale(row[a])
  /\ row' = [a \in Agents |-> IF Stale(row[a])
                              THEN [row[a] EXCEPT !.status = "offline"] ELSE row[a]]
  /\ UNCHANGED <<proc, beat, approval, spent, decided>>

--------------------------------------------------------------------------------
(* Administrators                                                          *)

Request(a) ==
  /\ row[a].status # "absent"
  /\ spent.request < MaxRequests
  /\ spent' = [spent EXCEPT !.request = @ + 1]

\* POST /agents/{id}/approve: the status is checked, then written.
ApproveRead(a) ==
  /\ Request(a)
  /\ row[a].status = "pending_approval"
  /\ a \notin approval
  /\ approval' = approval \cup {a}
  /\ UNCHANGED <<row, proc, beat, decided>>

ApproveWrite(a) ==
  /\ a \in approval
  /\ Decide(a, "idle")
  /\ approval' = approval \ {a}
  /\ UNCHANGED <<proc, beat, spent>>

\* "agent approve" and "agent enable" of the command line check nothing.
Enable(a) ==
  /\ Request(a)
  /\ Decide(a, "idle")
  /\ UNCHANGED <<proc, beat, approval>>

\* POST /agents/{id}/drain, and "agent disable" of the command line.
Drain(a) ==
  /\ Request(a)
  /\ Decide(a, "draining")
  /\ UNCHANGED <<proc, beat, approval>>

--------------------------------------------------------------------------------
Init ==
  /\ row = [a \in Agents |-> NoRow]
  /\ proc = [a \in Agents |-> Down]
  /\ beat = [a \in Agents |-> "none"]
  /\ approval = {}
  /\ spent = [crash |-> 0, loss |-> 0, request |-> 0]
  /\ decided = {}

RegisterStep(a) ==
  \/ Register(a) \/ RegisterAutoApprove(a) \/ RegisterKeep(a) \/ RegisterReply(a)
HeartbeatStep(a) == SendHeartbeat(a) \/ Heartbeat(a)

Next ==
  \/ \E a \in Agents :
       \/ StartAgent(a) \/ RegisterStep(a) \/ LoseRegister(a)
       \/ TakeTask(a) \/ FinishTask(a) \/ HeartbeatStep(a)
       \/ LoseHeartbeat(a) \/ CrashAgent(a) \/ TimePasses(a)
       \/ ApproveRead(a) \/ ApproveWrite(a) \/ Enable(a) \/ Drain(a)
  \/ MarkStaleAgents

Spec == Init /\ [][Next]_vars

\* A running agent registers and sends heartbeats on its tickers, time passes,
\* and the loop checks on every tick.  Nothing makes a dead agent start again.
Fairness ==
  /\ \A a \in Agents : /\ WF_vars(RegisterStep(a))
                       /\ WF_vars(SendHeartbeat(a)) /\ WF_vars(Heartbeat(a))
                       /\ WF_vars(TimePasses(a))
  /\ WF_vars(MarkStaleAgents)

FairSpec == Spec /\ Fairness

--------------------------------------------------------------------------------
(* Properties                                                              *)

TypeOK ==
  /\ row \in [Agents -> [status : AgentStatus, beat : BeatAge]]
  /\ proc \in [Agents -> [pc : {"down", "register", "approve", "reply", "up"},
                          seen : AgentStatus, state : AgentState]]
  /\ beat \in [Agents -> AgentState \cup {"none"}]
  /\ approval \subseteq Agents
  /\ spent \in [crash : Nat, loss : Nat, request : Nat]
  /\ decided \subseteq Agents

\* An agent nobody decided about stays outside: it neither polls nor has a
\* heartbeat in flight, its row is pending_approval, and it cannot get past
\* that by registering again, by dying, or by being looked at by the stale check.
NoSelfApproval ==
  \A a \in Agents \ decided :
    /\ proc[a].pc # "up" /\ beat[a] = "none"
    /\ row[a].status \in {"absent", "pending_approval"}

\* Offline rows have an old heartbeat: a heartbeat takes the row out of offline
\* in the statement that renews it, whatever administrators write in between.
OfflineIsStale == \A a \in Agents : row[a].status = "offline" => row[a].beat = "old"

\* An agent that was marked offline comes back by itself while it runs, also
\* after a restart: being offline is not a reason to ask for approval again.
RunningAgentComesBack ==
  \A a \in Agents :
    row[a].status = "offline" /\ proc[a].pc # "down"
      ~> row[a].status # "offline" \/ proc[a].pc = "down"

\* An agent that died after a heartbeat does not stay idle or busy, whether it
\* died idle, in a task or while a heartbeat was on its way.
DeadAgentIsNoticed ==
  \A a \in Agents :
    /\ proc[a].pc = "down"
    /\ row[a].status \in {"idle", "busy"}
    /\ row[a].beat # "never"
    ~> row[a].status \notin {"idle", "busy"} \/ proc[a].pc # "down"

--------------------------------------------------------------------------------
(* Statements of the documentation that the code does not keep             *)

\* Draining prevents new task assignments.
DrainStopsAssignment ==
  [][\A a \in Agents : row[a].status = "draining" /\ proc[a].state = "IDLE"
                         => proc'[a].state = "IDLE"]_vars

================================================================================
