------------------------------ MODULE MCAgentSide ------------------------------
(***************************************************************************)
(* Instances of TaskLogs and AgentUpgrade for TLC.  The two share no       *)
(* state: an instance is a log or an upgrader, chosen at the start.        *)
(***************************************************************************)
EXTENDS TaskLogs, AgentUpgrade

VARIABLE part

vars == <<part, logVars, upVars>>

\* The part that is not chosen stays in one of its initial states.
AtRest == UpgradeInit /\ agent.version = 1 /\ agent.kind = "foreground"

Init == LogsInit /\ ((part = "logs" /\ AtRest) \/ (part = "upgrade" /\ UpgradeInit))

Next == \/ part = "logs" /\ LogsNext /\ UNCHANGED <<part, upVars>>
        \/ part = "upgrade" /\ UpgradeNext /\ UNCHANGED <<part, logVars>>

Spec == Init /\ [][Next]_vars
FairSpec == Spec /\ UpgradeFairness

\* Types of both parts.
SideTypeOK == LogsTypeOK /\ UpgradeTypeOK

================================================================================
