---------------------------- MODULE MCAgentRegistry ----------------------------
(***************************************************************************)
(* Instances of AgentRegistry for TLC.                                     *)
(***************************************************************************)
EXTENDS AgentRegistry

CONSTANT a1

OneAgent == {a1}

================================================================================
