----------------------------- MODULE MCJobDispatch -----------------------------
(***************************************************************************)
(* Instances of JobDispatch and its refinement for TLC.                    *)
(***************************************************************************)
EXTENDS JobRefinement, TLC

CONSTANTS a1, a2

OneJob == {1}

TwoAgents == {a1, a2}

TwoChunks == [j \in Jobs |-> 2]
OneChunk == [j \in Jobs |-> 1]

AgentSymmetry == Permutations(Agents)

\* The temporal properties speak of behaviours in which every state is orderly:
\* their run does not follow a behaviour beyond the first state that is not.
AllOrderly == \A j \in Jobs : Orderly(j)

================================================================================
