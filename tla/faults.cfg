CONSTANTS
  a1 = a1
  a2 = a2
  NoAgent = NoAgent
  Agents <- TwoAgents
  Jobs <- OneJob
  Chunks <- OneChunk
  Tagged = {}
  MaxAgentCrashes = 1
  MaxControllerCrashes = 1
  MaxLosses = 1
  MaxCancels = 1
  MaxRetries = 1
  RenderMayFail = FALSE
  ProgressMayLag = TRUE
  ClaimsDuringExpansion = TRUE
  Commands = FALSE
SPECIFICATION Spec
SYMMETRY AgentSymmetry
CHECK_DEADLOCK FALSE
INVARIANTS
  ExclusiveExecution
  CompletedNotRerun
  CompletedWasProduced
  ExpandedOnce
PROPERTIES
  KeepsPromise
