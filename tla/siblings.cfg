CONSTANTS
  a1 = a1
  a2 = a2
  NoAgent = NoAgent
  Agents <- TwoAgents
  Jobs <- OneJob
  Chunks <- TwoChunks
  Tagged = {}
  MaxAgentCrashes = 0
  MaxControllerCrashes = 0
  MaxLosses = 0
  MaxCancels = 1
  MaxRetries = 1
  RenderMayFail = TRUE
  ProgressMayLag = FALSE
  ClaimsDuringExpansion = TRUE
  Commands = TRUE
SPECIFICATION Spec
SYMMETRY AgentSymmetry
CHECK_DEADLOCK FALSE
INVARIANTS
  TypeOK
  CancelLeavesNothingPending
  ResultsAreCounted
