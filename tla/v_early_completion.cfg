CONSTANTS
  a1 = a1
  a2 = a2
  NoAgent = NoAgent
  Agents <- TwoAgents
  Jobs <- OneJob
  Chunks <- TwoChunks
  Tagged = {}
  MaxAgentCrashes = 0
  MaxControllerCrashes = 0
  MaxLosses = 0
  MaxCancels = 0
  MaxRetries = 0
  RenderMayFail = FALSE
  ProgressMayLag = FALSE
  ClaimsDuringExpansion = FALSE
  Commands = FALSE
SPECIFICATION Spec
CHECK_DEADLOCK FALSE
INVARIANTS
  CompletedMeansAllChunksSucceeded
