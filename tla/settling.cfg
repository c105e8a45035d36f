CONSTANTS
  a1 = a1
  a2 = a2
  NoAgent = NoAgent
  Agents <- TwoAgents
  Jobs <- OneJob
  Chunks <- TwoChunks
  Tagged = {}
  MaxAgentCrashes = 0
  MaxControllerCrashes = 0
  MaxLosses = 0
  MaxCancels = 1
  MaxRetries = 1
  RenderMayFail = TRUE
  ProgressMayLag = TRUE
  ClaimsDuringExpansion = TRUE
  Commands = FALSE
SPECIFICATION FairSpec
CONSTRAINT AllOrderly
CHECK_DEADLOCK FALSE
PROPERTIES
  EveryJobSettles
  
