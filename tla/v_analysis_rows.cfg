CONSTANTS
  Jobs = {1, 2}
  JobType <- TwoTypes
  Concurrency = 1
  MaxLaunches = 3
  MaxRestarts = 0
  MaxCancels = 0
  MaxRetries = 2
  MaxLosses = 0
SPECIFICATION Spec
CHECK_DEADLOCK FALSE
INVARIANTS
  CompletedAnalysisHasScenes
