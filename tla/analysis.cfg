CONSTANTS
  Jobs = {1, 2}
  JobType <- TwoTypes
  Concurrency = 1
  MaxLaunches = 2
  MaxRestarts = 1
  MaxCancels = 1
  MaxRetries = 1
  MaxLosses = 1
SPECIFICATION FairSpec
CHECK_DEADLOCK FALSE
INVARIANTS
  TypeOK
  OneRunAtATime
  RunningHasRun
  CompletedWasRun
  SlotsAreHeld
PROPERTIES
  JobsAreAnswered
