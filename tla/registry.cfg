CONSTANTS
  a1 = a1
  Agents <- OneAgent
  AutoApprove = {TRUE, FALSE}
  MaxCrashes = 2
  MaxLosses = 2
  MaxRequests = 3
SPECIFICATION FairSpec
CHECK_DEADLOCK FALSE
INVARIANTS
  TypeOK
  NoSelfApproval
  OfflineIsStale
PROPERTIES
  RunningAgentComesBack
  DeadAgentIsNoticed
