CONSTANTS
  Lines = 3
  Outputs = {stdout, stderr}
  TicksPerSecond = 2
  MaxClock = 2
  PageSize = 2
  DownloadSize = 5
  StoreMax = 4
  StoreDefault = 2
  MaxFaults = 2
  Versions = {1, 2}
  DefaultVersion = 0
  NoFile = NoFile
  Down = Down
  MaxOffers = 4
  MaxMishaps = 2
SPECIFICATION FairSpec
CHECK_DEADLOCK FALSE
INVARIANTS
  SideTypeOK
  LinesAccounted
  LinesOnce
  ReadsComplete
  BinaryKept

  
