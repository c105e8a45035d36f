CONSTANTS
  Paths = {p1, p2}
  Callers = {c1, c2}
  MaxSources = 2
  MaxJobs = 4
  MaxRows = 4
  Priorities = {0, 1}
  ListSize = 2
  MaxFailures = 1
  NoPath = NoPath
  MapNames = {1, 2}
  Shares = {"share", "folder"}
  Files = {"film", "clip"}
  Under <- Nested
  Config <- Seeds
  NoPrefix = NoPrefix
  MaxMappings = 4
  MaxEdits = 2
  MaxStarts = 3
  Chunks = 2
  OtherNames = {"CRF"}
  Values = {"18"}
  ValueOfChunk <- ChunkTexts
  HdrValues = {"", "hdr10"}
  Templates = {t1, t2}
  NoTemplate = NoTemplate
  Broken = Broken
  Unset = Unset
  MaxRenderEdits = 2
  MaxRenderCrashes = 1
SPECIFICATION Spec
SYMMETRY Symmetry
CHECK_DEADLOCK FALSE
INVARIANTS
  CatalogTypeOK
  
  RestartKeepsMappings
  DirsComplete
  ScriptsAgree
