SPECIFICATION Spec
CONSTANTS
  TotalClusters = 4
  FatCount = 2
  ClusterSize = 1
  SlotCount = 3
  Bytes = {0, 1, 2}
  EQUALS = 9
  NEWLINE = 1
  LineChunk = 2
  InitialDisks <- FreshOrGrown
  FilePaths <- TwoFiles
  DirPaths = {}
  Payloads <- Appends
  ConfigKeys = {}
  MaxSize = 3
  Crashes = TRUE
INVARIANTS
  Sound
PROPERTIES
  
  OthersUntouched
CHECK_DEADLOCK FALSE
