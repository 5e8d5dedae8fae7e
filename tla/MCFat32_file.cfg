SPECIFICATION Spec
CONSTANTS
  TotalClusters = 4
  FatCount = 1
  ClusterSize = 2
  SlotCount = 3
  Bytes = {0, 1, 2, 3}
  EQUALS = 3
  NEWLINE = 2
  LineChunk = 2
  InitialDisks <- Fresh
  FilePaths <- OneFile
  DirPaths = {}
  Payloads <- Writes
  ConfigKeys <- OneLetter
  MaxSize = 4
  Crashes = FALSE
INVARIANTS
  TypeOK
  ReadIsExact
  LinesAreWhole
  
PROPERTIES
  HandleStaysInSync
  WriteIsExact
CHECK_DEADLOCK FALSE
