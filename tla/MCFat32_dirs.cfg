SPECIFICATION Spec
CONSTANTS
  TotalClusters = 4
  FatCount = 1
  ClusterSize = 1
  SlotCount = 4
  Bytes = {0}
  EQUALS = 9
  NEWLINE = 1
  LineChunk = 2
  InitialDisks <- Fresh
  FilePaths <- FilesAndDir
  DirPaths <- OneDir
  Payloads <- OneByte
  ConfigKeys = {}
  MaxSize = 1
  Crashes = TRUE
INVARIANTS
  Sound
PROPERTIES
  
  RemovesTheNamed
  
CHECK_DEADLOCK FALSE
