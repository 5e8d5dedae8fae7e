SPECIFICATION Spec
CONSTANTS
  LastLba = 2
  SectorSize = 4
  Payloads <- FourBytes
  MaxCount = 2
INVARIANTS
  WrittenBack
CHECK_DEADLOCK FALSE
