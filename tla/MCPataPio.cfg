SPECIFICATION Spec
CONSTANTS
  LastLba = 2
  SectorSize = 4
  Payloads <- FourBytes
  MaxCount = 2
INVARIANTS
  TypeOK
  
  TransferIsInStep
  ReadIsTrue
PROPERTIES
  OnlyErrorsHang
CHECK_DEADLOCK FALSE
