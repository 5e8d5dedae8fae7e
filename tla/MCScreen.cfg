SPECIFICATION Spec
CONSTANTS
  WORD = 32
  VGA_WIDTH = 2
  VGA_HEIGHT = 3
  Calls <- OneOrTwo
  Keys <- Letters
  HaltMessage <- Halted
  PanicMessage <- Panicked
  MaxText = 8
INVARIANTS
  ShowsText
  HaltIsReadable
  
CHECK_DEADLOCK FALSE
