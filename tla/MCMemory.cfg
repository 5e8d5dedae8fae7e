SPECIFICATION Spec
CONSTANTS
  Entries = 4
  DirEntries = 5
  WordBits = 2
  PagesCount = 7
  IntrPagesCount = 4
  KERNEL_STACK_BASE = 12
  USER_PROGRAM_BASE = 16
  KDir = 1
  KTab1 = 2
  KTab2 = 3
INVARIANTS
  TypeOK
  BitmapIsExact
  HeldPagesReachable
  FramesHaveOneUse
CHECK_DEADLOCK FALSE
