SPECIFICATION Spec
CONSTANTS
  Entries = 10
  DirEntries = 5
  WordBits = 1
  PagesCount = 6
  IntrPagesCount = 9
  KERNEL_STACK_BASE = 30
  USER_PROGRAM_BASE = 40
  KDir = 1
  KTab1 = 2
  KTab2 = 3
  MAX_PROCESSES = 3
  MaxPid = 4
  MaxUnread = 2
  Withheld <- Sizes
INVARIANTS
  TypeOK
  RunsInOwnSpace
  LoadedDirectoryLives
  KeepsItsStack
  Isolation
  PagesAccounted
PROPERTIES
  ScheduleEnds
  ReadEnds
  ExitLeavesNothing
CHECK_DEADLOCK FALSE
