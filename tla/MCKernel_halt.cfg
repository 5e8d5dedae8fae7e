SPECIFICATION Spec
CONSTANTS
  Entries = 6
  DirEntries = 5
  WordBits = 1
  PagesCount = 4
  IntrPagesCount = 5
  KERNEL_STACK_BASE = 18
  USER_PROGRAM_BASE = 24
  KDir = 1
  KTab1 = 2
  KTab2 = 3
  MAX_PROCESSES = 1
  MaxPid = 2
  MaxUnread = 12
  Withheld <- Whole
INVARIANT
  HaltReasonIsTrue
CHECK_DEADLOCK FALSE
