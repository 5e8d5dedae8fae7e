SPECIFICATION Spec
CONSTANTS
  KMALLOC_SIZE = 34
  Radix = 4
  Sizes = {1, 2, 16}
  Fills = {0, 2}
  MaxCalls = 4
  Leftovers = {0, 3}
INVARIANTS
  TypeOK
  OneBlockIsSafe
PROPERTIES
  LiveBytesKept
CHECK_DEADLOCK FALSE
