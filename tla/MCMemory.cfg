SPECIFICATION MemorySpec
CONSTANTS
  BITS = 2
  length = 3
  offset = 2
  MaxCount = 3
  PAGE_SIZE = 8
  HEADER = 2
  MIN_BLOCK = 3
  DESC_COUNT = 2
  Request <- MCRequest
  ram = ram
  reserved = reserved
  Tables <- MCTables
  ZONE_VALID = ram
  WORD = 256
  Mapped = 8
INVARIANTS
  BitsMatchRuns
  PanicsOnlyWhenFull
  FreeListsAreExact
  PagesAreHeld
  MemoryIsDivided
  FreePagesAreAhead
PROPERTIES
  IsPageAllocator
  IsHeap
CHECK_DEADLOCK FALSE
