SPECIFICATION Spec
CONSTANTS
  v1 = v1
  f1 = f1
  f2 = f2
  f3 = f3
  f4 = f4
  f5 = f5
  f6 = f6
  Task = {1, 2, 3}
  InitTask = 1
  None = None
  Frame <- SixFrames
  HEAP = 1
  STACK = 1
  TABLE = 1
  Value <- MCValue
  Junk = Junk
  BrkArgs = {0, 1}
  Drift = 1
  WindowStays = FALSE
SYMMETRY Symmetry
INVARIANTS
  CountsAreReferences
  SharedIsReadOnly
  CacheIsCurrent
  VmapMatchesTables
  FreePagesInStep
PROPERTIES
  IsPrivateMemory
