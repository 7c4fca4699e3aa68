SPECIFICATION Spec
CONSTANTS
  a = a
  b = b
  c = c
  d = d
  Task <- MCTask
  Preemptible <- MCPreemptible
  Idle = idle
  NoTask = none
  MaxDepth = 2
SYMMETRY Symmetry
INVARIANTS
  MutualExclusion
  NoLostWakeup
  AssertionsHold
PROPERTIES
  IsReentrantLock
