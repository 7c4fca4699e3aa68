SPECIFICATION Spec
CONSTANTS
  NR_TASKS = 4
  WORD = 16
  JIFFY = 10
  UserPriority = 2
  SleepMs = {5, 25}
  MaxJiffies = 5
INVARIANTS
  TicksAreTheRestOfTheSlice
