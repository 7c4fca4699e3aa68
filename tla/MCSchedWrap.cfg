SPECIFICATION FairSpec
CONSTANTS
  NR_TASKS = 4
  WORD = 3
  JIFFY = 10
  UserPriority = 1
  SleepMs = {5, 25}
  MaxJiffies = 3
PROPERTIES
  SleepersWake
