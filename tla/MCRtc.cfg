SPECIFICATION Spec
CONSTANTS
  Starts <- MCStarts
  Secs = {1, 3599, 86400}
  MaxCalls = 3
  MaxBusy = 2
  MaxLate = 1
INVARIANTS
  TimeReadIsWhole
  StartupTimeIsRight
  AlarmInTime
