\* No system call fails; the process is restarted once.
SPECIFICATION Spec
CONSTANTS
  Retain = 1
  Faults = {}
  MaxHour = 3
  MaxRecords = 3
  MaxRestarts = 1
  MaxSetBacks = 0
  MaxCleanups = 0
INVARIANT HistoryKnowsAll
CHECK_DEADLOCK FALSE
