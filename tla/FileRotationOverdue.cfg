\* No system call of the writer fails by itself; one file is deleted by hand.
SPECIFICATION Spec
CONSTANTS
  Retain = 1
  Faults = {}
  MaxHour = 3
  MaxRecords = 3
  MaxRestarts = 0
  MaxSetBacks = 0
  MaxCleanups = 1
INVARIANT OverdueRemoved
CHECK_DEADLOCK FALSE
