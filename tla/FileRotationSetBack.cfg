\* Three hours are to be kept; the clock is set back one hour, once.
SPECIFICATION FairSpec
CONSTANTS
  Retain = 3
  Faults = {}
  MaxHour = 3
  MaxRecords = 3
  MaxRestarts = 0
  MaxSetBacks = 1
  MaxCleanups = 0
PROPERTY KeptForHours
CHECK_DEADLOCK FALSE
