\* One renamed file is kept; the rest is room for a late tick, a failure of each
\* kind, a restart, a clock set back once and one file deleted by hand.
SPECIFICATION FairSpec
CONSTANTS
  Retain = 1
  Faults = {"write", "rename", "create"}
  MaxHour = 3
  MaxRecords = 3
  MaxRestarts = 1
  MaxSetBacks = 1
  MaxCleanups = 1
INVARIANTS FilesInOrder NothingMissing RetentionKept
PROPERTIES OnlyOverdueDeleted RotationCatchesUp
CHECK_DEADLOCK FALSE
