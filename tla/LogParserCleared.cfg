\* The files of LogParserMgr.cfg, parsed once: one has equal column names.
SPECIFICATION Spec
CONSTANTS
  IntLimit = 4
  Files <- MCFiles
  Contents <- MCContents
  NewLines <- MCNewLines
  MaxParses = 1
  MaxWrites = 1
  Slots = {t1, t2}
INVARIANT ClearingIsHarmless
CHECK_DEADLOCK FALSE
