\* The files of LogParserMgr.cfg, parsed once: 3 + 3 is more than an int holds.
SPECIFICATION Spec
CONSTANTS
  IntLimit = 4
  Files <- MCFiles
  Contents <- MCContents
  NewLines <- MCNewLines
  MaxParses = 1
  MaxWrites = 1
  Slots = {t1, t2}
INVARIANT SumsAreRight
CHECK_DEADLOCK FALSE
