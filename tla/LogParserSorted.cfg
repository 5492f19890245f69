\* The files of LogParserMgr.cfg, parsed once: one has floats FloatStr rejects.
SPECIFICATION Spec
CONSTANTS
  IntLimit = 4
  Files <- MCFiles
  Contents <- MCContents
  NewLines <- MCNewLines
  MaxParses = 1
  MaxWrites = 1
  Slots = {t1, t2}
INVARIANT SortsEveryColumn
CHECK_DEADLOCK FALSE
