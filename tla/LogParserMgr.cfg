\* Two files of six kinds on two threads, parsed twice, with a line appended
\* meanwhile; ints from -4 to 3, so that three threes overflow.
SPECIFICATION FairSpec
CONSTANTS
  IntLimit = 4
  Files <- MCFiles
  Contents <- MCContents
  NewLines <- MCNewLines
  MaxParses = 2
  MaxWrites = 1
  Slots = {t1, t2}
INVARIANTS MetricsDescribeColumn SortReturnsExtremes ParsersMatchPaths MergedAgreesWithFiles
PROPERTIES FuturesAreCollected
\* The program ends after its last call of Parse.
CHECK_DEADLOCK FALSE
