SPECIFICATION FairSpec
CONSTANTS
  Goroutines = {main, worker}
  Main = main
  ChanCap = 1
  MaxCalls = 2
  MsgLevels <- MCOneLevel
  Confs <- MCAllWriters
PROPERTIES BlockedSenderProceeds CloseReturns WrittenIsFlushed
