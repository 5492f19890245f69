SPECIFICATION Spec
CONSTANTS
  Goroutines = {main, worker}
  Main = main
  ChanCap = 2
  MaxCalls = 3
  MsgLevels <- MCMsgLevels
  Confs <- MCSafetyConfs
INVARIANTS IInv WriterLogs FilesPartitionTheLog QueueHoldsAccepted ClosedMeansWritten
PROPERTY ImplementsSink
