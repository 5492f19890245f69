SPECIFICATION Spec
CONSTANTS
  ChanCap = 2
  MaxRpcs = 0
INVARIANT GracefulExitIsClean
