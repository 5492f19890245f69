\* The log of a process without any call.
SPECIFICATION Spec
CONSTANTS
  ChanCap = 1
  MaxRpcs = 0
INVARIANT ExitPrintsEverything
