\* One Echo call, so that a call may be in flight at shutdown; a channel of one
\* line, so that callers wait for the logger.
SPECIFICATION FairSpec
CONSTANTS
  ChanCap = 1
  MaxRpcs = 1
INVARIANT QuietAfterGracefulWait
PROPERTIES SignalEndsProcess FailureEndsProcess GracefulUnlessStuck StopCommandEnds
