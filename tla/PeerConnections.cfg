\* Two offers: connections share pcs and on_shutdown alone, so one is closed by
\* its handler or by on_shutdown while the other is being made or forgotten.
SPECIFICATION FairSpec
CONSTANTS
  r1 = r1
  r2 = r2
  Requests = {r1, r2}
INVARIANT ForgottenIsClosed
PROPERTIES FailedIsForgotten ShutdownEnds
