\* Two workers so that one sleeps while the other runs, two clients so that two
\* notifications are outstanding, three tasks so that one may enqueue another.
SPECIFICATION FairSpec
CONSTANTS
  Workers = {w1, w2}
  Clients = {c1, c2}
  Tasks   = {j1, j2, j3}
  NoTask  = NoTask
INVARIANTS IInv StartOrder NoLostWakeup DrainedWhenGone
PROPERTIES ImplementsExecutor ImplementsFairExecutor
