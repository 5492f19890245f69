\* Two clients and three short messages; no system call fails by itself.
SPECIFICATION Spec
CONSTANTS
  Clients = {c1, c2}
  ReadSize = 5
  BufferSize = 5
  MaxEvents = 2
  SockBuf = 5
  Faults = {}
  BodyLens = {1}
  MaxSends = 3
INVARIANTS BlockedClientIsHarmless
