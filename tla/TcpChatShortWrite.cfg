\* Two messages: the second does not fit on the way to the other client.
SPECIFICATION Spec
CONSTANTS
  Clients = {c1, c2}
  ReadSize = 5
  BufferSize = 5
  MaxEvents = 2
  SockBuf = 5
  Faults = {}
  BodyLens = {3}
  MaxSends = 2
INVARIANTS ForwardedToOthers
