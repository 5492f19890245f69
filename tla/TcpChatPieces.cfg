\* Two messages that each fit the buffers and together do not.
SPECIFICATION Spec
CONSTANTS
  Clients = {c1, c2}
  ReadSize = 4
  BufferSize = 4
  MaxEvents = 2
  SockBuf = 4
  Faults = {}
  BodyLens = {2}
  MaxSends = 2
INVARIANTS StickyMessagesApart
