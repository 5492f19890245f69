\* One message, and the end of the connection right behind it.
SPECIFICATION FairSpec
CONSTANTS
  Clients = {c1, c2}
  ReadSize = 5
  BufferSize = 5
  MaxEvents = 2
  SockBuf = 5
  Faults = {}
  BodyLens = {1}
  MaxSends = 1
PROPERTIES ClosedIsForgotten
