\* Two short messages fit a read and the way to a client; a long one loses its tail,
\* and with another one exceeds both.  Two of four events are reported.
SPECIFICATION Spec
CONSTANTS
  Clients = {c1, c2, c3}
  ReadSize = 5
  BufferSize = 5
  MaxEvents = 2
  SockBuf = 5
  Faults = {"accept", "epoll_ctl", "epoll_wait"}
  BodyLens = {1, 4}
  MaxSends = 2
SYMMETRY Interchangeable
INVARIANTS RelayFaithful LinesAreMessages NobodyIsForgotten
PROPERTIES ServerFailsForACause
