\* Two clients and three messages, two of which fit a read and fill the buffer of the
\* client that sends the third; one event at a time.
SPECIFICATION FairSpec
CONSTANTS
  Clients = {c1, c2}
  ReadSize = 4
  BufferSize = 4
  MaxEvents = 1
  SockBuf = 5
  Faults = {"accept", "epoll_ctl", "epoll_wait"}
  BodyLens = {1}
  MaxSends = 3
PROPERTIES SentIsRelayed DepartedIsForgotten StopReturns
