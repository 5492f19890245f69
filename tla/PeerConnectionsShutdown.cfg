\* One offer that is still being read when the server is told to stop.
SPECIFICATION Spec
CONSTANTS
  r1 = r1
  Requests = {r1}
INVARIANT ShutdownReleasesAll
