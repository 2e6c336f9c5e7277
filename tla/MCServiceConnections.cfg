SPECIFICATION Spec
CONSTANTS
  None = None
  Peer = {p1}
  KeepAlive = TRUE
  CommandCapacity = 1
  EventCapacity = 2
  MaxConnections = 3
  MaxSubstreams = 1
INVARIANTS Inv
PROPERTIES Promises
CHECK_DEADLOCK FALSE
