SPECIFICATION FairSpec
CONSTANTS
  None = None
  Peer = {p1}
  KeepAlive = FALSE
  CommandCapacity = 1
  EventCapacity = 1
  MaxConnections = 2
  MaxSubstreams = 2
PROPERTIES PromisesFair IdleConnectionCloses
CHECK_DEADLOCK FALSE
