SPECIFICATION MCSpec
CONSTANTS
  None = None
  Peer = {"p"}
  LateShutdown = FALSE
  MaxSubstreams = 3
  MaxInbound = 2
  CommandCapacity = 1
  Parts = {"notification", "stream", "requests", "bitswap", "ping", "identify", "mdns"}
INVARIANTS
    BitswapInv PingInv ObservedInSession
PROPERTIES
  NegotiationEnds RequestAnswered AllDiscovered
CHECK_DEADLOCK FALSE
