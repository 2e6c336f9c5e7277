SPECIFICATION Spec
CONSTANTS
  None = None
  Peer = {p1, p2}
  MayDial = {0, 1}
  max_concurrent_inbound_requests = 1
  CommandCapacity = 1
  MaxRequests = 3
  MaxSubstreams = 2
INVARIANTS IInv
PROPERTIES NoStaleInbound
SYMMETRY PeerSymmetry
CHECK_DEADLOCK FALSE
