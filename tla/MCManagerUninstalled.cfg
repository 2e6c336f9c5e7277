SPECIFICATION Spec
CONSTANTS
  None = None
  Peer = {p1}
  Transport = {tcp, quic}
  Installed = {tcp}
  InboundOnly = {}
  OpensAsListener = {quic}
  max_incoming_connections = None
  max_outgoing_connections = None
  CommandCapacity = 0
  MaxConnections = 4
SYMMETRY PeerSymmetry
INVARIANTS NoPanic
