SPECIFICATION Spec
CONSTANTS
  None = None
  Peer = {p1, p2}
  Transport = {tcp, quic}
  Installed = {tcp, quic}
  InboundOnly = {}
  OpensAsListener = {quic}
  max_incoming_connections = 1
  max_outgoing_connections = 1
  CommandCapacity = 0
  MaxConnections = 3
INVARIANTS LimitsRespected
PROPERTIES ClosedIsLast
