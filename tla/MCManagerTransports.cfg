SPECIFICATION Spec
CONSTANTS
  None = None
  Peer = {p1}
  Transport = {tcp, ws, webrtc}
  Installed = {tcp, ws, webrtc}
  InboundOnly = {webrtc}
  OpensAsListener = {}
  max_incoming_connections = 1
  max_outgoing_connections = None
  CommandCapacity = 1
  MaxConnections = 4
SYMMETRY PeerSymmetry
INVARIANTS NoOrphanDial IInv
