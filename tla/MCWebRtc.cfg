SPECIFICATION MCSpec
CONSTANTS
  Parts = {"substream", "connection", "transport", "negotiation", "listener"}
  OtherWakes = TRUE
  MaxInflight = 1
  MaxMessages <- OneWriter
  ChannelId = {1, 2}
  MaxPendingPerChannel = 2
  Addrs = {"a1", "a2"}
  MaxConnections = 3
INVARIANTS
  WebRtcSubstreamInv WebRtcConnectionInv WebRtcTransportInv
PROPERTIES
  DroppedIsTornDown Answered FallbackEnds 
CHECK_DEADLOCK FALSE
