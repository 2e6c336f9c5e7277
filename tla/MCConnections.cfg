SPECIFICATION MCSpec
CONSTANTS
  None = None
  Parts = {"addresses", "attempt", "noise", "multistream", "framing", "task", "listeners",
           "manager"}
  Transports = {"tcp"}
  Address = {a, b, c, d}
  Public = {a, b}
  max_capacity = 2
INVARIANTS
  ConnectionTaskInv
PROPERTIES
  EvictsFailed PlaintextIntact FramesIntact
  LosersClosed BothEnd OpenAnswered EverySocketServed DialReported
CHECK_DEADLOCK FALSE
