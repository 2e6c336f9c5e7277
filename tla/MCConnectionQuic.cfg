SPECIFICATION MCSpec
CONSTANTS
  None = None
  Parts = {"task"}
  Transports = {"quic"}
  Address = {a}
  Public = {}
  max_capacity = 1
PROPERTIES OpenAnswered
CHECK_DEADLOCK FALSE
