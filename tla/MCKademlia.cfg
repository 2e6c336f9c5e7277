SPECIFICATION Spec
CONSTANTS
  None = None
  Parts = {"peers", "closest", "queries", "table", "store"}
  RecordKey = {k1, k2}
INVARIANTS
  KademliaInv  RoutingTableInv MemoryStoreInv
PROPERTIES
  RecordsReported ConnectedKept
CHECK_DEADLOCK FALSE
