SPECIFICATION Spec
CONSTANTS
  None = None
  Parts = {"peers"}
  RecordKey = {k1, k2}
INVARIANTS
  NeverStuck
CHECK_DEADLOCK FALSE
