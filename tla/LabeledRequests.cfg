CONSTANTS
  Requests = {"r1", "r2"}
  Timed = {"r1"}
  Refs = {"a", "b", "c"}
  ReusesRefs = FALSE
  MaxMessages = 2
  MaxBatches = 2
  MaxOpen = 2
  MaxInBatch = 1
  Interval = 1
  Window = 1
  MaxConnections = 2
  MaxSaid = 3
SPECIFICATION Spec
INVARIANTS RepliesAreRight BatchesAreWhole SilenceIsMeasured
PROPERTIES RequestsSettle
CHECK_DEADLOCK FALSE
