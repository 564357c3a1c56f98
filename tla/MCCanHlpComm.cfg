SPECIFICATION Spec
CONSTANTS
  MaxReqs = 4
  MaxBatch = 2
  MaxThreads = 4
  MaxClear = 1
INVARIANTS
  ResponsesInOrder
  ReadsSeeEarlierWrites
PROPERTIES
  ReadReturns
CHECK_DEADLOCK FALSE
