CONSTANTS
  Timeout = 1
  MaxRetries = 2
  MaxRetryAfter = 1
  MaxRequest = 2
  MaxBack = 1
  Heap <- MCHeap
  Logs <- MCLogs
  BaseSize = 1
  MaxBytes = 7
  MaxDepth = 3
  MaxFuel = 6
  MaxRecords = 3
  MaxQueue = 2
  MaxBatch = 2
SPECIFICATION Spec
INVARIANTS TypeOK TimeBound ShutdownBound Lineage RequestFits Drained
PROPERTIES Exporter ShutdownReturns
CHECK_DEADLOCK FALSE
