CONSTANTS
  Cases <- MCCases
  ServiceName <- MCServiceName
  AccountIds <- MCAccountIds
  SqlKeywords <- MCSqlKeywords
  Indices <- MCIndices
  QueueSize = 2
  BatchSize = 2
SPECIFICATION Spec
CHECK_DEADLOCK FALSE
INVARIANTS
  TypeOK
  Conserved
  MetricsMatchSpans
  OperationAgrees
  LloKept
PROPERTIES
  Delivered
