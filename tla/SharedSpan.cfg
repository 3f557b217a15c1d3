CONSTANTS
  Cases <- SharedCases
  ServiceName <- MCServiceName
  AccountIds <- MCAccountIds
  SqlKeywords <- MCSqlKeywords
  Indices <- MCIndices
  QueueSize = 2
  BatchSize = 2
SPECIFICATION Spec
CHECK_DEADLOCK FALSE
INVARIANT LloFiltered
