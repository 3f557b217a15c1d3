SPECIFICATION Spec
CONSTANTS
  Threads = {ticker, app}
  Flushers = {app}
  Free = Free
  Milli = 2
  SignalsDimensions = TRUE
  Resource <- MCResource
  UnknownServices = {"unknown_service:python"}
  Lower <- MCLower
  Data <- MCData
  MaxLogs = 2
  MaxEvents = 2
  MaxBytes = 6
  Interval = 1
  Day = 1
  Past = 1
  Future = 1
  Start = 2
  Horizon = 2
  MaxDoubts = 0
  MaxVanish = 0
INVARIANTS AcceptedIsSent
