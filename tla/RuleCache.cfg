SPECIFICATION Spec
CONSTANTS
  Names = {1, 2}
  Default = 2
  Bodies = {1, 2, 3, 4}
  DefaultBody = 4
  Unsupported = {3}
  Fields <- MCFields
  Requests <- MCRequests
  TTL = 1
  Horizon = 3
  MaxVersion = 3
INVARIANTS TypeOK RightRule
PROPERTIES NoMissedChange KeepsAppliers Converges Recovers
