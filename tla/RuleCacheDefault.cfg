SPECIFICATION Spec
CONSTANTS
  Names = {1, 2}
  Default = 2
  Bodies = {1, 4}
  DefaultBody = 4
  Unsupported = {}
  Fields <- MCFields
  Requests <- MCRequests
  TTL = 1
  Horizon = 2
  MaxVersion = 1
PROPERTIES DefaultMatches
