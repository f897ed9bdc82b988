\* Two supported networks and one that is not, two tasks.
SPECIFICATION Spec
CONSTANTS
  Supported = {sepolia, base}
  Local = {localhost}
  None = None
  Torn = Torn
  MaxRuns = 2
  MaxOthers = 1
INVARIANTS
  TypeOK
  StartBlockCovers
  SemaphoreFindsItsParts
  RecordIsOfOneRun
PROPERTIES
  RecordedComesToExist
CHECK_DEADLOCK FALSE
