CONSTANTS
  Request <- AllRequests
  MaxQueue = 2
SPECIFICATION MCSpec
INVARIANTS
  TypeOK
PROPERTIES
  StatusContract
  OnlyNamedChanges
  AcceptedWritesShown
CHECK_DEADLOCK FALSE
