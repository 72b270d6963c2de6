CONSTANTS
  Request <- AllRequests
  MaxQueue = 2
SPECIFICATION MCSpec
INVARIANTS
  MarksAsDocumented
CHECK_DEADLOCK FALSE
