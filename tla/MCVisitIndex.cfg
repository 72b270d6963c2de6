CONSTANTS
  h1 = h1
  h2 = h2
  v1 = v1
  v2 = v2
  a1 = a1
  a2 = a2
  k0 = k0
  k1 = k1
  k2 = k2
  none = none
  Handler <- TwoHandlers
  Id <- FourIds
  Key <- ThreeKeys
  EmptyKey <- k0
  Time <- OneTime
  MarkValue <- OneMark
  NoVisit <- none
  MaxOutstanding = 2
SPECIFICATION MCSpec
INVARIANTS
  IndexSound
  IndexComplete
  EndsOnlyWhenLast
  UncontendedCopyExact
PROPERTIES
  ImplementsVisitStore
  InsertedIsListed
CHECK_DEADLOCK FALSE
