CONSTANTS
  h1 = h1
  h2 = h2
  r1 = r1
  r2 = r2
  v1 = v1
  v2 = v2
  k1 = k1
  k2 = k2
  zero = zero
  none = none
  Handler <- OneHandler
  Id <- TwoIds
  Key <- TwoKeys
  EmptyKey <- zero
  Time <- TwoTimes
  MarkValue <- TwoMarks
  NoVisit <- none
  MaxOutstanding = 2
  Reader <- TwoReaders
  Request <- Requests
  Known <- UsersAndLocations
  MaxSteps = 3
  MaxWrites = 3
SPECIFICATION MCSpec
SYMMETRY Symmetry
INVARIANTS
  VisitsAnswered
  NoStrangers
  AverageExact
CHECK_DEADLOCK FALSE
