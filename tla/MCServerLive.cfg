CONSTANTS
  c1 = c1
  c2 = c2
  c3 = c3
  Conn <- TwoConns
  N = 2
  MaxFd = 2
  MaxSent = 1
SPECIFICATION FairSpec
PROPERTIES
  RequestsRead
  BacklogAccepted
  StopsWithTraffic
CHECK_DEADLOCK FALSE
