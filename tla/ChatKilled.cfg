CONSTANTS
  Peer = {p, q}
  Reader = {}
  Message <- MCMessage
  TooLong <- MCTooLong
  Capacity = 3
  NULL = NULL
  FdsCapacity = 4
  MaxFd = 6
  MaxAddr = 1
  ReadMax = 1
  SockBuf = 1
  Failures = FALSE
  MaxConnects = 3
  MaxUnits = 2
  MaxRefused = 1
SPECIFICATION Spec
INVARIANTS SurvivesDisconnects
CHECK_DEADLOCK FALSE
