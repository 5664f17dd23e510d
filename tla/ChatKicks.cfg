CONSTANTS
  Peer = {p, q}
  Reader = {}
  Message <- MCMessage
  TooLong <- MCTooLong
  Capacity = 3
  NULL = NULL
  FdsCapacity = 4
  MaxFd = 6
  MaxAddr = 1
  ReadMax = 1
  SockBuf = 1
  Failures = FALSE
  MaxConnects = 2
  MaxUnits = 4
  MaxRefused = 0
SPECIFICATION Spec
PROPERTIES KicksByLag
CHECK_DEADLOCK FALSE
