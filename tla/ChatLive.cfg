CONSTANTS
  Peer = {p, q}
  Reader = {p}
  Message <- MCMessage
  TooLong <- MCTooLong
  Capacity = 2
  NULL = NULL
  FdsCapacity = 3
  MaxFd = 6
  MaxAddr = 2
  ReadMax = 1
  SockBuf = 1
  Failures = TRUE
  MaxConnects = 2
  MaxUnits = 2
  MaxRefused = 1
SPECIFICATION FairSpec
INVARIANTS NoStaleDescriptor
PROPERTIES Accepted Served Delivered
CHECK_DEADLOCK FALSE
