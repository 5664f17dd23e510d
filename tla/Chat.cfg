CONSTANTS
  Peer = {p, q}
  Reader = {}
  Message <- MCMessage
  TooLong <- MCTooLong
  Capacity = 3
  NULL = NULL
  FdsCapacity = 4
  MaxFd = 5
  MaxAddr = 2
  ReadMax = 2
  SockBuf = 1
  Failures = FALSE
  MaxConnects = 3
  MaxUnits = 4
  MaxRefused = 1
SPECIFICATION Spec
SYMMETRY Symmetry
INVARIANTS TablesAgree UnitsInOrder CaughtUpEachRound
PROPERTIES DropsByLag RoomSpec
CHECK_DEADLOCK FALSE
