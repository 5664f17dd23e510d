CONSTANTS
  Peer = {p, q}
  Reader = {p}
  MaxFd = 5
  SockBuf = 1
  MaxConnects = 4
  MaxUnits = 3
  ReadMax = 2
  MaxThread = 2
  MaxAddr = 2
  Failures = TRUE
SPECIFICATION FairSpec
INVARIANTS OneOwner
PROPERTIES EchoSpec Accepted ReadersServed
CHECK_DEADLOCK FALSE
