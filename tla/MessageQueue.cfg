CONSTANTS
  Message <- MCMessage
  MaxMessages = 5
  TooLong = {0}
  Capacity = 3
  NULL = NULL
  ClientFd = {4, 5}
SPECIFICATION Spec
INVARIANTS RingHoldsTheLive
PROPERTIES FreeReleases FifoSpec SentInOrder NoGapWithinALap
CHECK_DEADLOCK FALSE
