CONSTANTS
  Byte = {NL, a, b}
  NL = NL
  Junk = Junk
  SIZE_MAX = 7
  InitCapacities = {0, 3, 6}
  Requests <- MCSizes
  Writes <- MCWrites
  READ_BUFFERING_SIZE = 2
  PageSize = 1
  MaxFile = 5
  MaxWrite = 4
SPECIFICATION MCSpec
INVARIANTS MemorySafe ViewIsWritten SkippedHasNoNewline BufferFollowsLongestLine
PROPERTIES AssureKeepsItsPromise FifoSpec LinesSpec CallReturns
