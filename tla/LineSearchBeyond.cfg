CONSTANTS
  Byte = {NL, a, b}
  NL = NL
  Junk = Junk
  SIZE_MAX = 15
  InitCapacities = {}
  Requests = {}
  Writes = {}
  READ_BUFFERING_SIZE = 2
  PageSize = 3
  MaxFile = 5
  MaxPattern = 2
  LongestPattern = 3
  Files <- MCFiles
  Patterns <- MCPatterns
SPECIFICATION SearchSpec
INVARIANTS ReportsAreInside
CHECK_DEADLOCK FALSE
