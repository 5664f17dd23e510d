CONSTANTS
  Byte = {NL, a, b}
  NL = NL
  Junk = Junk
  SIZE_MAX = 15
  InitCapacities = {}
  Requests = {}
  Writes = {}
  READ_BUFFERING_SIZE = 2
  PageSize = 3
  MaxFile = 5
  MaxPattern = 2
  LongestPattern = 3
  Files <- MCFiles
  Patterns <- MCPatterns
  Letter = {a, b}
  Zero = a
  bytes_to_read = 2
  Reserve = 4
  LongestText = 7
  LongestNeedle = 4
  Texts <- MCTexts
  Needles <- MCNeedles
SPECIFICATION MCSpec
INVARIANTS BufferSuffices WindowIsTheFile
PROPERTIES ReferenceSpec LineSearchEnds ImplementsSearch ChunkSearchEnds
CHECK_DEADLOCK FALSE
