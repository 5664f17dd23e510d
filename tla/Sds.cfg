SPECIFICATION Spec
CONSTANTS
  LastType = 3
  TypeLimit <- MCTypeLimit
  HdrSize <- MCHdrSize
  SIZE_MAX = 99
  SDS_MAX_PREALLOC = 3
  LLONG_MAX = 10
  MaxBlock = 30
  NULL = NULL
  ABORT = ABORT
  SIGSEGV = SIGSEGV
  StaticBuf = 2
  MaxLen = 4
  Text <- MCText
  Raw <- MCRaw
  Size <- MCSize
  Position <- MCPosition
  Format <- MCFormat
  OK = OK
  NoCall = NoCall
  Slots = 2
  Split <- MCSplit
  Line <- MCLine
INVARIANTS
  StringsFit
  NothingLeaks
  SplitIsExact
  ArgsRoundTrip

  
\* A process that died makes no more calls.
CHECK_DEADLOCK FALSE
