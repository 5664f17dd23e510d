SPECIFICATION Spec
CONSTANTS
  LastType = 3
  TypeLimit <- MCTypeLimit
  HdrSize <- MCHdrSize
  SIZE_MAX = 99
  SDS_MAX_PREALLOC = 3
  LLONG_MAX = 10
  MaxBlock = 30
  NULL = NULL
  ABORT = ABORT
  SIGSEGV = SIGSEGV
  StaticBuf = 2
  MaxLen = 4
  Text <- MCPlainText
  Raw <- MCRaw
  Size = {0}
  Position <- MCPosition
  Format <- MCFormat
  OK = OK
  NoCall = NoCall
  Slots = 2
  Split <- MCSplit
  Line <- MCLine
PROPERTY
  CommentsHold
\* A process that died makes no more calls.
CHECK_DEADLOCK FALSE
