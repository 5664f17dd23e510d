CONSTANTS
  PAGE_SIZE = 3
  MaxBytes = 5
  MaxTruncates = 2
  MaxOwed = 2
SPECIFICATION FairSpec
INVARIANTS SleepsAtTheEnd PrintsWhatIsAppended
PROPERTIES CatchesUp
CHECK_DEADLOCK FALSE
