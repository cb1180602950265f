SPECIFICATION SplitSpec
CONSTANTS
  Calls <- SplitCalls
  NumCPU = 2
  MaxWorkers = 2
INVARIANTS
  SkippedWereTried
  NoSilentCancellation
  SegmentsUsable
  NoSilentFallback
PROPERTIES
  SplitTerminates
