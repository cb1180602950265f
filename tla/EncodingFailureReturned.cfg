SPECIFICATION SplitSpec
CONSTANTS
  Calls <- TwoGroups
  NumCPU = 2
  MaxWorkers = 2
INVARIANTS
  EncodingFailureReturned
