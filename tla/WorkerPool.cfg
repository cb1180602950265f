SPECIFICATION Spec
CONSTANTS
  Calls <- AllCalls
  NumCPU = 2
  MaxWorkers = 3
INVARIANTS
  TypeOK
  ExactlyOnePlace
  ResultInOwnSlot
  SendSucceedsAtOnce
  NothingOutlivesCall
  CompleteUnlessInterrupted
  FailureReported
PROPERTIES
  ImplementsContract
  Terminates
