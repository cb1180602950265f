SPECIFICATION Spec
CONSTANTS
  Calls <- OneWorkerCalls
  NumCPU = 2
  MaxWorkers = 1
PROPERTIES
  StopsAfterError
