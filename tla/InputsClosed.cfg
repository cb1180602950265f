SPECIFICATION Spec
CONSTANTS
  Calls = {c1}
  Threads = {t1}
  Inputs = 1
INVARIANTS
  InputsClosed
