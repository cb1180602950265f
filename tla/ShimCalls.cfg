SPECIFICATION Spec
CONSTANTS
  Calls = {c1, c2, c3}
  Threads = {t1, t2}
  Inputs = 2
SYMMETRY Symmetry
INVARIANTS
  ErrorIsOwn
  CancellationNamed
  ConcatWhole
