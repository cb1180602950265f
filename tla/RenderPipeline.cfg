SPECIFICATION Spec
CONSTANTS
  Recordings <- ShortRecordings
  Rooms = {0, 4, 9}
  FrameSizes = {0, 2, 3}
INVARIANTS
  WholeOutput
  FramesFit
PROPERTIES
  Terminates
