SPECIFICATION TrimSpec
CONSTANTS
  MaxSlices = 3
  Radix = 3
  Width = 1
INVARIANTS
  MergedIsWhole
  MergedInOrder
  NoSpeechIsTrue
  TempDirLife
