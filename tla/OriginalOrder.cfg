SPECIFICATION TrimSpec
CONSTANTS
  MaxSlices = 4
  Radix = 3
  Width = 1
INVARIANT OriginalOrder
