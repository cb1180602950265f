SPECIFICATION Spec
CONSTANTS
  Inputs <- SmallInputs
  Eps = 1
  DefaultMinSpeech = 2
  DefaultMaxLength = 4
INVARIANTS
  ExpandedExact
  IntervalsUsable
  SpansBounded
  GroupsCover
  FewestGroups
