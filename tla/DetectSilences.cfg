SPECIFICATION Spec
CONSTANTS
  OptionLists <- SomeOptions
  Takes <- ShortTakes
  Volumes = {"both", "mean", "none"}
  LeastSilence = 15
  Rate = 3
  Base = 50
INVARIANTS
  LongRunsFound
  OnlyRunsFound
  FirstThresholdWins
  SettingsUsable
  LoudestIsSpeech
