SPECIFICATION Spec
CONSTANTS
  Texts <- MCTexts
  Written <- MCWritten
  Settings <- MCSettings
  FeedsFile = "feeds.txt"
  NoFile = ""
  SkippedLine = SkippedLine
INVARIANTS
  TypeOK
  IntactFeedsAreConfigured
  OnlyTheLastIsBroken
  NoSilentLoss
