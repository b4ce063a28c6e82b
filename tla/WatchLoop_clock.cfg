SPECIFICATION FairSpec
CONSTANTS
  Settings <- MCSettings
  TicksPerSecond = 3
  WordSize = 512
  MaxWork = 8
  Jumps <- MCJumps
  MaxJumps = 2
INVARIANTS
  TypeOK
PROPERTIES
  NeverTooEarly
  NegativeSettingStops
  PollsAgain
