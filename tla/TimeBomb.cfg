SPECIFICATION Spec
CONSTANTS
  Countdowns <- MCCountdowns
  MaxQuiet = 4
  MaxOps = 7
INVARIANTS
  TypeOK
  NoLooseTimer
  PausedOrDefusedIsStill
  WaitingIsTicking
PROPERTIES
  QuietBeforeDetonation
  WaitingDetonates
CHECK_DEADLOCK FALSE
