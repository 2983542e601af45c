SPECIFICATION Spec
CONSTANTS
  Countdowns <- MCCountdowns
  MaxQuiet = 4
  MaxOps = 7
INVARIANT ZeroNeverTicks
CHECK_DEADLOCK FALSE
