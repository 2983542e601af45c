SPECIFICATION Spec
CONSTANTS
  h1 = h1  h2 = h2  r1 = r1  r2 = r2  r3 = r3  r4 = r4  q1 = q1  q2 = q2
  Handles <- OneHandle
  Requests <- TwoRequests
  Reapers <- TwoReapers
  Ops <- CoreOps
  Graces <- MCGraces
  DefaultGrace = 5
  MaxIncarnation = 2
  MaxFailures = 0
  MaxCrashes = 0
PROPERTY ReapsOwnContainer
CHECK_DEADLOCK FALSE
