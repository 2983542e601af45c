INIT Init
NEXT Next
CONSTANTS
  h1 = h1  h2 = h2  r1 = r1  r2 = r2  r3 = r3  r4 = r4  q1 = q1  q2 = q2
  Handles <- OneHandle
  Requests <- FourRequests
  Reapers <- TwoReapers
  Ops <- CoreOps
  Graces <- MCGraces
  DefaultGrace = 5
  MaxIncarnation = 1
  MaxFailures = 0
  MaxCrashes = 1
INVARIANTS
  TypeOK
  PausesBalanced
  InUseNotTicking
  Guarded
  CountdownCurrent
SYMMETRY Interchangeable
CHECK_DEADLOCK FALSE
