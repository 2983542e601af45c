INIT Init
NEXT Next
CONSTANTS
  h1 = h1  h2 = h2  r1 = r1  r2 = r2  r3 = r3  r4 = r4  q1 = q1  q2 = q2
  Handles <- OneHandle
  Requests <- ThreeRequests
  Reapers <- TwoReapers
  Ops <- AllShapes
  Graces <- MCGraces
  DefaultGrace = 5
  MaxIncarnation = 2
  MaxFailures = 1
  MaxCrashes = 1
INVARIANTS
  DestroyExclusive
  DestroysAreInFlight
SYMMETRY Interchangeable
CHECK_DEADLOCK FALSE
