SPECIFICATION Spec
CONSTANTS
  c1 = c1  c2 = c2  c3 = c3  s1 = s1  s2 = s2
  Conns <- ThreeConns
  Stoppers <- TwoStoppers
INVARIANTS
  TypeOK
  HandlingCounts
  ConnsAtRest
  InFlightWaitedFor
PROPERTIES
  OnlyIdleHoldsStop
  ServeEnds
CHECK_DEADLOCK FALSE
