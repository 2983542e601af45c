SPECIFICATION Spec
CONSTANTS
  c1 = c1  c2 = c2  c3 = c3  s1 = s1  s2 = s2
  Conns <- TwoConns
  Stoppers <- TwoStoppers
INVARIANT NoRequestAfterStop
CHECK_DEADLOCK FALSE
