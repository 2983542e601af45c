SPECIFICATION RemoteSpec
CONSTANTS
  Slots = {s1, s2}
  Calls <- MCCalls
  Failures <- MCFailures
  Present <- MCPresent
  Asks <- MCAsks
  Names <- MCNames
  Processes <- MCProcesses
  FreePort = "83"
  containerGraceTime = "default"
  Bits = 2
  Bytes = 2
SYMMETRY Symmetry
CHECK_DEADLOCK FALSE
INVARIANTS
  RemoteTypeOK
  OpensTheNetworks
PROPERTY IsLocal
