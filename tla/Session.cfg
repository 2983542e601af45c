SPECIFICATION SessionSpec
CONSTANTS
  Pipes <- One
  Readers <- One
  Capacity = 1
  MaxWrites = 1
  Statuses <- MCStatuses
  Outputs <- OneOutput
  MaxFaults = 2
  MaxPayloads = 2
INVARIANTS
  SessionTypeOK
  WaitFaithful
  OutputBeforeWait
  EofIsTheClients
  InputInOrder
PROPERTIES
  IsLocalProcess
  WaitReturns
  SignalReachesProcess
CHECK_DEADLOCK FALSE
