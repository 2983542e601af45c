SPECIFICATION Spec
CONSTANTS
  r1 = r1  r2 = r2
  Pipes <- MCPipes
  Readers <- TwoReaders
  Capacity = 2
  MaxWrites = 3
INVARIANTS
  TypeOK
  DeliveredInOrder
  DrainedBeforeReturn
  CompleteOutput
PROPERTIES
  StreamDeleted
  ReadersEnd
CHECK_DEADLOCK FALSE
