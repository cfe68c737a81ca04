SPECIFICATION AccessSpec
CONSTANTS
  NULL = NULL
  SizeofValue = 24
  SizeofPointer = 8
  SizeofPrimitive = 10
  Leaf <- MCLeaf
  Natives <- MCNatives
  MaxOperations = 4
  MaxAccesses = 3
  Offered <- MCOffered
  Configurations <- MCConfigurations
  MaxPduSize = 250
  MaxWriteItems = 2
INVARIANTS
  WrittenIsRead
  CopiesEqual
  SubscribersCurrent
CHECK_DEADLOCK FALSE
