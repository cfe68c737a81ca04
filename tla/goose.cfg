SPECIFICATION LinkSpec
CONSTANTS
  EventInterval = 1
  StableInterval = 4
  RetransmissionCount = 2
  MaxLate = 2
  MaxTime = 9
  MaxChanges = 2
  MaxEnables = 2
  MaxWrites = 1
  NULL = NULL
  SizeofValue = 24
  SizeofPointer = 8
  SizeofPrimitive = 16
  FitsBuffer <- MCFitsBuffer
  DataSet <- MCDataSet
  Publisher <- MCPublisher
  OtherRef <- MCOtherRef
  MaxFrames = 2
  LinkTime = 1
  LinkChanges = 2
  LinkEnables = 1
  MaxDisturbances = 1
  MaxSubscriptions = 1
INVARIANTS
  NeverExpires
  OneMessage
  EventArrives
CHECK_DEADLOCK FALSE
