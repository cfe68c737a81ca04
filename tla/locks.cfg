SPECIFICATION Spec
CONSTANTS
  Clients = {c1, c2}
  c1 = c1
  c2 = c2
  MaxPaths = 3
SYMMETRY ClientSymmetry
INVARIANTS
  SendBufferExclusive
  NoOtherDeadlock
CHECK_DEADLOCK FALSE
