SPECIFICATION FairSpec
CONSTANTS
  Conns = {c1, c2}
  c1 = c1
  c2 = c2
  Limits = {1, 2}
  ClientActions <- MCClientActions
  MaxStarts = 1
INVARIANTS
  SlotHeld
  StopComplete
PROPERTIES
  StopWaitsForClientsOnly
  LostIsReaped
CHECK_DEADLOCK FALSE
