CONSTANTS
  c1 = c1
  c2 = c2
  c3 = c3
  c4 = c4
  Clients <- MCClients
  Size <- MCSize
SPECIFICATION FairSpec
INVARIANTS
  TypeOK
  Exclusive
  InUseIffHeld
  WorkConserving
PROPERTIES
  ResetBetweenLeases
  ImplementsSemaphore
  WaiterSettles
CHECK_DEADLOCK FALSE
