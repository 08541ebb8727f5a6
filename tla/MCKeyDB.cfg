CONSTANTS
  a = a
  b = b
  c = c
  k1 = k1
  Masters <- MCMasters
  Primary = a
  Keys <- MCKeys
  Lags <- MCLags
  MaxCalls = 3
  MaxWaiting = 2
SPECIFICATION FairSpec
INVARIANTS
  TypeOK
  Converged
  Captured
PROPERTIES
  SynchronousIsOneStore
  ExpiredLeave
CHECK_DEADLOCK FALSE
