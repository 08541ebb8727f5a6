CONSTANTS
  h1 = h1
  h2 = h2
  k1 = k1
  NoKey = NoKey
  Handlers <- MCHandlers
  Keys <- MCKeys
  MaxReceiveCount = 2
  MaxSends = 3
SPECIFICATION FairSpec
INVARIANTS
  SendsCollapse
