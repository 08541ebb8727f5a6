CONSTANTS
  q1 = q1
  Queues <- MCQueues
  Options <- MCOptions
  FirstId = 10
  Delayed = {2}
  MaxSends = 2
  MaxTicks = 2
SPECIFICATION FairSpec
INVARIANTS
  TypeOK
PROPERTIES
  WalksAsDecided
  MessagesSettle
CHECK_DEADLOCK FALSE
