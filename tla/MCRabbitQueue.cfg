CONSTANTS
  c1 = c1
  c2 = c2
  q1 = q1
  q2 = q2
  Poller = Poller
  Nobody = Nobody
  Consumers <- MCConsumers
  Queues <- MCQueues
  Routes <- MCRoutes
  option <- MCOption
  MaxMessages = 2
  MaxDeliveries = 2
SPECIFICATION FairSpec
INVARIANTS
  TypeOK
  PrefetchHonoured
  NoLostWakeup
PROPERTIES
  ImplementsDelivery
  SettledIsFinal
  MessagesMove
