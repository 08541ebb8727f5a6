CONSTANTS
  c1 = c1
  c2 = c2
  q1 = q1
  q2 = q2
  Poller = Poller
  Nobody = Nobody
  Consumers <- MCConsumers
  Queues <- MCQueues
  Routes <- MCRoutes
  option <- MCPrefetchOf2
  MaxMessages = 2
  MaxDeliveries = 2
SPECIFICATION Spec
INVARIANT FreeSlotsAreUsed
