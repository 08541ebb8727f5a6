CONSTANTS
  c1 = c1
  h1 = h1
  h2 = h2
  u1 = u1
  Channels <- MCChannels
  Handlers <- MCHandlers
  Users <- MCUsers
  Scenario <- MCScenario
  BackpressureLimit = 2
  MaxCalls = 4
SPECIFICATION FairSpec
INVARIANTS
  TypeOK
  PublishOrder
  NoGhostTimers
PROPERTIES
  PublishesLeave
CHECK_DEADLOCK FALSE
