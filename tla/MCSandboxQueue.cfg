CONSTANTS
  Ids <- MCIds
  Attempts <- MCAttempts
  MaxJobs = 3
  MaxTicks = 3
  Quiet = FALSE
SPECIFICATION FairSpec
INVARIANTS
  TypeOK
  OneRunPerId
  NoLostWakeup
  RetriesAreCounted
PROPERTIES
  NoStartAfterStop
  StartOnlyWhenDue
  JobsSettle
