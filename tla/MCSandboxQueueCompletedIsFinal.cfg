CONSTANTS
  Ids <- MCIds
  Attempts <- MCAttempts
  MaxJobs = 3
  MaxTicks = 2
  Quiet = FALSE
SPECIFICATION Spec
PROPERTIES
  CompletedIsFinal
