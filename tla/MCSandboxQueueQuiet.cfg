CONSTANTS
  Ids <- MCIds
  Attempts <- MCAttemptsQuiet
  MaxJobs = 3
  MaxTicks = 2
  Quiet = TRUE
SPECIFICATION Spec
PROPERTIES
  ImplementsLifecycle
