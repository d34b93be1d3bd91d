\* A wake-up comes before the task has gone to sleep.
SPECIFICATION RunningSpec
CONSTANTS
  Apps        = {"fast", "slow"}
  NoTask      = none
  Period      <- MCPeriod
  Computation <- MCComputation
  NumJobs     <- MCNumJobs
  FCONV       = 1000
  UBBOUND     = 693
  IntBound    = 1048576
PROPERTIES
  ReadyIsWoken
