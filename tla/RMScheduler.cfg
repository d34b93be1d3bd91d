\* Two applications: one runs a job, the other waits for its period once.
SPECIFICATION FairSpec
CONSTANTS
  Apps        = {"fast", "slow"}
  NoTask      = none
  Period      <- MCPeriod
  Computation <- MCComputation
  NumJobs     <- MCNumJobs
  FCONV       = 1000
  UBBOUND     = 693
  IntBound    = 1048576
INVARIANTS
  TypeOK
  OneRunning
  SleeperHasTimer
  NoTimerLeftBehind
PROPERTIES
  YieldIsReleased
