\* The preempted task keeps status RUNNING.
SPECIFICATION Spec
CONSTANTS
  Apps        = {"fast", "slow"}
  NoTask      = none
  Period      <- MCPeriod
  Computation <- MCComputation
  NumJobs     <- MCNumJobs
  FCONV       = 1000
  UBBOUND     = 693
  IntBound    = 1048576
INVARIANTS
  PreemptedIsNotRunning
