\* Everybody registers, reads the file and leaves at any moment.
SPECIFICATION FairSpec
CONSTANTS
  Tasks       <- MCTasks
  Period      <- MCPeriod
  Computation <- MCComputation
  FCONV       = 1000
  UBBOUND     = 693
  IntBound    = 32768
INVARIANTS
  TypeOK
  NeverTooStrict
  FitsUnlessDisturbed
PROPERTIES
  RegisteredIsSeen
\* Everybody may have registered and left.
CHECK_DEADLOCK FALSE
