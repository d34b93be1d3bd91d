\* Three processes, an unload at any moment.
SPECIFICATION FairSpec
CONSTANTS
  Procs   = {p1, p2, p3}
  End     = end
  MaxTime = 1
INVARIANTS
  TypeOK
  WalkIsSafe
  NobodyForgotten
PROPERTIES
  FinishedIsRemoved
  UsageIsShown
\* Everything may have happened, and the module may be unloaded.
CHECK_DEADLOCK FALSE
