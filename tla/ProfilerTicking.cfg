\* The timer of a list that is not empty.
SPECIFICATION Spec
CONSTANTS
  Procs = {p1, p2}
  End   = end
INVARIANT KeepsTicking
\* Everybody may be gone, and a kernel that faults stops.
CHECK_DEADLOCK FALSE
