\* Two processes, each of which may un-register or not, and an unload.
SPECIFICATION FairSpec
CONSTANTS
  Procs = {p1, p2}
  End   = end
INVARIANTS
  TypeOK
  WalksAreSafe
PROPERTIES
  QuietAfterUse
  SamplesWhileTicking
\* Everybody may be gone, and a kernel that faults stops.
CHECK_DEADLOCK FALSE
