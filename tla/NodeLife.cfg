\* Each program is started three times, so that a connection may meet the
\* successor of the process it was made to or by.
SPECIFICATION FairSpec
CONSTANTS
  LOCAL_NODE  = "local"
  REMOTE_NODE = "remote"
  MaxStarts = 3
  StateCap  = 1
INVARIANTS
  TypeOK
  OneClient
  StreamsIntact
  AtMostOneStray
PROPERTIES
  LocalSettles
  DeathSpreads
\* Both programs may have ended for the last time.
CHECK_DEADLOCK FALSE
