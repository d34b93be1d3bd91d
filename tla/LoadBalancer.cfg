\* Queues of one job, two jobs: either queue can fill, jam and drain.
SPECIFICATION FairSpec
CONSTANTS
  LocalNode  = "local"
  RemoteNode = "remote"
  QUEUE_MAX = 1
  THRESHOLD = 0
  MaxJobs   = 2
  StateCap  = 1
INVARIANTS
  TypeOK
  AckHandshake
  JobConservation
PROPERTIES
  TransferCompletes
  JobsMoveOn
  ImplementsJobPool
