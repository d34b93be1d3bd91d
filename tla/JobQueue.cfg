\* A ring of two slots that wraps twice; the worker also clears the queue.
SPECIFICATION FairSpec
CONSTANTS
  Threads   <- MCThreads
  Enqueuers <- MCEnqueuers
  Dequeuers <- MCDequeuers
  Clearers  <- MCClearers
  Jobs      = {1, 2}
  EmptyJob  = 0
  NoThread  = none
  QUEUE_MAX = 2
  MaxTail   = 3
  MaxCleared = 2
INVARIANTS
  TypeOK
  WithinCapacity
  SizeLag
PROPERTIES
  FrozenOnceLeaked
  ImplementsFifo
  CallsReturn
\* Once the mutex is abandoned every thread blocks in its next call.
CHECK_DEADLOCK FALSE
