--------------------------- MODULE JobQueueProofs ---------------------------
(***************************************************************************)
(* Proofs about JobQueue for every set of threads, every capacity and      *)
(* every bound.  None of the safety properties is inductive: what holds    *)
(* them together is where the owner of the mutex is inside its call.       *)
(***************************************************************************)
EXTENDS JobQueue, TLAPS

\* How far the counter is behind the cursors, cleared jobs discounted.
Lag == (tail - head) + discarded - job_queue_size

\* What a thread between two assignments knows of the cursors.
RoomChecked == \A t \in Threads : pc[t] = "enq_tail" => tail - head < QUEUE_MAX
SomeChecked == \A t \in Threads : pc[t] = "deq_head" => tail - head > 0
SlotClaimed == \A t \in Threads :
                 pc[t] \in {"enq_size", "enq_store"} => tail - head > 0

\* The counter is one behind after tail++, one ahead after head++, left with
\* the cleared jobs by the first store of clear, and otherwise exact.
LagByPoint ==
  /\ \A t \in Threads : pc[t] = "enq_size" => Lag = 1
  /\ \A t \in Threads : pc[t] = "deq_size" => Lag = -1
  /\ \A t \in Threads : pc[t] = "clr_tail" => job_queue_size = discarded
  /\ (\A t \in Threads : pc[t] \notin {"enq_size", "deq_size", "clr_tail"})
       => Lag = 0

\* A thread inside enqueue has a job to insert.
ArgIsJob == \A t \in Threads :
              pc[t] \in {"enq_lock", "enq_check", "enq_tail", "enq_size",
                        "enq_store"} => arg[t] \in Jobs

IInv == /\ TypeOK
        /\ MutualExclusion
        /\ WithinCapacity
        /\ RoomChecked
        /\ SomeChecked
        /\ SlotClaimed
        /\ LagByPoint
        /\ LeakedIsFull
        /\ ArgIsJob

-----------------------------------------------------------------------------

LEMMA InitIInv == Init => IInv
  BY QueueAssumption
  DEF Init, IInv, TypeOK, MutualExclusion, WithinCapacity, RoomChecked,
      SomeChecked, SlotClaimed, LagByPoint, Lag, ArgIsJob, LeakedIsFull,
      Leaked, InCall, Critical, PCs, Positions, isFull, Resetting

\* A call that starts changes neither the queue nor the mutex.
LEMMA CallStep ==
  ASSUME IInv, NEW t \in Threads,
         (\E j \in Jobs : EnqueueCall(t, j)) \/ DequeueCall(t) \/ ClearCall(t)
  PROVE  IInv'
<1> USE QueueAssumption
    DEF IInv, TypeOK, MutualExclusion, WithinCapacity, RoomChecked,
        SomeChecked, SlotClaimed, LagByPoint, Lag, ArgIsJob, LeakedIsFull,
        Leaked, InCall, Critical, PCs, Positions, isFull, goto, Resetting
<1>1. ASSUME NEW j \in Jobs, EnqueueCall(t, j) PROVE IInv'
  BY <1>1 DEF EnqueueCall
<1>2. CASE DequeueCall(t)
  BY <1>2 DEF DequeueCall
<1>3. CASE ClearCall(t)
  BY <1>3 DEF ClearCall
<1>4. QED
  BY <1>1, <1>2, <1>3

\* Only a free mutex is locked, so nobody else is inside a call.
LEMMA LockStep ==
  ASSUME IInv, NEW t \in Threads,
         EnqueueLock(t) \/ DequeueLock(t) \/ ClearLock(t)
  PROVE  IInv'
<1> USE QueueAssumption
    DEF IInv, TypeOK, MutualExclusion, WithinCapacity, RoomChecked,
        SomeChecked, SlotClaimed, LagByPoint, Lag, ArgIsJob, LeakedIsFull,
        Leaked, InCall, Critical, PCs, Positions, isFull, goto, Resetting
<1>1. CASE EnqueueLock(t)
  BY <1>1 DEF EnqueueLock, lock
<1>2. CASE DequeueLock(t)
  BY <1>2 DEF DequeueLock, lock
<1>3. CASE ClearLock(t)
  BY <1>3 DEF ClearLock, lock
<1>4. QED
  BY <1>1, <1>2, <1>3

\* The body of enqueue: a full queue ends the call with the mutex locked.
LEMMA EnqueueStep ==
  ASSUME IInv, NEW t \in Threads,
         \/ EnqueueFull(t) \/ EnqueueRoom(t) \/ EnqueueTail(t)
         \/ EnqueueSize(t) \/ EnqueueStore(t)
  PROVE  IInv'
<1> USE QueueAssumption
    DEF IInv, TypeOK, MutualExclusion, WithinCapacity, RoomChecked,
        SomeChecked, SlotClaimed, LagByPoint, Lag, ArgIsJob, LeakedIsFull,
        Leaked, InCall, Critical, PCs, Positions, isFull, goto, Resetting
<1>1. CASE EnqueueFull(t)
  BY <1>1 DEF EnqueueFull
<1>2. CASE EnqueueRoom(t)
  BY <1>2 DEF EnqueueRoom
<1>3. CASE EnqueueTail(t)
  BY <1>3 DEF EnqueueTail
<1>4. CASE EnqueueSize(t)
  BY <1>4 DEF EnqueueSize
<1>5. CASE EnqueueStore(t)
  <2>1. tail % QUEUE_MAX \in Positions
    OBVIOUS
  <2>2. queue' \in [Positions -> Jobs \cup {EmptyJob}]
    BY <1>5, <2>1 DEF EnqueueStore
  <2>3. QED
    BY <1>5, <2>2 DEF EnqueueStore
<1>6. QED
  BY <1>1, <1>2, <1>3, <1>4, <1>5

\* The bodies of dequeue and of clear.
LEMMA DequeueStep ==
  ASSUME IInv, NEW t \in Threads,
         \/ DequeueEmpty(t) \/ DequeueSome(t) \/ DequeueHead(t)
         \/ DequeueSize(t) \/ DequeueTake(t)
         \/ ClearHead(t) \/ ClearTail(t)
  PROVE  IInv'
<1> USE QueueAssumption
    DEF IInv, TypeOK, MutualExclusion, WithinCapacity, RoomChecked,
        SomeChecked, SlotClaimed, LagByPoint, Lag, ArgIsJob, LeakedIsFull,
        Leaked, InCall, Critical, PCs, Positions, isFull, goto, Resetting
<1>1. CASE DequeueEmpty(t)
  BY <1>1 DEF DequeueEmpty
<1>2. CASE DequeueSome(t)
  BY <1>2 DEF DequeueSome, isEmpty
<1>3. CASE DequeueHead(t)
  BY <1>3 DEF DequeueHead
<1>4. CASE DequeueSize(t)
  BY <1>4 DEF DequeueSize
<1>5. CASE DequeueTake(t)
  <2>1. head % QUEUE_MAX \in Positions
    OBVIOUS
  <2>2. QED
    BY <1>5, <2>1 DEF DequeueTake
<1>6. CASE ClearHead(t)
  BY <1>6 DEF ClearHead
<1>7. CASE ClearTail(t)
  BY <1>7 DEF ClearTail
<1>8. QED
  BY <1>1, <1>2, <1>3, <1>4, <1>5, <1>6, <1>7

LEMMA NextIInv == IInv /\ [Next]_vars => IInv'
<1> SUFFICES ASSUME IInv, [Next]_vars PROVE IInv'
  OBVIOUS
<1>1. ASSUME NEW t \in Enqueuers, enqueue(t) PROVE IInv'
  BY <1>1, QueueAssumption, CallStep, LockStep, EnqueueStep DEF enqueue
<1>2. ASSUME NEW t \in Dequeuers, dequeue(t) PROVE IInv'
  BY <1>2, QueueAssumption, CallStep, LockStep, DequeueStep DEF dequeue
<1>3. ASSUME NEW t \in Clearers, clear(t) PROVE IInv'
  BY <1>3, QueueAssumption, CallStep, LockStep, DequeueStep DEF clear
<1>4. CASE UNCHANGED vars
  BY <1>4
  DEF vars, IInv, TypeOK, MutualExclusion, WithinCapacity, RoomChecked,
      SomeChecked, SlotClaimed, LagByPoint, Lag, ArgIsJob, LeakedIsFull,
      Leaked, InCall, isFull, Resetting
<1>5. QED
  BY <1>1, <1>2, <1>3, <1>4 DEF Next

LEMMA SpecIInv == Spec => []IInv
  BY InitIInv, NextIInv, PTL DEF Spec

-----------------------------------------------------------------------------

\* Every variable of the queue and of its callers keeps its type.
THEOREM TypeCorrect == Spec => []TypeOK
<1>1. IInv => TypeOK
  BY DEF IInv
<1>2. QED
  BY <1>1, SpecIInv, PTL

\* The bodies of enqueue, dequeue and clear never overlap.
THEOREM Exclusion == Spec => []MutualExclusion
<1>1. IInv => MutualExclusion
  BY DEF IInv
<1>2. QED
  BY <1>1, SpecIInv, PTL

\* No enqueue overruns an unread slot and no dequeue overruns tail, for any
\* number of threads and any QUEUE_MAX.  Only between the two stores of clear,
\* where nobody else is inside a call, are the cursors further apart.
THEOREM NeverOverrun == Spec => []WithinCapacity
<1>1. IInv => WithinCapacity
  BY DEF IInv
<1>2. QED
  BY <1>1, SpecIInv, PTL

\* An unlocked get_queue_size is off by one job at most, and exact with no
\* call in progress, cleared jobs apart; between the stores of clear it counts
\* the cleared jobs only.
THEOREM SizeAlmostExact == Spec => []SizeLag
<1>1. IInv => SizeLag
  <2> SUFFICES ASSUME IInv PROVE SizeLag
    OBVIOUS
  <2>1. CASE Resetting
    <3>1. PICK t \in Threads : pc[t] = "clr_tail"
      BY <2>1 DEF Resetting
    <3>2. job_queue_size = discarded /\ InCall(t)
      BY <3>1 DEF IInv, LagByPoint, InCall, Critical
    <3>3. QED
      BY <2>1, <3>2 DEF SizeLag
  <2>2. CASE ~Resetting
    <3>1. CASE \E t \in Threads : pc[t] \in {"enq_size", "deq_size"}
      <4>1. Lag \in -1 .. 1
        BY <3>1 DEF IInv, LagByPoint
      <4>2. ~(\A t \in Threads : ~InCall(t))
        BY <3>1 DEF InCall, Critical
      <4>3. QED
        BY <2>2, <4>1, <4>2 DEF SizeLag, Lag
    <3>2. CASE \A t \in Threads : pc[t] \notin {"enq_size", "deq_size"}
      <4>1. Lag = 0
        BY <2>2, <3>2 DEF IInv, LagByPoint, Resetting
      <4>2. QED
        BY <2>2, <4>1 DEF SizeLag, Lag, IInv, TypeOK
    <3>3. QED
      BY <3>1, <3>2
  <2>3. QED
    BY <2>1, <2>2
<1>2. QED
  BY <1>1, SpecIInv, PTL

\* An abandoned mutex means a full queue.
THEOREM AbandonedIsFull == Spec => []LeakedIsFull
<1>1. IInv => LeakedIsFull
  BY DEF IInv
<1>2. QED
  BY <1>1, SpecIInv, PTL

\* Once enqueue has returned with the mutex locked, the queue is dead: no
\* thread of the node ever adds, removes or counts a job again.
THEOREM FrozenForGood == Spec => FrozenOnceLeaked
<1>1. IInv /\ [Next]_vars
        => [Leaked => /\ Leaked'
                      /\ UNCHANGED <<queue, head, tail, job_queue_size,
                                     queue_mutex, retval>>]_vars
  <2> SUFFICES ASSUME IInv, Next, Leaked
               PROVE  /\ Leaked'
                      /\ UNCHANGED <<queue, head, tail, job_queue_size,
                                     queue_mutex, retval>>
    BY DEF vars
  <2> DEFINE Frozen == /\ \E t \in Threads : \E to \in PCs \ Critical :
                            pc' = [pc EXCEPT ![t] = to]
                       /\ UNCHANGED <<queue, head, tail, job_queue_size,
                                      queue_mutex, retval>>
  <2>1. queue_mutex # NoThread /\ \A t \in Threads : ~InCall(t)
    BY DEF Leaked, IInv, MutualExclusion
  <2>2. \A t \in Threads : pc[t] \notin Critical
    BY <2>1 DEF InCall
  <2>3. ASSUME NEW t \in Enqueuers, enqueue(t)
        PROVE  Frozen
    BY <2>1, <2>2, <2>3, QueueAssumption
    DEF enqueue, EnqueueCall, EnqueueLock, EnqueueFull, EnqueueRoom,
        EnqueueTail, EnqueueSize, EnqueueStore, lock, goto, Critical, PCs
  <2>4. ASSUME NEW t \in Dequeuers, dequeue(t)
        PROVE  Frozen
    BY <2>1, <2>2, <2>4, QueueAssumption
    DEF dequeue, DequeueCall, DequeueLock, DequeueEmpty, DequeueSome,
        DequeueHead, DequeueSize, DequeueTake, lock, goto, Critical, PCs
  <2>5. ASSUME NEW t \in Clearers, clear(t)
        PROVE  Frozen
    BY <2>1, <2>2, <2>5, QueueAssumption
    DEF clear, ClearCall, ClearLock, ClearHead, ClearTail, lock, goto,
        Critical, PCs
  <2>6. Frozen
    BY <2>3, <2>4, <2>5 DEF Next
  <2>7. pc \in [Threads -> PCs] /\ queue_mutex \in Threads
    BY <2>1 DEF IInv, TypeOK
  <2>8. pc'[queue_mutex] \notin Critical
    BY <2>2, <2>6, <2>7
  <2>9. QED
    BY <2>1, <2>6, <2>8 DEF Leaked, InCall
<1>2. QED
  BY <1>1, SpecIInv, PTL DEF Spec, FrozenOnceLeaked

-----------------------------------------------------------------------------
\* JobQueue implements BoundedFifo

\* Positions less than QUEUE_MAX apart are in different slots.
LEMMA SlotsDiffer ==
  ASSUME NEW a \in Int, NEW b \in Int, 0 < b - a, b - a < QUEUE_MAX
  PROVE  a % QUEUE_MAX # b % QUEUE_MAX
<1>1. QUEUE_MAX \in Nat \ {0}
  BY QueueAssumption
<1>2. SUFFICES ASSUME a % QUEUE_MAX = b % QUEUE_MAX PROVE FALSE
  OBVIOUS
<1>3. /\ a = QUEUE_MAX * (a \div QUEUE_MAX) + (a % QUEUE_MAX)
      /\ b = QUEUE_MAX * (b \div QUEUE_MAX) + (b % QUEUE_MAX)
      /\ a \div QUEUE_MAX \in Int /\ b \div QUEUE_MAX \in Int
      /\ a % QUEUE_MAX \in Int /\ b % QUEUE_MAX \in Int
  BY <1>1
<1>4. PICK d \in Int : b - a = QUEUE_MAX * d
  <2>1. b - a = QUEUE_MAX * ((b \div QUEUE_MAX) - (a \div QUEUE_MAX))
    BY <1>1, <1>2, <1>3
  <2>2. QED
    BY <1>3, <2>1
<1>5. CASE d <= 0
  BY <1>1, <1>4, <1>5
<1>6. CASE d >= 1
  BY <1>1, <1>4, <1>6
<1>7. QED
  BY <1>4, <1>5, <1>6

\* The thread inside the mutex decides where the ends of the contents are,
\* before and after a step of its.
LEMMA PointMoves ==
  ASSUME IInv, NEW t \in Threads, NEW from \in Critical, NEW to \in PCs,
         goto(t, from, to)
  PROVE  /\ Storing <=> from \in {"enq_size", "enq_store"}
         /\ Taking <=> from \in {"deq_size", "deq_take"}
         /\ Storing' <=> to \in {"enq_size", "enq_store"}
         /\ Taking' <=> to \in {"deq_size", "deq_take"}
         /\ Resetting <=> from = "clr_tail"
         /\ Resetting' <=> to = "clr_tail"
         /\ ~Leaked /\ queue_mutex = t
         /\ InCall(t)' <=> to \in Critical
<1>1. /\ queue_mutex = t /\ pc[t] = from
      /\ \A u \in Threads \ {t} : pc[u] \notin Critical
  BY DEF goto, IInv, MutualExclusion, InCall
<1>2. \A u \in Threads : pc'[u] = IF u = t THEN to ELSE pc[u]
  BY DEF goto, IInv, TypeOK
<1>3. ~Leaked
  BY <1>1 DEF Leaked, InCall
<1>4. InCall(t)' <=> to \in Critical
  BY <1>1, <1>2, <1>3 DEF Leaked, InCall
<1>5. /\ Storing <=> from \in {"enq_size", "enq_store"}
      /\ Taking <=> from \in {"deq_size", "deq_take"}
      /\ Resetting <=> from = "clr_tail"
  BY <1>1 DEF Storing, Taking, Resetting, Critical
<1>6. /\ Storing' <=> to \in {"enq_size", "enq_store"}
      /\ Taking' <=> to \in {"deq_size", "deq_take"}
      /\ Resetting' <=> to = "clr_tail"
  BY <1>1, <1>2 DEF Storing, Taking, Resetting, Critical
<1>7. QED
  BY <1>1, <1>3, <1>4, <1>5, <1>6

\* A step that moves neither end nor opens nor closes the queue is a stutter.
LEMMA FifoRests ==
  ASSUME UNCHANGED <<queue, retval>>, first' = first, last' = last,
         Leaked' <=> Leaked
  PROVE  UNCHANGED Fifo!fifoVars
<1>1. Contents' = Contents
  BY DEF Contents
<1>2. (~Leaked)' = ~Leaked
  BY DEF Leaked
<1>3. QED
  BY <1>1, <1>2 DEF Fifo!fifoVars

\* The contents are a sequence whose ends and jobs are known.
LEMMA ContentsAre ==
  ASSUME IInv
  PROVE  /\ last \in Int /\ first \in Int /\ last - first + 1 \in Nat
         /\ Contents \in Seq(Jobs \cup {EmptyJob})
         /\ Len(Contents) = last - first + 1
         /\ \A i \in 1 .. last - first + 1 :
              Contents[i] = queue[(first + i - 1) % QUEUE_MAX]
<1>1. /\ head \in Int /\ tail \in Int
      /\ ~Resetting => tail - head \in 0 .. QUEUE_MAX
      /\ QUEUE_MAX \in Nat \ {0}
      /\ queue \in [Positions -> Jobs \cup {EmptyJob}]
  BY QueueAssumption DEF IInv, TypeOK, WithinCapacity
<1>2. /\ Storing => ~Taking /\ ~Resetting /\ tail - head > 0
      /\ Taking => ~Resetting
  BY DEF Storing, Taking, Resetting, IInv, MutualExclusion, InCall, Critical,
     SlotClaimed
<1>3. last \in Int /\ first \in Int /\ last - first + 1 \in Nat
  BY <1>1, <1>2 DEF last, first
<1>4. \A p \in Int : p % QUEUE_MAX \in Positions
  BY <1>1 DEF Positions
<1>5. \A i \in 1 .. last - first + 1 :
        queue[(first + i - 1) % QUEUE_MAX] \in Jobs \cup {EmptyJob}
  BY <1>1, <1>3, <1>4
<1>6. Contents \in [1 .. last - first + 1 -> Jobs \cup {EmptyJob}]
  BY <1>5 DEF Contents
<1>7. /\ Contents \in Seq(Jobs \cup {EmptyJob})
      /\ Len(Contents) = last - first + 1
  BY <1>3, <1>6
<1>8. QED
  BY <1>3, <1>7 DEF Contents

\* A call that starts, or gets the mutex, is not seen.
LEMMA CallUnseen ==
  ASSUME IInv, NEW t \in Threads,
         \/ \E j \in Jobs : EnqueueCall(t, j)
         \/ DequeueCall(t) \/ ClearCall(t)
         \/ EnqueueLock(t) \/ DequeueLock(t) \/ ClearLock(t)
  PROVE  UNCHANGED Fifo!fifoVars
<1>1. /\ UNCHANGED <<queue, head, tail, retval>>
      /\ \A u \in Threads \ {t} : pc'[u] = pc[u]
      /\ pc[t] \in {"idle", "enq_lock", "deq_lock", "clr_lock"}
      /\ pc'[t] \in {"enq_lock", "deq_lock", "clr_lock", "enq_check",
                     "deq_check", "clr_head"}
  BY DEF EnqueueCall, DequeueCall, ClearCall, EnqueueLock, DequeueLock,
         ClearLock, lock, goto, IInv, TypeOK
<1>2. Storing' <=> Storing
  BY <1>1 DEF Storing
<1>3. Taking' <=> Taking
  BY <1>1 DEF Taking
<1>4. Resetting' <=> Resetting
  BY <1>1 DEF Resetting
<1>5. first' = first /\ last' = last
  BY <1>1, <1>2, <1>3, <1>4 DEF first, last
<1>6. Leaked' <=> Leaked
  <2>1. CASE queue_mutex' = queue_mutex
    <3>1. pc'[t] \in {"enq_lock", "deq_lock", "clr_lock"}
      BY <2>1, QueueAssumption
      DEF EnqueueCall, DequeueCall, ClearCall, EnqueueLock, DequeueLock,
          ClearLock, lock, goto, IInv, TypeOK
    <3>2. QED
      BY <1>1, <2>1, <3>1 DEF Leaked, InCall, Critical, IInv, TypeOK
  <2>2. CASE queue_mutex' # queue_mutex
    <3>1. /\ queue_mutex = NoThread /\ queue_mutex' = t
          /\ pc'[t] \in {"enq_check", "deq_check", "clr_head"}
      BY <2>2
      DEF EnqueueCall, DequeueCall, ClearCall, EnqueueLock, DequeueLock,
          ClearLock, lock, goto, IInv, TypeOK
    <3>2. QED
      BY <3>1 DEF Leaked, InCall, Critical
  <2>3. QED
    BY <2>1, <2>2
<1>7. QED
  BY <1>1, <1>5, <1>6, FifoRests

\* Neither are the assignments to the cursors and to the counter.
LEMMA BodyUnseen ==
  ASSUME IInv, NEW t \in Threads,
         \/ EnqueueRoom(t) \/ EnqueueTail(t) \/ EnqueueSize(t)
         \/ DequeueEmpty(t) \/ DequeueSome(t) \/ DequeueHead(t)
         \/ DequeueSize(t)
  PROVE  UNCHANGED Fifo!fifoVars
<1>1. UNCHANGED <<queue, retval>> /\ head \in Int /\ tail \in Int
  BY DEF EnqueueRoom, EnqueueTail, EnqueueSize, DequeueEmpty, DequeueSome,
         DequeueHead, DequeueSize, IInv, TypeOK
<1>2. ASSUME NEW from \in Critical, NEW to \in Critical, goto(t, from, to),
             queue_mutex' = queue_mutex
      PROVE  Leaked' <=> Leaked
  <2>1. to \in PCs
    BY DEF PCs
  <2>2. QED
    BY <1>2, <2>1, PointMoves DEF Leaked, InCall
<1>3. CASE EnqueueRoom(t)
  <2>1. first' = first /\ last' = last
    BY <1>3, PointMoves DEF EnqueueRoom, first, last, PCs, Critical
  <2>2. Leaked' <=> Leaked
    BY <1>2, <1>3 DEF EnqueueRoom, Critical
  <2>3. QED
    BY <1>1, <2>1, <2>2, FifoRests
<1>4. CASE EnqueueTail(t)
  <2>1. first' = first /\ last' = last
    BY <1>1, <1>4, PointMoves DEF EnqueueTail, first, last, PCs, Critical
  <2>2. Leaked' <=> Leaked
    BY <1>2, <1>4 DEF EnqueueTail, Critical
  <2>3. QED
    BY <1>1, <2>1, <2>2, FifoRests
<1>5. CASE EnqueueSize(t)
  <2>1. first' = first /\ last' = last
    BY <1>5, PointMoves DEF EnqueueSize, first, last, PCs, Critical
  <2>2. Leaked' <=> Leaked
    BY <1>2, <1>5 DEF EnqueueSize, Critical
  <2>3. QED
    BY <1>1, <2>1, <2>2, FifoRests
<1>6. CASE DequeueEmpty(t)
  <2>1. first' = first /\ last' = last /\ ~Leaked
    BY <1>6, PointMoves DEF DequeueEmpty, first, last, PCs, Critical
  <2>2. ~Leaked'
    BY <1>6 DEF DequeueEmpty, Leaked
  <2>3. QED
    BY <1>1, <2>1, <2>2, FifoRests
<1>7. CASE DequeueSome(t)
  <2>1. first' = first /\ last' = last
    BY <1>7, PointMoves DEF DequeueSome, first, last, PCs, Critical
  <2>2. Leaked' <=> Leaked
    BY <1>2, <1>7 DEF DequeueSome, Critical
  <2>3. QED
    BY <1>1, <2>1, <2>2, FifoRests
<1>8. CASE DequeueHead(t)
  <2>1. first' = first /\ last' = last
    BY <1>1, <1>8, PointMoves DEF DequeueHead, first, last, PCs, Critical
  <2>2. Leaked' <=> Leaked
    BY <1>2, <1>8 DEF DequeueHead, Critical
  <2>3. QED
    BY <1>1, <2>1, <2>2, FifoRests
<1>9. CASE DequeueSize(t)
  <2>1. first' = first /\ last' = last
    BY <1>9, PointMoves DEF DequeueSize, first, last, PCs, Critical
  <2>2. Leaked' <=> Leaked
    BY <1>2, <1>9 DEF DequeueSize, Critical
  <2>3. QED
    BY <1>1, <2>1, <2>2, FifoRests
<1>10. QED
  BY <1>3, <1>4, <1>5, <1>6, <1>7, <1>8, <1>9

\* Two sequences of the same length and the same elements are equal.
LEMMA SameSequence ==
  ASSUME NEW S, NEW m \in Nat, NEW f, NEW s \in Seq(S), Len(s) = m,
         f = [i \in 1 .. m |-> f[i]], \A i \in 1 .. m : f[i] = s[i]
  PROVE  f = s
<1>1. s = [i \in 1 .. m |-> s[i]]
  OBVIOUS
<1>2. QED
  BY <1>1

\* An enqueue on a full queue closes it.
LEMMA FullIsPutFull ==
  ASSUME IInv, NEW t \in Threads, EnqueueFull(t)
  PROVE  Fifo!PutFull
<1>1. goto(t, "enq_check", "idle") /\ isFull
      /\ UNCHANGED <<queue, head, tail, queue_mutex, retval>>
  BY DEF EnqueueFull
<1>2. /\ first = head + 1 /\ last = tail /\ ~Leaked
      /\ first' = first /\ last' = last
      /\ queue_mutex = t /\ ~InCall(t)'
  BY <1>1, PointMoves DEF first, last, Critical, PCs
<1>3. Leaked'
  BY <1>1, <1>2, QueueAssumption DEF Leaked, InCall
<1>4. Contents' = Contents
  BY <1>1, <1>2 DEF Contents
<1>5. Len(Contents) = QUEUE_MAX
  <2>1. /\ head \in Int /\ tail \in Int /\ tail - QUEUE_MAX = head
        /\ QUEUE_MAX \in Nat
    BY <1>1, QueueAssumption DEF isFull, IInv, TypeOK
  <2>2. last - first + 1 = QUEUE_MAX
    BY <1>2, <2>1
  <2>3. QED
    BY <2>2, ContentsAre
<1>6. QED
  BY <1>1, <1>2, <1>3, <1>4, <1>5 DEF Fifo!PutFull

\* The slot is written: the job is in the queue.
LEMMA StoreIsPut ==
  ASSUME IInv, NEW t \in Threads, EnqueueStore(t)
  PROVE  \E j \in Jobs : Fifo!Put(j)
<1> DEFINE n == last - first + 1
<1>1. /\ goto(t, "enq_store", "idle")
      /\ UNCHANGED <<head, tail, retval>> /\ ~Leaked'
      /\ queue' = [queue EXCEPT ![tail % QUEUE_MAX] = arg[t]]
  BY DEF EnqueueStore, Leaked
<1>2. /\ first = head + 1 /\ last = tail - 1 /\ ~Leaked /\ ~Resetting
      /\ first' = head + 1 /\ last' = tail
  BY <1>1, PointMoves DEF first, last, Critical, PCs
<1>3. /\ head \in Int /\ tail \in Int /\ tail - head \in 1 .. QUEUE_MAX
      /\ QUEUE_MAX \in Nat \ {0} /\ tail % QUEUE_MAX \in Positions
      /\ queue \in [Positions -> Jobs \cup {EmptyJob}]
  BY <1>1, <1>2, QueueAssumption
  DEF goto, IInv, TypeOK, WithinCapacity, SlotClaimed, Positions
<1>4. PICK j \in Jobs : j = arg[t]
  BY <1>1 DEF goto, IInv, ArgIsJob
<1>5. n = tail - 1 - head /\ n \in Nat
  BY <1>2, <1>3
<1>6. /\ Contents \in Seq(Jobs \cup {EmptyJob}) /\ Len(Contents) = n
      /\ \A i \in 1 .. n : Contents[i] = queue[(head + i) % QUEUE_MAX]
  <2>1. \A i \in 1 .. n : first + i - 1 = head + i
    BY <1>2, <1>3, <1>5
  <2>2. QED
    BY <2>1, ContentsAre
<1>7. Contents' = [i \in 1 .. n + 1 |-> queue'[(head + i) % QUEUE_MAX]]
  <2>1. last' - first' + 1 = n + 1
    BY <1>2, <1>3, <1>5
  <2>2. \A i \in 1 .. n + 1 : first' + i - 1 = head + i
    BY <1>2, <1>3, <1>5
  <2>3. QED
    BY <2>1, <2>2 DEF Contents
<1>8. \A i \in 1 .. n :
        queue'[(head + i) % QUEUE_MAX] = queue[(head + i) % QUEUE_MAX]
  <2>1. ASSUME NEW i \in 1 .. n
        PROVE  (head + i) % QUEUE_MAX # tail % QUEUE_MAX
    <3>1. /\ head + i \in Int /\ 0 < tail - (head + i)
          /\ tail - (head + i) < QUEUE_MAX
      BY <1>3, <1>5
    <3>2. QED
      BY <1>3, <3>1, SlotsDiffer
  <2>2. \A i \in 1 .. n : (head + i) % QUEUE_MAX \in Positions
    BY <1>3, <1>5 DEF Positions
  <2>3. QED
    BY <1>1, <1>3, <2>1, <2>2
<1>9. queue'[(head + (n + 1)) % QUEUE_MAX] = j
  <2>1. head + (n + 1) = tail
    BY <1>3, <1>5
  <2>2. QED
    BY <1>1, <1>3, <1>4, <2>1
<1> HIDE DEF n
<1>10. Contents' = Append(Contents, j)
  <2> DEFINE s == Append(Contents, j)
             f == Contents'
  <2>1. /\ s \in Seq(Jobs \cup {EmptyJob}) /\ Len(s) = n + 1
        /\ \A i \in 1 .. n : s[i] = Contents[i]
        /\ s[n + 1] = j
    BY <1>5, <1>6
  <2>2. /\ f = [i \in 1 .. n + 1 |-> f[i]]
        /\ \A i \in 1 .. n + 1 : f[i] = queue'[(head + i) % QUEUE_MAX]
    BY <1>7
  <2>3. \A i \in 1 .. n + 1 : i \in 1 .. n \/ i = n + 1
    BY <1>5
  <2> HIDE DEF s, f
  <2>4. \A i \in 1 .. n + 1 : f[i] = s[i]
    BY <1>6, <1>8, <1>9, <2>1, <2>2, <2>3
  <2>5. f = s
    BY <1>5, <2>1, <2>2, <2>4, SameSequence
  <2>6. QED
    BY <2>5 DEF s, f
<1>11. Len(Contents) < QUEUE_MAX
  BY <1>3, <1>5, <1>6
<1>12. Fifo!Put(j)
  BY <1>1, <1>2, <1>10, <1>11 DEF Fifo!Put
<1>13. QED
  BY <1>12

\* The slot is read: the oldest job is out of the queue.
LEMMA TakeIsGet ==
  ASSUME IInv, NEW t \in Threads, DequeueTake(t)
  PROVE  Fifo!Get
<1> DEFINE n == last - first
<1>1. /\ goto(t, "deq_take", "idle")
      /\ UNCHANGED <<queue, head, tail>> /\ ~Leaked'
      /\ retval' = queue[head % QUEUE_MAX]
  BY DEF DequeueTake, Leaked
<1>2. /\ first = head /\ last = tail /\ ~Leaked /\ ~Resetting
      /\ first' = head + 1 /\ last' = tail
  BY <1>1, PointMoves DEF first, last, Critical, PCs
<1>3. head \in Int /\ tail \in Int /\ tail - head \in Nat
  BY <1>2, QueueAssumption DEF IInv, TypeOK, WithinCapacity
<1>4. n = tail - head /\ n \in Nat
  BY <1>2, <1>3
<1>5. /\ Contents \in Seq(Jobs \cup {EmptyJob}) /\ Len(Contents) = n + 1
      /\ \A i \in 1 .. n + 1 :
           Contents[i] = queue[(head + i - 1) % QUEUE_MAX]
  BY <1>2, ContentsAre
<1>6. Contents' = [i \in 1 .. n |-> queue[(head + i) % QUEUE_MAX]]
  <2>1. last' - first' + 1 = n
    BY <1>2, <1>3, <1>4
  <2>2. \A i \in 1 .. n : first' + i - 1 = head + i
    BY <1>2, <1>3, <1>4
  <2>3. QED
    BY <1>1, <2>1, <2>2 DEF Contents
<1> HIDE DEF n
<1>7. Contents # << >> /\ retval' = Head(Contents)
  <2>1. head + 1 - 1 = head /\ 1 \in 1 .. n + 1
    BY <1>3, <1>4
  <2>2. Contents[1] = queue[head % QUEUE_MAX]
    BY <1>5, <2>1
  <2>3. Contents # << >> /\ Head(Contents) = Contents[1]
    BY <1>4, <1>5
  <2>4. QED
    BY <1>1, <2>2, <2>3
<1>8. Contents' = Tail(Contents)
  <2> DEFINE s == Tail(Contents)
             f == Contents'
  <2>1. /\ s \in Seq(Jobs \cup {EmptyJob}) /\ Len(s) = n
        /\ \A i \in 1 .. n : s[i] = Contents[i + 1]
    BY <1>4, <1>5, <1>7
  <2>2. /\ f = [i \in 1 .. n |-> f[i]]
        /\ \A i \in 1 .. n : f[i] = queue[(head + i) % QUEUE_MAX]
    BY <1>6
  <2>3. \A i \in 1 .. n : i + 1 \in 1 .. n + 1 /\ head + (i + 1) - 1 = head + i
    BY <1>3, <1>4
  <2> HIDE DEF s, f
  <2>4. \A i \in 1 .. n : f[i] = s[i]
    <3>1. \A i \in 1 .. n :
            Contents[i + 1] = queue[(head + (i + 1) - 1) % QUEUE_MAX]
      BY <1>5, <2>3
    <3>2. QED
      BY <2>1, <2>2, <2>3, <3>1
  <2>5. f = s
    BY <1>4, <2>1, <2>2, <2>4, SameSequence
  <2>6. QED
    BY <2>5 DEF s, f
<1>9. QED
  BY <1>1, <1>2, <1>7, <1>8 DEF Fifo!Get

\* clear drops all jobs with its first store.
LEMMA ClearIsEmpty ==
  ASSUME IInv, NEW t \in Threads, ClearHead(t)
  PROVE  Fifo!Empty
<1>1. /\ goto(t, "clr_head", "clr_tail") /\ head' = -1
      /\ UNCHANGED <<queue, retval, queue_mutex>>
  BY DEF ClearHead
<1>2. ~Leaked /\ ~Leaked' /\ first' = 0 /\ last' = -1
  BY <1>1, PointMoves DEF first, last, Critical, PCs, Leaked
<1>3. Contents' = << >>
  <2>1. last' - first' + 1 = 0
    BY <1>2
  <2>2. Contents' = [i \in 1 .. 0 |-> queue'[(first' + i - 1) % QUEUE_MAX]]
    BY <2>1 DEF Contents
  <2>3. QED
    BY <2>2
<1>4. QED
  BY <1>1, <1>2, <1>3 DEF Fifo!Empty

\* The second store catches up.
LEMMA ClearTailUnseen ==
  ASSUME IInv, NEW t \in Threads, ClearTail(t)
  PROVE  UNCHANGED Fifo!fifoVars
<1>1. /\ goto(t, "clr_tail", "idle") /\ tail' = -1 /\ ~Leaked'
      /\ UNCHANGED <<queue, head, retval>>
  BY DEF ClearTail, Leaked
<1>2. head = -1
  <2>1. Resetting
    BY <1>1 DEF goto, Resetting
  <2>2. QED
    BY <2>1 DEF IInv, WithinCapacity
<1>3. ~Leaked /\ first' = first /\ last' = last
  BY <1>1, <1>2, PointMoves DEF first, last, Critical, PCs
<1>4. QED
  BY <1>1, <1>3, FifoRests

LEMMA NextInFifo == IInv /\ [Next]_vars => [Fifo!FifoNext]_(Fifo!fifoVars)
<1> SUFFICES ASSUME IInv, [Next]_vars
             PROVE  Fifo!FifoNext \/ UNCHANGED Fifo!fifoVars
  OBVIOUS
<1>1. ASSUME NEW t \in Enqueuers, enqueue(t)
      PROVE  Fifo!FifoNext \/ UNCHANGED Fifo!fifoVars
  <2>1. t \in Threads
    BY QueueAssumption
  <2>2. CASE EnqueueFull(t)
    BY <2>1, <2>2, FullIsPutFull DEF Fifo!FifoNext
  <2>3. CASE EnqueueStore(t)
    BY <2>1, <2>3, StoreIsPut DEF Fifo!FifoNext
  <2>4. QED
    BY <1>1, <2>1, <2>2, <2>3, CallUnseen, BodyUnseen DEF enqueue
<1>2. ASSUME NEW t \in Dequeuers, dequeue(t)
      PROVE  Fifo!FifoNext \/ UNCHANGED Fifo!fifoVars
  <2>1. t \in Threads
    BY QueueAssumption
  <2>2. CASE DequeueTake(t)
    BY <2>1, <2>2, TakeIsGet DEF Fifo!FifoNext
  <2>3. QED
    BY <1>2, <2>1, <2>2, CallUnseen, BodyUnseen DEF dequeue
<1>3. ASSUME NEW t \in Clearers, clear(t)
      PROVE  Fifo!FifoNext \/ UNCHANGED Fifo!fifoVars
  <2>1. t \in Threads
    BY QueueAssumption
  <2>2. CASE ClearHead(t)
    BY <2>1, <2>2, ClearIsEmpty DEF Fifo!FifoNext
  <2>3. QED
    BY <1>3, <2>1, <2>2, CallUnseen, ClearTailUnseen DEF clear
<1>4. CASE UNCHANGED vars
  <2>1. first' = first /\ last' = last
    BY <1>4 DEF vars, first, last, Storing, Taking, Resetting
  <2>2. (Leaked' <=> Leaked) /\ UNCHANGED <<queue, retval>>
    BY <1>4 DEF vars, Leaked, InCall
  <2>3. QED
    BY <2>1, <2>2, FifoRests
<1>5. QED
  BY <1>1, <1>2, <1>3, <1>4 DEF Next

LEMMA InitInFifo == Init => Fifo!FifoInit
<1> SUFFICES ASSUME Init PROVE Fifo!FifoInit
  OBVIOUS
<1>1. ~Storing /\ ~Taking /\ ~Resetting /\ ~Leaked
  BY DEF Init, Storing, Taking, Resetting, Leaked
<1>2. first = 0 /\ last = -1
  BY <1>1 DEF Init, first, last
<1>3. Contents = << >>
  <2>1. last - first + 1 = 0
    BY <1>2
  <2>2. Contents = [i \in 1 .. 0 |-> queue[(first + i - 1) % QUEUE_MAX]]
    BY <2>1 DEF Contents
  <2>3. QED
    BY <2>2
<1>4. QED
  BY <1>1, <1>3 DEF Init, Fifo!FifoInit

\* Callers see a FIFO queue, whichever threads call and however their calls
\* overlap; a full insertion closes it.
THEOREM QueueImplementsFifo == Spec => ImplementsFifo
<1>1. Init => Fifo!FifoInit
  BY InitInFifo
<1>2. IInv /\ [Next]_vars => [Fifo!FifoNext]_(Fifo!fifoVars)
  BY NextInFifo
<1>3. QED
  BY <1>1, <1>2, SpecIInv, PTL DEF Spec, ImplementsFifo, Fifo!FifoSpec
=============================================================================
