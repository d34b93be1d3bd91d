------------------------------ MODULE JobQueue ------------------------------
(***************************************************************************)
(* mp4/job_queue.c: the ring buffer every MP4 node keeps its jobs in.  The *)
(* threads of the node call enqueue, dequeue and clear concurrently; one   *)
(* pthread mutex protects the body of each call.  get_queue_size, isEmpty  *)
(* and isFull read the counters without the mutex, so every assignment     *)
(* they can observe is a step of its own.                                  *)
(*                                                                         *)
(* head and tail only grow; the slot of position p is p % QUEUE_MAX.  An   *)
(* enqueue that finds the queue full returns without unlocking, and then   *)
(* queue_mutex belongs to a thread that is outside every call.             *)
(***************************************************************************)
EXTENDS Integers, Sequences

CONSTANTS
  Threads,    \* the threads of the node
  Enqueuers,  \* those that call enqueue (comm_read_thread, adaptor_thread)
  Dequeuers,  \* those that call dequeue (worker_thread, adaptor_thread)
  Clearers,   \* those that call clear (exported, called by no thread today)
  Jobs,       \* the jobs that are queued
  EmptyJob,   \* empty_job, what dequeue returns when there is nothing
  NoThread,   \* the owner of an unlocked mutex
  QUEUE_MAX,  \* capacity of the ring
  MaxTail,    \* bound on tail: the int counters are not followed to overflow
  MaxCleared  \* bound on the jobs clear may throw away

ASSUME QueueAssumption ==
  /\ QUEUE_MAX \in Nat \ {0}
  /\ MaxTail \in Nat /\ MaxCleared \in Nat
  /\ Enqueuers \subseteq Threads
  /\ Dequeuers \subseteq Threads
  /\ Clearers \subseteq Threads
  /\ NoThread \notin Threads
  /\ EmptyJob \notin Jobs

VARIABLES
  queue,           \* the ring, a job per slot
  head,            \* position of the job removed last
  tail,            \* position of the job inserted last
  job_queue_size,  \* the counter get_queue_size returns
  queue_mutex,     \* the thread that locked the mutex, or NoThread
  pc,              \* where each thread is inside a call, "idle" outside
  arg,             \* the argument of each thread's enqueue
  retval,          \* what the latest successful dequeue returned
  discarded        \* history: jobs clear dropped without counting them out

vars == <<queue, head, tail, job_queue_size, queue_mutex, pc, arg, retval,
          discarded>>

Positions == 0 .. QUEUE_MAX - 1

\* The program points between lock and unlock.
Critical == {"enq_check", "enq_tail", "enq_size", "enq_store",
             "deq_check", "deq_head", "deq_size", "deq_take",
             "clr_head", "clr_tail"}

PCs == Critical \cup {"idle", "enq_lock", "deq_lock", "clr_lock"}

InCall(t) == pc[t] \in Critical

isEmpty == head = tail

\* Faulty: one job too many is let in.
isFullLate == tail - QUEUE_MAX - 1 = head

isFull == tail - QUEUE_MAX = head

goto(t, from, to) == pc[t] = from /\ pc' = [pc EXCEPT ![t] = to]

\* Faulty: a recursive mutex lets its owner in again.
lockAgain(t, from, to) == /\ goto(t, from, to)
                          /\ queue_mutex \in {NoThread, t}
                          /\ queue_mutex' = t
                          /\ UNCHANGED <<queue, head, tail, job_queue_size,
                                         arg, retval, discarded>>

lock(t, from, to) == /\ goto(t, from, to)
                     /\ queue_mutex = NoThread
                     /\ queue_mutex' = t
                     /\ UNCHANGED <<queue, head, tail, job_queue_size, arg,
                                    retval, discarded>>

-----------------------------------------------------------------------------

Init == /\ queue = [p \in Positions |-> EmptyJob]
        /\ head = -1
        /\ tail = -1
        /\ job_queue_size = 0
        /\ queue_mutex = NoThread
        /\ pc = [t \in Threads |-> "idle"]
        /\ arg = [t \in Threads |-> EmptyJob]
        /\ retval = EmptyJob
        /\ discarded = 0

EnqueueCall(t, j) == /\ tail < MaxTail
                     /\ goto(t, "idle", "enq_lock")
                     /\ arg' = [arg EXCEPT ![t] = j]
                     /\ UNCHANGED <<queue, head, tail, job_queue_size,
                                    queue_mutex, retval, discarded>>

EnqueueLock(t) == lock(t, "enq_lock", "enq_check")

\* Faulty: waits for room with the mutex held.
EnqueueFullSpins(t) == /\ isFull
                       /\ goto(t, "enq_check", "enq_check")
                       /\ UNCHANGED <<queue, head, tail, job_queue_size,
                                      queue_mutex, arg, retval, discarded>>

\* "return -1" without pthread_mutex_unlock: t leaves as owner of the mutex.
EnqueueFull(t) == /\ isFull
                  /\ goto(t, "enq_check", "idle")
                  /\ UNCHANGED <<queue, head, tail, job_queue_size,
                                 queue_mutex, arg, retval, discarded>>

EnqueueRoom(t) == /\ ~isFull
                  /\ goto(t, "enq_check", "enq_tail")
                  /\ UNCHANGED <<queue, head, tail, job_queue_size,
                                 queue_mutex, arg, retval, discarded>>

EnqueueTail(t) == /\ goto(t, "enq_tail", "enq_size")
                  /\ tail' = tail + 1
                  /\ UNCHANGED <<queue, head, job_queue_size, queue_mutex,
                                 arg, retval, discarded>>

EnqueueSize(t) == /\ goto(t, "enq_size", "enq_store")
                  /\ job_queue_size' = job_queue_size + 1
                  /\ UNCHANGED <<queue, head, tail, queue_mutex, arg, retval,
                                 discarded>>

EnqueueStore(t) == /\ goto(t, "enq_store", "idle")
                   /\ queue' = [queue EXCEPT ![tail % QUEUE_MAX] = arg[t]]
                   /\ queue_mutex' = NoThread
                   /\ UNCHANGED <<head, tail, job_queue_size, arg, retval,
                                  discarded>>

DequeueCall(t) == /\ goto(t, "idle", "deq_lock")
                  /\ UNCHANGED <<queue, head, tail, job_queue_size,
                                 queue_mutex, arg, retval, discarded>>

DequeueLock(t) == lock(t, "deq_lock", "deq_check")

DequeueEmpty(t) == /\ isEmpty
                   /\ goto(t, "deq_check", "idle")
                   /\ queue_mutex' = NoThread
                   /\ UNCHANGED <<queue, head, tail, job_queue_size, arg,
                                  retval, discarded>>

DequeueSome(t) == /\ ~isEmpty
                  /\ goto(t, "deq_check", "deq_head")
                  /\ UNCHANGED <<queue, head, tail, job_queue_size,
                                 queue_mutex, arg, retval, discarded>>

\* Faulty: head-- for head++.
DequeueHeadBack(t) == /\ goto(t, "deq_head", "deq_size")
                      /\ head' = head - 1
                      /\ UNCHANGED <<queue, tail, job_queue_size, queue_mutex,
                                     arg, retval, discarded>>

DequeueHead(t) == /\ goto(t, "deq_head", "deq_size")
                  /\ head' = head + 1
                  /\ UNCHANGED <<queue, tail, job_queue_size, queue_mutex,
                                 arg, retval, discarded>>

\* Faulty: the counter is not decremented.
DequeueUncounted(t) == /\ goto(t, "deq_size", "deq_take")
                       /\ UNCHANGED <<queue, head, tail, job_queue_size,
                                      queue_mutex, arg, retval, discarded>>

DequeueSize(t) == /\ goto(t, "deq_size", "deq_take")
                  /\ job_queue_size' = job_queue_size - 1
                  /\ UNCHANGED <<queue, head, tail, queue_mutex, arg, retval,
                                 discarded>>

\* Faulty: takes the job after the oldest.
DequeueTakeNext(t) == /\ goto(t, "deq_take", "idle")
                      /\ retval' = queue[(head + 1) % QUEUE_MAX]
                      /\ queue_mutex' = NoThread
                      /\ UNCHANGED <<queue, head, tail, job_queue_size, arg,
                                     discarded>>

DequeueTake(t) == /\ goto(t, "deq_take", "idle")
                  /\ retval' = queue[head % QUEUE_MAX]
                  /\ queue_mutex' = NoThread
                  /\ UNCHANGED <<queue, head, tail, job_queue_size, arg,
                                 discarded>>

ClearCall(t) == /\ discarded < MaxCleared
                /\ goto(t, "idle", "clr_lock")
                /\ UNCHANGED <<queue, head, tail, job_queue_size, queue_mutex,
                               arg, retval, discarded>>

ClearLock(t) == lock(t, "clr_lock", "clr_head")

\* From here to ClearTail head = -1 goes with the tail of before.
ClearHead(t) == /\ goto(t, "clr_head", "clr_tail")
                /\ head' = -1
                /\ discarded' = discarded + (tail - head)
                /\ UNCHANGED <<queue, tail, job_queue_size, queue_mutex, arg,
                               retval>>

\* job_queue_size keeps its value: it goes on counting the cleared jobs.
ClearTail(t) == /\ goto(t, "clr_tail", "idle")
                /\ tail' = -1
                /\ queue_mutex' = NoThread
                /\ UNCHANGED <<queue, head, job_queue_size, arg, retval,
                               discarded>>

-----------------------------------------------------------------------------

enqueue(t) == \/ \E j \in Jobs : EnqueueCall(t, j)
              \/ EnqueueLock(t) \/ EnqueueFull(t) \/ EnqueueRoom(t)
              \/ EnqueueTail(t) \/ EnqueueSize(t) \/ EnqueueStore(t)

dequeue(t) == \/ DequeueCall(t) \/ DequeueLock(t) \/ DequeueEmpty(t)
              \/ DequeueSome(t) \/ DequeueHead(t) \/ DequeueSize(t)
              \/ DequeueTake(t)

clear(t) == \/ ClearCall(t) \/ ClearLock(t)
            \/ ClearHead(t) \/ ClearTail(t)

Next == \/ \E t \in Enqueuers : enqueue(t)
        \/ \E t \in Dequeuers : dequeue(t)
        \/ \E t \in Clearers : clear(t)

Spec == Init /\ [][Next]_vars

(***************************************************************************)
(* A thread inside the mutex keeps running (weak fairness), and a thread   *)
(* waiting for a mutex that is released again and again gets it (strong    *)
(* fairness): the futex wakes one waiter at each unlock.  Nothing makes a  *)
(* thread call.                                                            *)
(***************************************************************************)
Fairness ==
  \A t \in Threads :
    /\ WF_vars(\/ EnqueueFull(t) \/ EnqueueRoom(t) \/ EnqueueTail(t)
               \/ EnqueueSize(t) \/ EnqueueStore(t) \/ DequeueEmpty(t)
               \/ DequeueSome(t) \/ DequeueHead(t) \/ DequeueSize(t)
               \/ DequeueTake(t) \/ ClearHead(t) \/ ClearTail(t))
    /\ SF_vars(EnqueueLock(t) \/ DequeueLock(t) \/ ClearLock(t))

FairSpec == Spec /\ Fairness

-----------------------------------------------------------------------------

\* The mutex was left locked by a thread that has returned from its call.
Leaked == queue_mutex # NoThread /\ ~InCall(queue_mutex)

\* Type of every variable of job_queue.c and of the threads calling it.
TypeOK == /\ queue \in [Positions -> Jobs \cup {EmptyJob}]
          /\ head \in Int /\ head >= -1
          /\ tail \in Int /\ tail >= -1
          /\ job_queue_size \in Int
          /\ queue_mutex \in Threads \cup {NoThread}
          /\ pc \in [Threads -> PCs]
          /\ arg \in [Threads -> Jobs \cup {EmptyJob}]
          /\ retval \in Jobs \cup {EmptyJob}
          /\ discarded \in Nat

\* Whoever is between lock and unlock owns the mutex, so the bodies of
\* enqueue, dequeue and clear never overlap.
MutualExclusion == \A t \in Threads : InCall(t) => queue_mutex = t

\* clear has reset head and not yet tail: the cursors of two different times.
Resetting == \E t \in Threads : pc[t] = "clr_tail"

\* The ring never holds more than QUEUE_MAX jobs nor fewer than none: no
\* enqueue overwrites an unread slot and no dequeue runs past tail, whatever
\* the unlocked isFull and isEmpty told the callers before.  The exception is
\* what those two see between the stores of clear, where the distance of the
\* cursors is the number of jobs ever queued since the last clear.
WithinCapacity ==
  IF Resetting THEN head = -1 ELSE tail - head \in 0 .. QUEUE_MAX

\* What an unlocked get_queue_size can return is at most one job off the
\* distance of the cursors, and exact with nobody inside a call, but for the
\* jobs clear threw away, which it goes on counting.  Between the stores of
\* clear it counts nothing else, however far the cursors are apart.
SizeLag ==
  /\ IF Resetting
       THEN job_queue_size = discarded
       ELSE (tail - head) + discarded - job_queue_size \in -1 .. 1
  /\ (\A t \in Threads : ~InCall(t))
       => job_queue_size = (tail - head) + discarded

\* The mutex is abandoned only by an enqueue on a full queue, and as nobody
\* can take a job out any more the queue is full for as long as it is so.
LeakedIsFull == Leaked => isFull

\* Once the mutex has been abandoned it stays so, and no thread, not even the
\* one that owns it, changes the queue again.
FrozenOnceLeaked ==
  [][Leaked => /\ Leaked'
               /\ UNCHANGED <<queue, head, tail, job_queue_size, queue_mutex,
                              retval>>]_vars

\* Every call returns unless the mutex has been abandoned: an accepted call
\* is delayed only by other calls, never by the queue being empty or full.
CallsReturn ==
  \A t \in Threads : []<>(pc[t] = "idle" \/ Leaked)

-----------------------------------------------------------------------------
(***************************************************************************)
(* The queue implements BoundedFifo.  An insertion takes effect when the   *)
(* slot is written, a removal when the slot is read, and clear with its    *)
(* first store.                                                            *)
(***************************************************************************)
Storing == \E t \in Threads : pc[t] \in {"enq_size", "enq_store"}

Taking == \E t \in Threads : pc[t] \in {"deq_size", "deq_take"}

first == IF Taking THEN head ELSE head + 1

last == CASE Storing   -> tail - 1
          [] Resetting -> head
          [] OTHER     -> tail

Contents == [i \in 1 .. last - first + 1 |->
               queue[(first + i - 1) % QUEUE_MAX]]

Fifo == INSTANCE BoundedFifo WITH NoJob    <- EmptyJob,
                                  Capacity <- QUEUE_MAX,
                                  buf      <- Contents,
                                  open     <- ~Leaked,
                                  out      <- retval

\* Callers see a FIFO queue: jobs come out in the order they went in, each
\* once, and a full insertion closes the queue.
ImplementsFifo == Fifo!FifoSpec
=============================================================================
