---------------------------- MODULE LoadBalancer ----------------------------
(***************************************************************************)
(* The two MP4 nodes (mp4/local_node.c, adaptor.c, comms.c, WorkThread.c). *)
(* LocalNode generates jobs; both nodes queue, compute and hand jobs over, *)
(* and tell each other how many they have.  Each node runs five threads:   *)
(*   adaptor_thread     generates jobs on LocalNode, places and balances,  *)
(*   comm_read_thread   acknowledges and queues the jobs of the peer,      *)
(*   worker_thread      computes the queued jobs,                          *)
(*   timer_handler      samples the queue size and sends it to the peer,   *)
(*   state_read_thread  stores the size the peer sent.                     *)
(*                                                                         *)
(* An operation on the job queue is one step, of BoundedFifo, which        *)
(* JobQueue implements.  A step is what a thread does between two places   *)
(* where another thread of its node, or a socket, can make a difference.   *)
(* The four sockets are FIFO; throttle_in, cpu_use and the data of a job   *)
(* influence no decision and are left out.                                 *)
(***************************************************************************)
EXTENDS Integers, Sequences, FiniteSets

CONSTANTS
  LocalNode, RemoteNode,  \* the two builds of the program
  QUEUE_MAX,      \* capacity of a node's queue
  THRESHOLD,      \* imbalance that makes a node hand a job over
  MaxJobs,        \* bound on A_count: later rounds generate nothing
  StateCap        \* bound on the queue sizes under way to a node

ASSUME BalancerAssumption ==
  /\ LocalNode # RemoteNode
  /\ QUEUE_MAX \in Nat \ {0}
  /\ THRESHOLD \in Nat
  /\ MaxJobs \in Nat
  /\ StateCap \in Nat \ {0}

\* The status of a job in JobPool is one of these words or a node.
ASSUME NamesAssumption ==
  {LocalNode, RemoteNode} \cap {"new", "pending", "done"} = {}

Node == {LocalNode, RemoteNode}

peer(n) == IF n = LocalNode THEN RemoteNode ELSE LocalNode

Job == 0 .. MaxJobs - 1

empty_job == -1

VARIABLES
  queue,         \* the jobs queued at each node, oldest first
  stuck,         \* queue_mutex was left locked by an enqueue on a full queue
  A_count,       \* the next job LocalNode generates
  local_jobs,    \* local_state.num_jobs
  remote_jobs,   \* remote_state.num_jobs
  data,          \* jobs on their way to each node
  ack,           \* acknowledgements on their way to each node
  state,         \* queue sizes on their way to each node
  adaptor, adaptor_job,  \* where adaptor_thread is, and the job in its hands
  reader, reader_job,    \* the same for comm_read_thread
  worker, worker_job,    \* the same for worker_thread
  result,        \* the jobs each node has computed
  lost           \* history: the job whose enqueue jammed each node

queueVars == <<queue, stuck, lost>>
adaptorVars == <<A_count, adaptor, adaptor_job>>
readerVars == <<reader, reader_job>>
workerVars == <<worker, worker_job, result>>
stateVars == <<local_jobs, remote_jobs, state>>
sockets == <<data, ack>>

vars == <<queueVars, adaptorVars, readerVars, workerVars, stateVars, sockets>>

\* Where adaptor_thread begins a round of its loop.  With MaxJobs jobs in the
\* world LocalNode generates no more and goes on balancing, like RemoteNode.
Top(n) == IF n = LocalNode /\ A_count < MaxJobs THEN "generate" ELSE "balance"

Init == /\ queue = [n \in Node |-> << >>]
        /\ stuck = [n \in Node |-> FALSE]
        /\ A_count = 0
        /\ local_jobs = [n \in Node |-> 0]
        /\ remote_jobs = [n \in Node |-> 0]
        /\ data = [n \in Node |-> << >>]
        /\ ack = [n \in Node |-> << >>]
        /\ state = [n \in Node |-> << >>]
        /\ adaptor = [n \in Node |-> Top(n)]
        /\ adaptor_job = [n \in Node |-> empty_job]
        /\ reader = [n \in Node |-> "read"]
        /\ reader_job = [n \in Node |-> empty_job]
        /\ worker = [n \in Node |-> "poll"]
        /\ worker_job = [n \in Node |-> empty_job]
        /\ result = [n \in Node |-> {}]
        /\ lost = [n \in Node |-> {}]

-----------------------------------------------------------------------------
\* The queue of node n as its threads see it.

isEmpty(n) == queue[n] = << >>

isFull(n) == Len(queue[n]) = QUEUE_MAX

\* enqueue: a full queue jams the node and the job is gone.
enqueue(n, j) ==
  /\ ~stuck[n]
  /\ \/ /\ ~isFull(n)
        /\ queue' = [queue EXCEPT ![n] = Append(@, j)]
        /\ UNCHANGED <<stuck, lost>>
     \/ /\ isFull(n)
        /\ stuck' = [stuck EXCEPT ![n] = TRUE]
        /\ lost' = [lost EXCEPT ![n] = @ \cup {j}]
        /\ UNCHANGED queue

\* Faulty: head is read but not advanced.
dequeuePeeks(n, j) ==
  /\ ~stuck[n]
  /\ j = IF isEmpty(n) THEN empty_job ELSE Head(queue[n])
  /\ UNCHANGED <<queue, stuck, lost>>

\* dequeue returns j, which is empty_job when there is nothing.
dequeue(n, j) ==
  /\ ~stuck[n]
  /\ j = IF isEmpty(n) THEN empty_job ELSE Head(queue[n])
  /\ queue' = [queue EXCEPT ![n] = IF isEmpty(n) THEN @ ELSE Tail(@)]
  /\ UNCHANGED <<stuck, lost>>

-----------------------------------------------------------------------------
\* adaptor_thread

adaptorGoes(n, from, to) == /\ adaptor[n] = from
                            /\ adaptor' = [adaptor EXCEPT ![n] = to]

\* A new job, and the unlocked look at the own queue.
Generate == /\ A_count < MaxJobs
            /\ adaptorGoes(LocalNode, "generate",
                           IF isFull(LocalNode) THEN "ask" ELSE "enqueue")
            /\ adaptor_job' = [adaptor_job EXCEPT ![LocalNode] = A_count]
            /\ A_count' = A_count + 1
            /\ UNCHANGED <<queueVars, readerVars, workerVars, stateVars,
                           sockets>>

\* transfer_job writes the job and then blocks until the peer has answered.
\* The write comes with the decision to send: nobody can tell them apart.
write(n, j) == data' = [data EXCEPT ![peer(n)] = Append(@, j)]

\* Faulty: the answer is not waited for.
NotAcknowledged(n) == /\ \/ adaptorGoes(n, "ack_new", "balance")
                         \/ adaptorGoes(n, "ack_old", Top(n))
                      /\ UNCHANGED <<A_count, adaptor_job, data, ack,
                                     queueVars, readerVars, workerVars,
                                     stateVars>>

Acknowledged(n) == /\ \/ adaptorGoes(n, "ack_new", "balance")
                      \/ adaptorGoes(n, "ack_old", Top(n))
                   /\ ack[n] # << >>
                   /\ ack' = [ack EXCEPT ![n] = Tail(@)]
                   /\ UNCHANGED <<A_count, adaptor_job, data, queueVars,
                                  readerVars, workerVars, stateVars>>

\* The own queue was full, and the peer's, as far as is known, is not.
TransferNew == /\ remote_jobs[LocalNode] < QUEUE_MAX
               /\ adaptorGoes(LocalNode, "ask", "ack_new")
               /\ write(LocalNode, adaptor_job[LocalNode])
               /\ adaptor_job' = [adaptor_job EXCEPT ![LocalNode] = empty_job]
               /\ UNCHANGED <<A_count, ack, queueVars, readerVars, workerVars,
                              stateVars>>

\* Both are full: the job goes into the own queue all the same.
KeepNew == /\ remote_jobs[LocalNode] >= QUEUE_MAX
           /\ adaptorGoes(LocalNode, "ask", "enqueue")
           /\ UNCHANGED <<A_count, adaptor_job, queueVars, readerVars,
                          workerVars, stateVars, sockets>>

EnqueueNew == /\ adaptorGoes(LocalNode, "enqueue", "balance")
              /\ enqueue(LocalNode, adaptor_job[LocalNode])
              /\ adaptor_job' = [adaptor_job EXCEPT ![LocalNode] = empty_job]
              /\ UNCHANGED <<A_count, readerVars, workerVars, stateVars,
                             sockets>>

Imbalance(n) == local_jobs[n] - remote_jobs[n]

\* The transfer policy, and the unlocked look whether there is a job to give.
Balance(n) == /\ adaptorGoes(n, "balance",
                   IF Imbalance(n) > THRESHOLD /\ ~isEmpty(n)
                     THEN "dequeue" ELSE Top(n))
              /\ UNCHANGED <<A_count, adaptor_job, queueVars, readerVars,
                             workerVars, stateVars, sockets>>

\* Whatever dequeue returns is sent: empty_job, when the worker was faster.
TransferOld(n) == /\ adaptorGoes(n, "dequeue", "ack_old")
                  /\ \E j \in Job \cup {empty_job} :
                       dequeue(n, j) /\ write(n, j)
                  /\ UNCHANGED <<A_count, adaptor_job, ack, readerVars,
                                 workerVars, stateVars>>

adaptor_thread(n) ==
  \/ n = LocalNode /\ (Generate \/ TransferNew \/ KeepNew \/ EnqueueNew)
  \/ Acknowledged(n) \/ Balance(n) \/ TransferOld(n)

-----------------------------------------------------------------------------
\* comm_read_thread: the acknowledgement goes out before the job is queued.

readerGoes(n, from, to) == /\ reader[n] = from
                           /\ reader' = [reader EXCEPT ![n] = to]

\* Faulty: the acknowledgement is forgotten.
ReadJobSilently(n) ==
  /\ readerGoes(n, "read", "enqueue")
  /\ data[n] # << >>
  /\ reader_job' = [reader_job EXCEPT ![n] = Head(data[n])]
  /\ data' = [data EXCEPT ![n] = Tail(@)]
  /\ UNCHANGED <<ack, queueVars, adaptorVars, workerVars, stateVars>>

ReadJob(n) == /\ readerGoes(n, "read", "enqueue")
              /\ data[n] # << >>
              /\ reader_job' = [reader_job EXCEPT ![n] = Head(data[n])]
              /\ data' = [data EXCEPT ![n] = Tail(@)]
              /\ ack' = [ack EXCEPT ![peer(n)] = Append(@, Head(data[n]))]
              /\ UNCHANGED <<queueVars, adaptorVars, workerVars, stateVars>>

\* The result of enqueue is not looked at.
EnqueueReceived(n) == /\ readerGoes(n, "enqueue", "read")
                      /\ enqueue(n, reader_job[n])
                      /\ reader_job' = [reader_job EXCEPT ![n] = empty_job]
                      /\ UNCHANGED <<adaptorVars, workerVars, stateVars,
                                     sockets>>

comm_read_thread(n) == ReadJob(n) \/ EnqueueReceived(n)

-----------------------------------------------------------------------------
\* worker_thread: an empty_job is skipped, anything else computed.

workerGoes(n, from, to) == /\ worker[n] = from
                           /\ worker' = [worker EXCEPT ![n] = to]

Poll(n) == /\ ~isEmpty(n)
           /\ workerGoes(n, "poll", "dequeue")
           /\ UNCHANGED <<worker_job, result, queueVars, adaptorVars,
                          readerVars, stateVars, sockets>>

\* Faulty: empty_job is computed like any other.
TakeAnyJob(n) == /\ \E j \in Job \cup {empty_job} :
                      /\ dequeue(n, j)
                      /\ workerGoes(n, "dequeue", "compute")
                      /\ worker_job' = [worker_job EXCEPT ![n] = j]
                 /\ UNCHANGED <<result, adaptorVars, readerVars, stateVars,
                                sockets>>

\* Faulty: job 0 is taken for the empty one.
TakePositiveJob(n) == /\ \E j \in Job \cup {empty_job} :
                           /\ dequeue(n, j)
                           /\ workerGoes(n, "dequeue",
                                         IF j <= 0 THEN "poll" ELSE "compute")
                           /\ worker_job' = [worker_job EXCEPT ![n] = j]
                      /\ UNCHANGED <<result, adaptorVars, readerVars,
                                     stateVars, sockets>>

TakeJob(n) == /\ \E j \in Job \cup {empty_job} :
                   /\ dequeue(n, j)
                   /\ workerGoes(n, "dequeue",
                                 IF j = empty_job THEN "poll" ELSE "compute")
                   /\ worker_job' = [worker_job EXCEPT ![n] = j]
              /\ UNCHANGED <<result, adaptorVars, readerVars, stateVars,
                             sockets>>

\* Faulty: one result is kept, the latest.
ComputeOverwrites(n) ==
  /\ workerGoes(n, "compute", "poll")
  /\ result' = [result EXCEPT ![n] = {worker_job[n]}]
  /\ worker_job' = [worker_job EXCEPT ![n] = empty_job]
  /\ UNCHANGED <<queueVars, adaptorVars, readerVars, stateVars, sockets>>

Compute(n) == /\ workerGoes(n, "compute", "poll")
              /\ result' = [result EXCEPT ![n] = @ \cup {worker_job[n]}]
              /\ worker_job' = [worker_job EXCEPT ![n] = empty_job]
              /\ UNCHANGED <<queueVars, adaptorVars, readerVars, stateVars,
                             sockets>>

worker_thread(n) == Poll(n) \/ TakeJob(n) \/ Compute(n)

-----------------------------------------------------------------------------
\* timer_handler samples the queue size, sleeps a second in get_cpu_use and
\* then sends.  A sample is under way from the moment it is taken: nobody can
\* tell whether it waits in get_cpu_use or in the socket.
timer_handler(n) ==
  /\ Len(state[peer(n)]) < StateCap
  /\ local_jobs' = [local_jobs EXCEPT ![n] = Len(queue[n])]
  /\ state' = [state EXCEPT ![peer(n)] = Append(@, Len(queue[n]))]
  /\ UNCHANGED <<remote_jobs, queueVars, adaptorVars, readerVars, workerVars,
                 sockets>>

state_read_thread(n) ==
  /\ state[n] # << >>
  /\ remote_jobs' = [remote_jobs EXCEPT ![n] = Head(state[n])]
  /\ state' = [state EXCEPT ![n] = Tail(@)]
  /\ UNCHANGED <<local_jobs, queueVars, adaptorVars, readerVars,
                 workerVars, sockets>>

-----------------------------------------------------------------------------

Next == \E n \in Node : \/ adaptor_thread(n) \/ comm_read_thread(n)
                        \/ worker_thread(n) \/ timer_handler(n)
                        \/ state_read_thread(n)

Spec == Init /\ [][Next]_vars

(***************************************************************************)
(* Each thread is an endless loop the kernel keeps scheduling, and reads   *)
(* and writes of a connected socket complete.  A queue operation is        *)
(* enabled until the node jams, see CallsReturn of JobQueue.               *)
(***************************************************************************)
Fairness == \A n \in Node : /\ WF_vars(adaptor_thread(n))
                            /\ WF_vars(comm_read_thread(n))
                            /\ WF_vars(worker_thread(n))
                            /\ WF_vars(timer_handler(n))
                            /\ WF_vars(state_read_thread(n))

FairSpec == Spec /\ Fairness

-----------------------------------------------------------------------------

Tasks == Job \cup {empty_job}

\* Type of the state of the two nodes and of the sockets between them.
TypeOK ==
  /\ queue \in [Node -> Seq(Tasks)]
  /\ stuck \in [Node -> BOOLEAN]
  /\ A_count \in 0 .. MaxJobs
  /\ local_jobs \in [Node -> 0 .. QUEUE_MAX]
  /\ remote_jobs \in [Node -> 0 .. QUEUE_MAX]
  /\ data \in [Node -> Seq(Tasks)]
  /\ ack \in [Node -> Seq(Tasks)]
  /\ state \in [Node -> Seq(0 .. QUEUE_MAX)]
  /\ adaptor \in [Node -> {"generate", "ask", "enqueue", "balance", "dequeue",
                           "ack_new", "ack_old"}]
  /\ adaptor_job \in [Node -> Tasks]
  /\ reader \in [Node -> {"read", "enqueue"}]
  /\ reader_job \in [Node -> Tasks]
  /\ worker \in [Node -> {"poll", "dequeue", "compute"}]
  /\ worker_job \in [Node -> Tasks]
  /\ result \in [Node -> SUBSET Job]
  /\ lost \in [Node -> SUBSET Tasks]

Waiting(n) == adaptor[n] \in {"ack_new", "ack_old"}

\* A node has at most one job under way to its peer, and its adaptor waits
\* exactly as long as that job is unread or its acknowledgement unread: no
\* acknowledgement is left over for a later transfer.
AckHandshake ==
  \A n \in Node :
    Len(data[peer(n)]) + Len(ack[n]) = IF Waiting(n) THEN 1 ELSE 0

\* Every place where job j is: queued, on a socket, in the hands of a thread,
\* computed, or dropped by the enqueue that jammed a node.
Places(j) ==
  UNION { {<<n, "queue", i>> : i \in {k \in DOMAIN queue[n] : queue[n][k] = j}}
          \cup {<<n, "data", i>> :
                  i \in {k \in DOMAIN data[n] : data[n][k] = j}}
          \cup {<<n, p, 0>> : p \in
                 {h \in {"adaptor", "reader", "worker"} :
                    j = (CASE h = "adaptor" -> adaptor_job[n]
                           [] h = "reader"  -> reader_job[n]
                           [] h = "worker"  -> worker_job[n])}}
          \cup {<<n, "result", 0>> : x \in result[n] \cap {j}}
          \cup {<<n, "lost", 0>> : x \in lost[n] \cap {j}}
          : n \in Node }

\* A generated job is in exactly one place, whichever thread of whichever node
\* handles it: none is duplicated, none disappears unseen.
JobConservation ==
  \A j \in Job : Cardinality(Places(j)) = IF j < A_count THEN 1 ELSE 0

Computed(j) == \E n \in Node : j \in result[n]

Jammed == \E n \in Node : stuck[n]

\* A node that hands a job over is answered, unless the peer has jammed: the
\* two adaptors never wait for each other for good.
TransferCompletes == \A n \in Node : []<>(~Waiting(n) \/ stuck[peer(n)])

OnItsWay(j) == \E n \in Node : \E i \in DOMAIN data[n] : data[n][i] = j

\* While no node jams, no job comes to rest uncomputed: in whatever queue or
\* hand it is, somebody computes it or hands it over, and if it is never
\* computed it is handed over again and again for ever, as the adaptors of two
\* nodes with stale sizes may do.
JobsMoveOn ==
  \A j \in Job : []<>(Jammed \/ j >= A_count \/ Computed(j) \/ OnItsWay(j))

\* What has become of each job, in the words of JobPool.
status == [j \in Job |->
            IF j >= A_count THEN "new"
            ELSE IF Computed(j) THEN "done"
            ELSE IF \E n \in Node : j \in lost[n]
                   THEN CHOOSE n \in Node : j \in lost[n]
            ELSE "pending"]

\* The nodes implement JobPool.
Pool == INSTANCE JobPool WITH Jobs <- Job, Nodes <- Node

\* Jobs are created in order, computed at most once and stay computed; a job
\* is given up only by a node that jams, once in its life.
ImplementsJobPool == Pool!PoolSpec

\* The queue of node n as a BoundedFifo that hands out o.
Buffer(n, o) == INSTANCE BoundedFifo WITH
  Jobs <- Tasks, NoJob <- empty_job, Capacity <- QUEUE_MAX,
  buf <- queue[n], open <- ~stuck[n], out <- o

\* A step that changes a queue is one operation of that queue.
OneFifoCall ==
  \A n \in Node :
    queue'[n] # queue[n] \/ stuck'[n] # stuck[n]
      => /\ \E o \in Tasks : \/ \E j \in Tasks : Buffer(n, o)!Put(j)
                             \/ Buffer(n, o)!PutFull
                             \/ Buffer(n, o)!Get
         /\ UNCHANGED <<queue[peer(n)], stuck[peer(n)]>>

\* The threads do nothing with a queue but what BoundedFifo, and so JobQueue,
\* allows: no step takes two jobs or puts one into a full or a jammed queue, no
\* step deals with both queues, and nobody clears one.
QueuesAreFifos == [][OneFifoCall]_vars
=============================================================================
