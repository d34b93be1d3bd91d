-------------------------- MODULE LoadBalancerProofs --------------------------
(***************************************************************************)
(* Proofs about LoadBalancer for any number of jobs, queues of any length  *)
(* and any threshold: where the jobs are, the transfer protocol between    *)
(* the two adaptors, and that the nodes implement JobPool.                 *)
(***************************************************************************)
EXTENDS LoadBalancer, SequenceTheorems, FiniteSetTheorems, TLAPS

Fits == \A n \in Node : Len(queue[n]) <= QUEUE_MAX

\* A thread that has no job in its hands has put it down.
HandsInv ==
  \A n \in Node :
    /\ adaptor[n] \notin {"ask", "enqueue"} => adaptor_job[n] = empty_job
    /\ reader[n] = "read" => reader_job[n] = empty_job
    /\ worker[n] # "compute" => worker_job[n] = empty_job
    /\ worker[n] = "compute" => worker_job[n] \in Job

NodeInv == TypeOK /\ Fits /\ HandsInv /\ AckHandshake

Kinds == {"queue", "data", "adaptor", "reader", "worker", "result", "lost"}

\* The jobs in each place of node n.
Held(n, k) == CASE k = "queue"   -> Range(queue[n])
                [] k = "data"    -> Range(data[n])
                [] k = "adaptor" -> {adaptor_job[n]}
                [] k = "reader"  -> {reader_job[n]}
                [] k = "worker"  -> {worker_job[n]}
                [] k = "result"  -> result[n]
                [] k = "lost"    -> lost[n]

\* No job is in two places,
OnePlace == \A j \in Job, n, m \in Node, k, l \in Kinds :
              j \in Held(n, k) /\ j \in Held(m, l) => n = m /\ k = l

\* a job that was generated is somewhere,
Somewhere == \A j \in Job :
               j < A_count <=> \E n \in Node, k \in Kinds : j \in Held(n, k)

\* and none is twice in a sequence.
NoDup(s) == \A i, k \in 1 .. Len(s) : s[i] = s[k] /\ s[i] \in Job => i = k

NoDups == \A n \in Node : NoDup(queue[n]) /\ NoDup(data[n])

\* A node loses a job when it jams.
LostInv == \A n \in Node : ~stuck[n] => lost[n] = {}

JobInv == OnePlace /\ Somewhere /\ NoDups /\ LostInv

IInv == NodeInv /\ JobInv

-----------------------------------------------------------------------------
\* The nodes

LEMMA Peers ==
  /\ LocalNode \in Node /\ RemoteNode \in Node
  /\ \A n \in Node : /\ peer(n) \in Node /\ peer(n) # n
                     /\ peer(peer(n)) = n
                     /\ \A m \in Node : m = n \/ m = peer(n)
  BY BalancerAssumption DEF Node, peer

LEMMA JobsTyped == Job \subseteq Nat /\ empty_job \notin Job
  BY BalancerAssumption DEF Job, empty_job

LEMMA Popped ==
  ASSUME NEW S, NEW s \in Seq(S), s # << >>
  PROVE  /\ Head(s) \in S /\ Tail(s) \in Seq(S)
         /\ Len(Tail(s)) = Len(s) - 1 /\ Len(s) \in Nat \ {0}
  BY HeadTailProperties, EmptySeq

LEMMA Pushed ==
  ASSUME NEW S, NEW s \in Seq(S), NEW e \in S
  PROVE  /\ Append(s, e) \in Seq(S)
         /\ Len(Append(s, e)) = Len(s) + 1 /\ Len(s) \in Nat
  OBVIOUS

LEMMA InitNode == Init => NodeInv
<1> SUFFICES ASSUME Init PROVE NodeInv
  OBVIOUS
<1>1. TypeOK
  BY BalancerAssumption DEF Init, TypeOK, Tasks, Top
<1>2. AckHandshake
  BY Peers DEF Init, AckHandshake, Waiting, Top
<1>3. QED
  BY <1>1, <1>2, BalancerAssumption
  DEF Init, NodeInv, Fits, HandsInv, Top

\* What enqueue and dequeue make of the queues.
LEMMA EnqueueTyped ==
  ASSUME TypeOK, Fits, NEW n \in Node, NEW j \in Tasks, enqueue(n, j)
  PROVE  /\ queue' \in [Node -> Seq(Tasks)] /\ Fits'
         /\ stuck' \in [Node -> BOOLEAN]
         /\ lost' \in [Node -> SUBSET Tasks]
<1>1. CASE ~isFull(n) /\ queue' = [queue EXCEPT ![n] = Append(@, j)]
           /\ UNCHANGED <<stuck, lost>>
  <2>1. Append(queue[n], j) \in Seq(Tasks)
    BY DEF TypeOK
  <2>2. Len(Append(queue[n], j)) <= QUEUE_MAX
    BY <1>1, BalancerAssumption DEF TypeOK, Fits, isFull
  <2>3. QED
    BY <1>1, <2>1, <2>2 DEF TypeOK, Fits
<1>2. CASE isFull(n) /\ stuck' = [stuck EXCEPT ![n] = TRUE]
           /\ lost' = [lost EXCEPT ![n] = @ \cup {j}] /\ UNCHANGED queue
  BY <1>2 DEF TypeOK, Fits
<1>3. QED
  BY <1>1, <1>2 DEF enqueue

LEMMA DequeueTyped ==
  ASSUME TypeOK, Fits, NEW n \in Node, NEW j, dequeue(n, j)
  PROVE  queue' \in [Node -> Seq(Tasks)] /\ Fits' /\ j \in Tasks
<1>1. CASE isEmpty(n)
  BY <1>1 DEF dequeue, isEmpty, TypeOK, Fits, Tasks
<1>2. CASE ~isEmpty(n)
  <2>1. /\ Tail(queue[n]) \in Seq(Tasks) /\ Head(queue[n]) \in Tasks
        /\ Len(Tail(queue[n])) <= Len(queue[n])
    BY <1>2 DEF isEmpty, TypeOK
  <2>2. QED
    BY <1>2, <2>1, BalancerAssumption DEF dequeue, TypeOK, Fits
<1>3. QED
  BY <1>1, <1>2

\* What the thread invariants of a node say after a step of its adaptor.
LEMMA AdaptorMoves ==
  ASSUME NodeInv, NEW n \in Node, NEW from, NEW to, adaptorGoes(n, from, to)
  PROVE  /\ adaptor[n] = from /\ adaptor'[n] = to
         /\ \A m \in Node \ {n} : adaptor'[m] = adaptor[m]
  BY DEF adaptorGoes, NodeInv, TypeOK

\* The balance of the transfer protocol, node by node.
LEMMA Handshake ==
  ASSUME NodeInv, NEW m \in Node,
         data'[peer(m)] = data[peer(m)], ack'[m] = ack[m],
         Waiting(m)' <=> Waiting(m)
  PROVE  Len(data'[peer(m)]) + Len(ack'[m]) = IF Waiting(m)' THEN 1 ELSE 0
  BY DEF NodeInv, AckHandshake

LEMMA GenerateNode ==
  ASSUME NodeInv, Generate
  PROVE  NodeInv'
<1>1. A_count \in Job /\ A_count + 1 \in 0 .. MaxJobs
  BY BalancerAssumption DEF Generate, NodeInv, TypeOK, Job
<1>2. UNCHANGED <<queueVars, readerVars, workerVars, stateVars, sockets>>
  BY DEF Generate
<1>3. /\ adaptor' \in [Node -> {"generate", "ask", "enqueue", "balance",
                                "dequeue", "ack_new", "ack_old"}]
      /\ \A m \in Node : Waiting(m)' <=> Waiting(m)
      /\ adaptor'[LocalNode] \in {"ask", "enqueue"}
      /\ \A m \in Node \ {LocalNode} : adaptor'[m] = adaptor[m]
  BY Peers DEF Generate, adaptorGoes, NodeInv, TypeOK, Waiting
<1>4. /\ adaptor_job' \in [Node -> Tasks] /\ A_count' \in 0 .. MaxJobs
      /\ \A m \in Node \ {LocalNode} : adaptor_job'[m] = adaptor_job[m]
  BY <1>1 DEF Generate, NodeInv, TypeOK, Tasks
<1>5. TypeOK'
  BY <1>2, <1>3, <1>4
  DEF NodeInv, TypeOK, queueVars, readerVars, workerVars, stateVars, sockets
<1>6. Fits' /\ HandsInv'
  BY <1>2, <1>3, <1>4
  DEF NodeInv, Fits, HandsInv, queueVars, readerVars, workerVars
<1>7. AckHandshake'
  BY <1>2, <1>3, Handshake, Peers DEF AckHandshake, sockets
<1>8. QED
  BY <1>5, <1>6, <1>7 DEF NodeInv

\* A job goes out: the adaptor begins to wait.
LEMMA SendNode ==
  ASSUME NodeInv, NEW n \in Node, NEW j \in Tasks, write(n, j),
         NEW from \in {"ask", "dequeue"}, NEW to \in {"ack_new", "ack_old"},
         adaptorGoes(n, from, to), UNCHANGED ack
  PROVE  /\ data' \in [Node -> Seq(Tasks)]
         /\ adaptor' \in [Node -> {"generate", "ask", "enqueue", "balance",
                                   "dequeue", "ack_new", "ack_old"}]
         /\ AckHandshake'
<1>1. /\ Append(data[peer(n)], j) \in Seq(Tasks)
      /\ Len(Append(data[peer(n)], j)) = Len(data[peer(n)]) + 1
      /\ Len(data[peer(n)]) \in Nat /\ Len(ack[n]) \in Nat
  <2>1. data[peer(n)] \in Seq(Tasks) /\ ack[n] \in Seq(Tasks)
    BY Peers DEF NodeInv, TypeOK
  <2>2. QED
    BY <2>1, Pushed, LenProperties
<1>2. /\ data' \in [Node -> Seq(Tasks)]
      /\ data'[peer(n)] = Append(data[peer(n)], j)
      /\ \A m \in Node \ {peer(n)} : data'[m] = data[m]
  BY <1>1, Peers DEF write, NodeInv, TypeOK
<1>3. ~Waiting(n) /\ Waiting(n)'
      /\ \A m \in Node \ {n} : Waiting(m)' <=> Waiting(m)
  BY AdaptorMoves DEF Waiting
<1>4. Len(data'[peer(n)]) + Len(ack'[n]) = 1
  <2>1. Len(data[peer(n)]) + Len(ack[n]) = 0
    BY <1>3 DEF NodeInv, AckHandshake
  <2>2. Len(data'[peer(n)]) = Len(data[peer(n)]) + 1
    BY <1>1, <1>2
  <2>3. /\ data \in [Node -> Seq(Tasks)] /\ ack \in [Node -> Seq(Tasks)]
        /\ peer(n) \in Node
    BY Peers DEF NodeInv, TypeOK
  <2>4. QED
    BY <1>2, <2>1, <2>2, <2>3
<1>5. ASSUME NEW m \in Node \ {n}
      PROVE  Len(data'[peer(m)]) + Len(ack'[m]) = IF Waiting(m)' THEN 1 ELSE 0
  BY <1>2, <1>3, <1>5, Handshake, Peers
<1>6. AckHandshake'
  BY <1>3, <1>4, <1>5, Peers DEF AckHandshake
<1>7. QED
  BY <1>2, <1>6 DEF adaptorGoes, NodeInv, TypeOK

LEMMA TransferNewNode ==
  ASSUME NodeInv, TransferNew
  PROVE  NodeInv'
<1>1. /\ data' \in [Node -> Seq(Tasks)]
      /\ adaptor' \in [Node -> {"generate", "ask", "enqueue", "balance",
                                "dequeue", "ack_new", "ack_old"}]
      /\ AckHandshake'
  <2>1. adaptor_job[LocalNode] \in Tasks
    BY Peers DEF NodeInv, TypeOK
  <2>2. QED
    BY <2>1, Peers, SendNode DEF TransferNew
<1>2. UNCHANGED <<A_count, ack, queueVars, readerVars, workerVars, stateVars>>
  BY DEF TransferNew
<1>3. /\ adaptor_job' \in [Node -> Tasks]
      /\ adaptor_job'[LocalNode] = empty_job
      /\ \A m \in Node \ {LocalNode} : /\ adaptor_job'[m] = adaptor_job[m]
                                       /\ adaptor'[m] = adaptor[m]
  <2>1. empty_job \in Tasks /\ adaptor_job \in [Node -> Tasks]
    BY DEF NodeInv, TypeOK, Tasks
  <2>2. adaptorGoes(LocalNode, "ask", "ack_new")
    BY DEF TransferNew
  <2>3. QED
    BY <2>1, <2>2, Peers, AdaptorMoves DEF TransferNew
<1>4. TypeOK'
  BY <1>1, <1>2, <1>3
  DEF NodeInv, TypeOK, queueVars, readerVars, workerVars, stateVars
<1>5. Fits' /\ HandsInv'
  BY <1>2, <1>3 DEF NodeInv, Fits, HandsInv, queueVars, readerVars, workerVars
<1>6. QED
  BY <1>1, <1>4, <1>5 DEF NodeInv

LEMMA TransferOldNode ==
  ASSUME NodeInv, NEW n \in Node, TransferOld(n)
  PROVE  NodeInv'
<1>1. PICK j : dequeue(n, j) /\ write(n, j)
  BY DEF TransferOld
<1>2. /\ queue' \in [Node -> Seq(Tasks)] /\ Fits' /\ j \in Tasks
      /\ UNCHANGED <<stuck, lost>>
  BY <1>1, DequeueTyped DEF NodeInv, dequeue
<1>3. /\ data' \in [Node -> Seq(Tasks)]
      /\ adaptor' \in [Node -> {"generate", "ask", "enqueue", "balance",
                                "dequeue", "ack_new", "ack_old"}]
      /\ AckHandshake'
  BY <1>1, <1>2, SendNode DEF TransferOld
<1>4. UNCHANGED <<A_count, adaptor_job, ack, readerVars, workerVars,
                  stateVars>>
  BY DEF TransferOld
<1>5. TypeOK'
  BY <1>2, <1>3, <1>4 DEF NodeInv, TypeOK, readerVars, workerVars, stateVars
<1>6. HandsInv'
  BY <1>4, AdaptorMoves
  DEF TransferOld, NodeInv, HandsInv, readerVars, workerVars
<1>7. QED
  BY <1>2, <1>3, <1>5, <1>6 DEF NodeInv

LEMMA EnqueueNewNode ==
  ASSUME NodeInv, EnqueueNew
  PROVE  NodeInv'
<1>1. /\ queue' \in [Node -> Seq(Tasks)] /\ Fits'
      /\ stuck' \in [Node -> BOOLEAN] /\ lost' \in [Node -> SUBSET Tasks]
  BY Peers, EnqueueTyped DEF EnqueueNew, NodeInv, TypeOK
<1>2. UNCHANGED <<A_count, readerVars, workerVars, stateVars, sockets>>
  BY DEF EnqueueNew
<1>3. /\ adaptor' \in [Node -> {"generate", "ask", "enqueue", "balance",
                                "dequeue", "ack_new", "ack_old"}]
      /\ \A m \in Node : Waiting(m)' <=> Waiting(m)
      /\ adaptor'[LocalNode] = "balance"
      /\ \A m \in Node \ {LocalNode} : adaptor'[m] = adaptor[m]
  BY Peers DEF EnqueueNew, adaptorGoes, NodeInv, TypeOK, Waiting
<1>4. /\ adaptor_job' \in [Node -> Tasks]
      /\ adaptor_job'[LocalNode] = empty_job
      /\ \A m \in Node \ {LocalNode} : adaptor_job'[m] = adaptor_job[m]
  BY Peers DEF EnqueueNew, NodeInv, TypeOK, Tasks
<1>5. TypeOK'
  BY <1>1, <1>2, <1>3, <1>4
  DEF NodeInv, TypeOK, readerVars, workerVars, stateVars, sockets
<1>6. HandsInv'
  BY <1>2, <1>3, <1>4 DEF NodeInv, HandsInv, readerVars, workerVars
<1>7. AckHandshake'
  BY <1>2, <1>3, Handshake, Peers DEF AckHandshake, sockets
<1>8. QED
  BY <1>1, <1>5, <1>6, <1>7 DEF NodeInv

\* The answer has come: nothing is under way any more.
LEMMA AcknowledgedNode ==
  ASSUME NodeInv, NEW n \in Node, Acknowledged(n)
  PROVE  NodeInv'
<1>1. UNCHANGED <<A_count, adaptor_job, data, queueVars, readerVars,
                  workerVars, stateVars>>
  BY DEF Acknowledged
<1>2. /\ adaptor' \in [Node -> {"generate", "ask", "enqueue", "balance",
                                "dequeue", "ack_new", "ack_old"}]
      /\ Waiting(n) /\ ~Waiting(n)'
      /\ adaptor'[n] \notin {"ask", "enqueue"}
      /\ \A m \in Node \ {n} : adaptor'[m] = adaptor[m]
  BY DEF Acknowledged, adaptorGoes, NodeInv, TypeOK, Waiting, Top
<1>3. /\ Tail(ack[n]) \in Seq(Tasks) /\ Len(Tail(ack[n])) = Len(ack[n]) - 1
      /\ Len(data[peer(n)]) \in Nat /\ Len(ack[n]) \in Nat \ {0}
  <2>1. /\ ack[n] \in Seq(Tasks) /\ ack[n] # << >>
        /\ data[peer(n)] \in Seq(Tasks)
    BY Peers DEF Acknowledged, NodeInv, TypeOK
  <2>2. QED
    BY <2>1, Popped, LenProperties
<1>4. /\ ack' \in [Node -> Seq(Tasks)] /\ ack'[n] = Tail(ack[n])
      /\ \A m \in Node \ {n} : ack'[m] = ack[m]
  BY <1>3 DEF Acknowledged, NodeInv, TypeOK
<1>5. TypeOK'
  BY <1>1, <1>2, <1>4
  DEF NodeInv, TypeOK, queueVars, readerVars, workerVars, stateVars
<1>6. Fits' /\ HandsInv'
  BY <1>1, <1>2
  DEF NodeInv, Fits, HandsInv, Waiting, queueVars, readerVars, workerVars
<1>7. Len(data'[peer(n)]) + Len(ack'[n]) = 0
  <2>1. Len(data[peer(n)]) + Len(ack[n]) = 1
    BY <1>2 DEF NodeInv, AckHandshake
  <2>2. data'[peer(n)] = data[peer(n)]
    BY <1>1
  <2>3. Len(ack'[n]) = Len(ack[n]) - 1
    BY <1>3, <1>4
  <2>4. /\ data \in [Node -> Seq(Tasks)] /\ ack \in [Node -> Seq(Tasks)]
        /\ peer(n) \in Node
    BY Peers DEF NodeInv, TypeOK
  <2>5. QED
    BY <1>1, <1>4, <2>1, <2>2, <2>3, <2>4
<1>8. \A m \in Node \ {n} : Waiting(m)' <=> Waiting(m)
  BY <1>2 DEF Waiting
<1>9. AckHandshake'
  BY <1>1, <1>2, <1>4, <1>7, <1>8, Handshake DEF AckHandshake
<1>10. QED
  BY <1>5, <1>6, <1>9 DEF NodeInv

LEMMA DecideNode ==
  ASSUME NodeInv, NEW n \in Node, Balance(n) \/ (n = LocalNode /\ KeepNew)
  PROVE  NodeInv'
<1>1. UNCHANGED <<A_count, adaptor_job, queueVars, readerVars, workerVars,
                  stateVars, sockets>>
  BY DEF Balance, KeepNew
<1>2. /\ adaptor' \in [Node -> {"generate", "ask", "enqueue", "balance",
                                "dequeue", "ack_new", "ack_old"}]
      /\ \A m \in Node : Waiting(m)' <=> Waiting(m)
      /\ adaptor[n] = "ask" \/ adaptor'[n] \notin {"ask", "enqueue"}
      /\ \A m \in Node \ {n} : adaptor'[m] = adaptor[m]
  BY DEF Balance, KeepNew, adaptorGoes, NodeInv, TypeOK, Waiting, Top
<1>3. adaptor[n] = "balance" \/ adaptor'[n] = "enqueue"
  BY DEF Balance, KeepNew, adaptorGoes, NodeInv, TypeOK
<1>4. TypeOK'
  BY <1>1, <1>2
  DEF NodeInv, TypeOK, queueVars, readerVars, workerVars, stateVars, sockets
<1>5. Fits' /\ HandsInv'
  BY <1>1, <1>2, <1>3
  DEF NodeInv, Fits, HandsInv, queueVars, readerVars, workerVars
<1>6. AckHandshake'
  BY <1>1, <1>2, Handshake, Peers DEF AckHandshake, sockets
<1>7. QED
  BY <1>4, <1>5, <1>6 DEF NodeInv

\* A job becomes an acknowledgement of itself.
LEMMA ReadNode ==
  ASSUME NodeInv, NEW n \in Node, ReadJob(n)
  PROVE  NodeInv'
<1>1. UNCHANGED <<queueVars, adaptorVars, workerVars, stateVars>>
  BY DEF ReadJob
<1>2. /\ Head(data[n]) \in Tasks /\ Tail(data[n]) \in Seq(Tasks)
      /\ Len(Tail(data[n])) = Len(data[n]) - 1
      /\ Append(ack[peer(n)], Head(data[n])) \in Seq(Tasks)
      /\ Len(Append(ack[peer(n)], Head(data[n]))) = Len(ack[peer(n)]) + 1
      /\ Len(data[n]) \in Nat \ {0} /\ Len(ack[peer(n)]) \in Nat
  <2>1. /\ data[n] \in Seq(Tasks) /\ data[n] # << >>
        /\ ack[peer(n)] \in Seq(Tasks)
    BY Peers DEF ReadJob, NodeInv, TypeOK
  <2>2. QED
    BY <2>1, Popped, Pushed
<1>3. /\ data' \in [Node -> Seq(Tasks)] /\ data'[n] = Tail(data[n])
      /\ \A m \in Node \ {n} : data'[m] = data[m]
  BY <1>2 DEF ReadJob, NodeInv, TypeOK
<1>4. /\ ack' \in [Node -> Seq(Tasks)]
      /\ ack'[peer(n)] = Append(ack[peer(n)], Head(data[n]))
      /\ \A m \in Node \ {peer(n)} : ack'[m] = ack[m]
  BY <1>2, Peers DEF ReadJob, NodeInv, TypeOK
<1>5. /\ reader' \in [Node -> {"read", "enqueue"}]
      /\ reader_job' \in [Node -> Tasks]
      /\ reader'[n] = "enqueue"
      /\ \A m \in Node \ {n} : /\ reader'[m] = reader[m]
                               /\ reader_job'[m] = reader_job[m]
  BY <1>2 DEF ReadJob, readerGoes, NodeInv, TypeOK
<1>6. TypeOK'
  BY <1>1, <1>3, <1>4, <1>5
  DEF NodeInv, TypeOK, queueVars, adaptorVars, workerVars, stateVars
<1>7. Fits' /\ HandsInv'
  BY <1>1, <1>5 DEF NodeInv, Fits, HandsInv, queueVars, adaptorVars, workerVars
<1>8. \A m \in Node : Waiting(m)' <=> Waiting(m)
  BY <1>1 DEF Waiting, adaptorVars
<1>9. Len(data'[n]) + Len(ack'[peer(n)]) = Len(data[n]) + Len(ack[peer(n)])
  <2>1. Len(data'[n]) = Len(data[n]) - 1
    BY <1>2, <1>3
  <2>2. Len(ack'[peer(n)]) = Len(ack[peer(n)]) + 1
    BY <1>2, <1>4
  <2>3. /\ data \in [Node -> Seq(Tasks)] /\ ack \in [Node -> Seq(Tasks)]
        /\ data' \in [Node -> Seq(Tasks)] /\ ack' \in [Node -> Seq(Tasks)]
        /\ peer(n) \in Node
    BY <1>3, <1>4, Peers DEF NodeInv, TypeOK
  <2>4. QED
    BY <2>1, <2>2, <2>3
<1>10. ASSUME NEW m \in Node
       PROVE  Len(data'[peer(m)]) + Len(ack'[m])
                = IF Waiting(m)' THEN 1 ELSE 0
  <2>1. CASE m = peer(n)
    BY <1>8, <1>9, <2>1, Peers DEF NodeInv, AckHandshake
  <2>2. CASE m = n
    BY <1>3, <1>4, <1>8, <2>2, Peers, Handshake
  <2>3. QED
    BY <2>1, <2>2, Peers
<1>11. QED
  BY <1>6, <1>7, <1>10 DEF NodeInv, AckHandshake

LEMMA EnqueueReceivedNode ==
  ASSUME NodeInv, NEW n \in Node, EnqueueReceived(n)
  PROVE  NodeInv'
<1>1. /\ queue' \in [Node -> Seq(Tasks)] /\ Fits'
      /\ stuck' \in [Node -> BOOLEAN] /\ lost' \in [Node -> SUBSET Tasks]
  BY EnqueueTyped DEF EnqueueReceived, NodeInv, TypeOK
<1>2. UNCHANGED <<adaptorVars, workerVars, stateVars, sockets>>
  BY DEF EnqueueReceived
<1>3. /\ reader' \in [Node -> {"read", "enqueue"}]
      /\ reader_job' \in [Node -> Tasks]
      /\ reader_job'[n] = empty_job
      /\ \A m \in Node \ {n} : /\ reader'[m] = reader[m]
                               /\ reader_job'[m] = reader_job[m]
  BY DEF EnqueueReceived, readerGoes, NodeInv, TypeOK, Tasks
<1>4. TypeOK'
  BY <1>1, <1>2, <1>3
  DEF NodeInv, TypeOK, adaptorVars, workerVars, stateVars, sockets
<1>5. HandsInv'
  BY <1>2, <1>3 DEF NodeInv, HandsInv, adaptorVars, workerVars
<1>6. AckHandshake'
  BY <1>2 DEF NodeInv, AckHandshake, Waiting, adaptorVars, sockets
<1>7. QED
  BY <1>1, <1>4, <1>5, <1>6 DEF NodeInv

LEMMA WorkerNode ==
  ASSUME NodeInv, NEW n \in Node, worker_thread(n)
  PROVE  NodeInv'
<1>1. UNCHANGED <<adaptorVars, readerVars, stateVars, sockets, stuck, lost>>
  BY DEF worker_thread, Poll, TakeJob, Compute, dequeue, queueVars
<1>2. AckHandshake'
  BY <1>1 DEF NodeInv, AckHandshake, Waiting, adaptorVars, sockets
<1>3. /\ worker' \in [Node -> {"poll", "dequeue", "compute"}]
      /\ \A m \in Node \ {n} : worker'[m] = worker[m]
  BY DEF worker_thread, Poll, TakeJob, Compute, workerGoes, NodeInv, TypeOK
<1>4. /\ queue' \in [Node -> Seq(Tasks)] /\ Fits'
      /\ worker_job' \in [Node -> Tasks] /\ result' \in [Node -> SUBSET Job]
      /\ worker'[n] # "compute" => worker_job'[n] = empty_job
      /\ worker'[n] = "compute" => worker_job'[n] \in Job
      /\ \A m \in Node \ {n} : worker_job'[m] = worker_job[m]
  <2>1. CASE Poll(n)
    BY <2>1
    DEF Poll, workerGoes, NodeInv, TypeOK, Fits, HandsInv, queueVars
  <2>2. CASE TakeJob(n)
    <3>1. PICK j : /\ dequeue(n, j)
                   /\ worker_job' = [worker_job EXCEPT ![n] = j]
                   /\ workerGoes(n, "dequeue",
                                 IF j = empty_job THEN "poll" ELSE "compute")
      BY <2>2 DEF TakeJob
    <3>2. queue' \in [Node -> Seq(Tasks)] /\ Fits' /\ j \in Tasks
      BY <3>1, DequeueTyped DEF NodeInv
    <3>3. result' = result
      BY <2>2 DEF TakeJob
    <3>4. QED
      BY <3>1, <3>2, <3>3 DEF workerGoes, NodeInv, TypeOK, Tasks
  <2>3. CASE Compute(n)
    <3>1. worker_job[n] \in Job
      BY <2>3 DEF Compute, workerGoes, NodeInv, HandsInv
    <3>2. QED
      BY <2>3, <3>1
      DEF Compute, workerGoes, NodeInv, TypeOK, Fits, queueVars, Tasks
  <2>4. QED
    BY <2>1, <2>2, <2>3 DEF worker_thread
<1>5. TypeOK'
  BY <1>1, <1>3, <1>4
  DEF NodeInv, TypeOK, adaptorVars, readerVars, stateVars, sockets
<1>6. HandsInv'
  BY <1>1, <1>3, <1>4 DEF NodeInv, HandsInv, adaptorVars, readerVars
<1>7. QED
  BY <1>2, <1>4, <1>5, <1>6 DEF NodeInv

\* The exchange of queue sizes has nothing to do with jobs.
LEMMA StateNode ==
  ASSUME NodeInv, NEW n \in Node, timer_handler(n) \/ state_read_thread(n)
  PROVE  NodeInv'
<1>1. UNCHANGED <<queueVars, adaptorVars, readerVars, workerVars, sockets>>
  BY DEF timer_handler, state_read_thread
<1>2. /\ local_jobs' \in [Node -> 0 .. QUEUE_MAX]
      /\ remote_jobs' \in [Node -> 0 .. QUEUE_MAX]
      /\ state' \in [Node -> Seq(0 .. QUEUE_MAX)]
  <2>1. CASE timer_handler(n)
    <3>1. Len(queue[n]) \in 0 .. QUEUE_MAX
      BY BalancerAssumption DEF NodeInv, Fits, TypeOK
    <3>2. Append(state[peer(n)], Len(queue[n])) \in Seq(0 .. QUEUE_MAX)
      BY <3>1, Peers DEF NodeInv, TypeOK
    <3>3. QED
      BY <2>1, <3>1, <3>2 DEF timer_handler, NodeInv, TypeOK
  <2>2. CASE state_read_thread(n)
    <3>1. state[n] \in Seq(0 .. QUEUE_MAX) /\ state[n] # << >>
      BY <2>2 DEF state_read_thread, NodeInv, TypeOK
    <3>2. /\ Head(state[n]) \in 0 .. QUEUE_MAX
          /\ Tail(state[n]) \in Seq(0 .. QUEUE_MAX)
      BY <3>1, Popped
    <3>3. QED
      BY <2>2, <3>2 DEF state_read_thread, NodeInv, TypeOK
  <2>3. QED
    BY <2>1, <2>2
<1>3. TypeOK'
  BY <1>1, <1>2
  DEF NodeInv, TypeOK, queueVars, adaptorVars, readerVars, workerVars, sockets
<1>4. Fits' /\ HandsInv'
  BY <1>1
  DEF NodeInv, Fits, HandsInv, queueVars, adaptorVars, readerVars, workerVars
<1>5. AckHandshake'
  BY <1>1 DEF NodeInv, AckHandshake, Waiting, adaptorVars, sockets
<1>6. QED
  BY <1>3, <1>4, <1>5 DEF NodeInv

LEMMA NextNode == NodeInv /\ [Next]_vars => NodeInv'
<1> SUFFICES ASSUME NodeInv, [Next]_vars PROVE NodeInv'
  OBVIOUS
<1>1. ASSUME NEW n \in Node, adaptor_thread(n) PROVE NodeInv'
  BY <1>1, GenerateNode, TransferNewNode, TransferOldNode, EnqueueNewNode,
     AcknowledgedNode, DecideNode
  DEF adaptor_thread
<1>2. ASSUME NEW n \in Node, comm_read_thread(n) PROVE NodeInv'
  BY <1>2, ReadNode, EnqueueReceivedNode DEF comm_read_thread
<1>3. CASE UNCHANGED vars
  BY <1>3
  DEF vars, queueVars, adaptorVars, readerVars, workerVars, stateVars,
      sockets, NodeInv, TypeOK, Fits, HandsInv, AckHandshake, Waiting
<1>4. QED
  BY <1>1, <1>2, <1>3, WorkerNode, StateNode DEF Next

-----------------------------------------------------------------------------
\* The way of a job

LEMMA PushedRange ==
  ASSUME NEW s \in Seq(Tasks), NEW e \in Tasks
  PROVE  /\ Range(Append(s, e)) = Range(s) \cup {e}
         /\ NoDup(s) /\ (e \in Job => e \notin Range(s))
              => NoDup(Append(s, e))
<1> DEFINE t == Append(s, e)
<1>1. /\ Len(s) \in Nat /\ DOMAIN s = 1 .. Len(s)
      /\ Len(t) = Len(s) + 1 /\ DOMAIN t = 1 .. Len(s) + 1
      /\ \A i \in 1 .. Len(s) : t[i] = s[i]
      /\ t[Len(s) + 1] = e
  OBVIOUS
<1> HIDE DEF t
<1>2. Range(t) = Range(s) \cup {e}
  BY <1>1 DEF Range
<1>3. ASSUME NoDup(s), e \in Job => e \notin Range(s)
      PROVE  NoDup(t)
  BY <1>1, <1>3 DEF NoDup, Range
<1>4. QED
  BY <1>2, <1>3 DEF t

LEMMA PoppedRange ==
  ASSUME NEW s \in Seq(Tasks), s # << >>
  PROVE  /\ Range(s) = Range(Tail(s)) \cup {Head(s)}
         /\ NoDup(s) => /\ NoDup(Tail(s))
                        /\ Head(s) \in Job => Head(s) \notin Range(Tail(s))
<1> DEFINE t == Tail(s)
           h == Head(s)
<1>1. /\ Len(s) \in Nat \ {0} /\ DOMAIN s = 1 .. Len(s)
      /\ Len(t) = Len(s) - 1 /\ DOMAIN t = 1 .. Len(s) - 1
      /\ \A i \in 1 .. Len(s) - 1 : t[i] = s[i + 1]
      /\ h = s[1]
  BY Popped, HeadTailProperties
<1> HIDE DEF t, h
<1>2. ASSUME NEW i \in 1 .. Len(s) PROVE s[i] \in Range(t) \cup {h}
  <2>1. CASE i = 1
    BY <1>1, <2>1
  <2>2. CASE i # 1
    <3>1. i - 1 \in 1 .. Len(s) - 1 /\ t[i - 1] = s[i]
      BY <1>1, <2>2
    <3>2. QED
      BY <1>1, <3>1 DEF Range
  <2>3. QED
    BY <2>1, <2>2
<1>3. Range(s) = Range(t) \cup {h}
  BY <1>1, <1>2 DEF Range
<1>4. ASSUME NoDup(s)
      PROVE  NoDup(t) /\ (h \in Job => h \notin Range(t))
  BY <1>1, <1>4 DEF NoDup, Range
<1>5. QED
  BY <1>3, <1>4 DEF t, h

\* What is in a place after a step, place by place.
LEMMA HeldNow ==
  ASSUME NEW n
  PROVE  /\ Held(n, "queue") = Range(queue[n])
         /\ Held(n, "data") = Range(data[n])
         /\ Held(n, "adaptor") = {adaptor_job[n]}
         /\ Held(n, "reader") = {reader_job[n]}
         /\ Held(n, "worker") = {worker_job[n]}
         /\ Held(n, "result") = result[n]
         /\ Held(n, "lost") = lost[n]
         /\ Held(n, "queue")' = Range(queue'[n])
         /\ Held(n, "data")' = Range(data'[n])
         /\ Held(n, "adaptor")' = {adaptor_job'[n]}
         /\ Held(n, "reader")' = {reader_job'[n]}
         /\ Held(n, "worker")' = {worker_job'[n]}
         /\ Held(n, "result")' = result'[n]
         /\ Held(n, "lost")' = lost'[n]
  BY DEF Held

\* Job j gets to place l of node m, and no other job moves.
MovesTo(j, m, l) ==
  \A i \in Job :
    /\ i < A_count' <=> i < A_count \/ i = j
    /\ \A n \in Node, k \in Kinds :
         i \in Held(n, k)' <=> IF i = j THEN n = m /\ k = l
                              ELSE i \in Held(n, k)

LEMMA JobMoves ==
  ASSUME OnePlace, Somewhere, NEW j, NEW m \in Node, NEW l \in Kinds,
         MovesTo(j, m, l)
  PROVE  OnePlace' /\ Somewhere'
<1>1. OnePlace'
  BY DEF OnePlace, MovesTo, Node, Job, Kinds
<1>2. Somewhere'
  BY DEF Somewhere, MovesTo, Node, Job, Kinds
<1>3. QED
  BY <1>1, <1>2

\* Queues and sockets that nobody touches stay as they are.
LEMMA NoDupsKept ==
  ASSUME JobInv, UNCHANGED <<queue, data, stuck, lost>>
  PROVE  NoDups' /\ LostInv'
<1>1. /\ \A m \in Node : \A i, k \in 1 .. Len(queue[m]) :
           queue[m][i] = queue[m][k] /\ queue[m][i] \in Job => i = k
      /\ \A m \in Node : \A i, k \in 1 .. Len(data[m]) :
           data[m][i] = data[m][k] /\ data[m][i] \in Job => i = k
  BY DEF JobInv, NoDups, NoDup
<1>2. NoDups'
  BY <1>1 DEF NoDups, NoDup, Node, Job
<1>3. LostInv'
  BY DEF JobInv, LostInv, Node
<1>4. QED
  BY <1>2, <1>3

LEMMA NoJobMoves ==
  ASSUME JobInv, UNCHANGED <<A_count, queue, data, stuck, lost>>,
         \A i \in Job, n \in Node, k \in Kinds :
           i \in Held(n, k)' <=> i \in Held(n, k)
  PROVE  JobInv'
<1>1. OnePlace' /\ Somewhere'
  BY DEF JobInv, OnePlace, Somewhere, Node, Job, Kinds
<1>2. QED
  BY <1>1, NoDupsKept DEF JobInv

\* enqueue takes a job out of the hands of a thread.
LEMMA EnqueueMoves ==
  ASSUME IInv, NEW n \in Node, NEW j \in Tasks,
         NEW h \in {"adaptor", "reader"},
         enqueue(n, j), Held(n, h) = {j},
         UNCHANGED <<A_count, data, worker_job, result>>,
         \A i \in Job, m \in Node, k \in {"adaptor", "reader"} :
           i \in Held(m, k)' <=> (m # n \/ k # h) /\ i \in Held(m, k)
  PROVE  JobInv'
<1>1. /\ queue \in [Node -> Seq(Tasks)] /\ lost \in [Node -> SUBSET Tasks]
      /\ stuck \in [Node -> BOOLEAN]
  BY DEF IInv, NodeInv, TypeOK
<1>2. empty_job \notin Job /\ (j \in Job => j < A_count)
  BY JobsTyped DEF IInv, JobInv, Somewhere, Kinds
<1>3. j \in Job => j \notin Held(n, "queue") /\ j \notin Held(n, "lost")
  BY DEF IInv, JobInv, OnePlace, Kinds
<1>4. \A i \in Job, m \in Node, k \in {"adaptor", "reader"} :
        i \in Held(m, k)' <=> i # j /\ i \in Held(m, k)
  BY <1>2 DEF IInv, JobInv, OnePlace, Kinds
<1>5. \A i \in Job, m \in Node, k \in {"data", "worker", "result"} :
        /\ i \in Held(m, k)' <=> i \in Held(m, k)
        /\ i = j => i \notin Held(m, k)
  BY HeldNow DEF IInv, JobInv, OnePlace, Kinds
<1>6. \A m \in Node \ {n}, k \in {"queue", "lost"} :
        j \in Job => j \notin Held(m, k)
  BY DEF IInv, JobInv, OnePlace, Kinds
<1>7. CASE ~isFull(n) /\ queue' = [queue EXCEPT ![n] = Append(@, j)]
           /\ UNCHANGED <<stuck, lost>>
  <2>1. /\ Range(Append(queue[n], j)) = Range(queue[n]) \cup {j}
        /\ NoDup(Append(queue[n], j))
    BY <1>1, <1>3, PushedRange, HeldNow DEF IInv, JobInv, NoDups
  <2>2. \A m \in Node : queue'[m] = IF m = n THEN Append(queue[n], j)
                                    ELSE queue[m]
    BY <1>1, <1>7
  <2>3. \A i \in Job, m \in Node, k \in {"queue", "lost"} :
          i \in Held(m, k)' <=> IF i = j THEN m = n /\ k = "queue"
                               ELSE i \in Held(m, k)
    BY <1>3, <1>6, <1>7, <2>1, <2>2, HeldNow
  <2>4. OnePlace' /\ Somewhere'
    <3>1. MovesTo(j, n, "queue")
      BY <1>2, <1>4, <1>5, <2>3 DEF MovesTo, Kinds
    <3>2. OnePlace /\ Somewhere /\ "queue" \in Kinds
      BY DEF IInv, JobInv, Kinds
    <3>3. QED
      BY <3>1, <3>2, JobMoves
  <2>5. NoDups' /\ LostInv'
    BY <1>7, <2>1, <2>2
    DEF IInv, JobInv, NoDups, NoDup, LostInv, Node, Job
  <2>6. QED
    BY <2>4, <2>5 DEF JobInv
<1>8. CASE isFull(n) /\ stuck' = [stuck EXCEPT ![n] = TRUE]
           /\ lost' = [lost EXCEPT ![n] = @ \cup {j}] /\ UNCHANGED queue
  <2>1. \A m \in Node : lost'[m] = IF m = n THEN lost[n] \cup {j} ELSE lost[m]
    BY <1>1, <1>8
  <2>2. \A i \in Job, m \in Node, k \in {"queue", "lost"} :
          i \in Held(m, k)' <=> IF i = j THEN m = n /\ k = "lost"
                               ELSE i \in Held(m, k)
    BY <1>3, <1>6, <1>8, <2>1, HeldNow
  <2>3. OnePlace' /\ Somewhere'
    <3>1. MovesTo(j, n, "lost")
      BY <1>2, <1>4, <1>5, <2>2 DEF MovesTo, Kinds
    <3>2. OnePlace /\ Somewhere /\ "lost" \in Kinds
      BY DEF IInv, JobInv, Kinds
    <3>3. QED
      BY <3>1, <3>2, JobMoves
  <2>4. NoDups' /\ LostInv'
    BY <1>1, <1>8, <2>1 DEF IInv, JobInv, NoDups, NoDup, LostInv, Node, Job
  <2>5. QED
    BY <2>3, <2>4 DEF JobInv
<1>9. QED
  BY <1>7, <1>8 DEF enqueue

\* dequeue takes a job out of the queue of a node, or gives empty_job.
LEMMA DequeueMoves ==
  ASSUME IInv, NEW n \in Node, NEW j \in Tasks, dequeue(n, j)
  PROVE  /\ j \in Job => j \in Held(n, "queue") /\ j < A_count
         /\ \A i \in Job, m \in Node :
              i \in Held(m, "queue")' <=> i # j /\ i \in Held(m, "queue")
         /\ \A m \in Node : NoDup(queue'[m])
<1>1. queue \in [Node -> Seq(Tasks)] /\ empty_job \notin Job
  BY JobsTyped DEF IInv, NodeInv, TypeOK
<1>2. \A m \in Node : NoDup(queue[m])
  BY DEF IInv, JobInv, NoDups
<1>3. CASE isEmpty(n)
  <2>1. j = empty_job /\ queue' = queue
    BY <1>1, <1>3 DEF dequeue
  <2>2. QED
    BY <1>1, <1>2, <2>1, HeldNow
<1>4. CASE ~isEmpty(n)
  <2>1. queue[n] \in Seq(Tasks) /\ queue[n] # << >>
    BY <1>1, <1>4 DEF isEmpty
  <2>2. j = Head(queue[n])
    BY <1>4 DEF dequeue
  <2>3. \A m \in Node : queue'[m] = IF m = n THEN Tail(queue[n]) ELSE queue[m]
    BY <1>1, <1>4 DEF dequeue
  <2>4. /\ Range(queue[n]) = Range(Tail(queue[n])) \cup {j}
        /\ NoDup(Tail(queue[n]))
        /\ j \in Job => j \notin Range(Tail(queue[n]))
    BY <1>2, <2>1, <2>2, PoppedRange
  <2>5. \A m \in Node \ {n} : j \in Job => j \notin Held(m, "queue")
    <3>1. j \in Held(n, "queue")
      BY <2>4, HeldNow
    <3>2. QED
      BY <3>1 DEF IInv, JobInv, OnePlace, Kinds
  <2>6. \A m \in Node : NoDup(queue'[m])
    BY <1>2, <2>3, <2>4
  <2>7. j \in Job => j \in Held(n, "queue") /\ j < A_count
    <3>1. j \in Held(n, "queue")
      BY <2>4, HeldNow
    <3>2. QED
      BY <3>1 DEF IInv, JobInv, Somewhere, Kinds
  <2>8. \A i \in Job, m \in Node :
          i \in Held(m, "queue")' <=> i # j /\ i \in Held(m, "queue")
    BY <2>3, <2>4, <2>5, HeldNow
  <2>9. QED
    BY <2>6, <2>7, <2>8
<1>5. QED
  BY <1>3, <1>4

\* A job written to a socket is on its way to the peer.
LEMMA WriteMoves ==
  ASSUME IInv, NEW n \in Node, NEW j \in Tasks, write(n, j),
         j \in Job => j \notin Held(peer(n), "data")
  PROVE  /\ \A i \in Job, m \in Node :
              i \in Held(m, "data")' <=> \/ i = j /\ m = peer(n)
                                         \/ i \in Held(m, "data")
         /\ \A m \in Node : NoDup(data'[m])
<1>1. data \in [Node -> Seq(Tasks)] /\ peer(n) \in Node
  BY Peers DEF IInv, NodeInv, TypeOK
<1>2. \A m \in Node : data'[m] = IF m = peer(n)
                                   THEN Append(data[peer(n)], j)
                                   ELSE data[m]
  BY <1>1 DEF write
<1>3. \A m \in Node : NoDup(data[m])
  BY DEF IInv, JobInv, NoDups
<1>4. /\ Range(Append(data[peer(n)], j)) = Range(data[peer(n)]) \cup {j}
      /\ NoDup(Append(data[peer(n)], j))
  BY <1>1, <1>3, PushedRange, HeldNow
<1>5. QED
  BY <1>2, <1>3, <1>4, HeldNow

\* A new job was nowhere before.
LEMMA GenerateMoves ==
  ASSUME IInv, Generate
  PROVE  JobInv'
<1>1. /\ A_count \in Nat /\ A_count' = A_count + 1 /\ Job \subseteq Nat
      /\ LocalNode \in Node /\ empty_job \notin Job
  BY Peers, JobsTyped DEF Generate, IInv, NodeInv, TypeOK
<1>2. /\ \A m \in Node : adaptor_job'[m] = IF m = LocalNode THEN A_count
                                           ELSE adaptor_job[m]
      /\ adaptor_job[LocalNode] = empty_job
      /\ UNCHANGED <<queueVars, reader_job, workerVars, data>>
  BY <1>1 DEF Generate, adaptorGoes, IInv, NodeInv, TypeOK, HandsInv,
              readerVars, sockets
<1>3. PICK c : c = A_count
  OBVIOUS
<1>4. c \in Job => \A m \in Node, k \in Kinds : c \notin Held(m, k)
  BY <1>1, <1>3 DEF IInv, JobInv, Somewhere
<1>5. \A i \in Job, m \in Node :
        i \in Held(m, "adaptor")' <=> IF i = c THEN m = LocalNode
                                     ELSE i \in Held(m, "adaptor")
  BY <1>1, <1>2, <1>3, <1>4, HeldNow DEF Kinds
<1>6. \A i \in Job, m \in Node,
        k \in {"queue", "data", "reader", "worker", "result", "lost"} :
          i \in Held(m, k)' <=> i \in Held(m, k)
  <2>1. UNCHANGED <<queue, lost, data, reader_job, worker_job, result>>
    BY <1>2 DEF queueVars, workerVars
  <2>2. QED
    BY <2>1, HeldNow
<1>7. MovesTo(c, LocalNode, "adaptor")
  <2>1. \A i \in Job : i < A_count' <=> i < A_count \/ i = c
    BY <1>1, <1>3
  <2>2. QED
    BY <2>1, <1>4, <1>5, <1>6 DEF MovesTo, Kinds
<1>8. OnePlace' /\ Somewhere'
  <2>1. OnePlace /\ Somewhere /\ "adaptor" \in Kinds
    BY DEF IInv, JobInv, Kinds
  <2>2. QED
    BY <1>1, <1>7, <2>1, JobMoves
<1>9. NoDups' /\ LostInv'
  BY <1>2, NoDupsKept DEF IInv, queueVars
<1>10. QED
  BY <1>8, <1>9 DEF JobInv

\* A job written to a socket leaves the hands of the adaptor
LEMMA TransferNewMoves ==
  ASSUME IInv, TransferNew
  PROVE  JobInv'
<1>1. PICK j \in Tasks : j = adaptor_job[LocalNode]
  BY Peers DEF IInv, NodeInv, TypeOK
<1>2. /\ write(LocalNode, j) /\ UNCHANGED <<A_count, queueVars>>
      /\ UNCHANGED <<queue, lost, reader_job, worker_job, result>>
      /\ LocalNode \in Node /\ empty_job \notin Job
  BY <1>1, Peers, JobsTyped
  DEF TransferNew, queueVars, readerVars, workerVars
<1>3. \A m \in Node : adaptor_job'[m] = IF m = LocalNode THEN empty_job
                                        ELSE adaptor_job[m]
  BY DEF TransferNew, IInv, NodeInv, TypeOK
<1>4. j \in Held(LocalNode, "adaptor")
  BY <1>1, HeldNow
<1>5. j \in Job => /\ j < A_count
                   /\ \A m \in Node, k \in Kinds :
                        j \in Held(m, k) => m = LocalNode /\ k = "adaptor"
  BY <1>2, <1>4 DEF IInv, JobInv, OnePlace, Somewhere, Kinds
<1>6. /\ \A i \in Job, m \in Node :
           i \in Held(m, "data")' <=> \/ i = j /\ m = peer(LocalNode)
                                      \/ i \in Held(m, "data")
      /\ \A m \in Node : NoDup(data'[m])
  <2>1. j \in Job => j \notin Held(peer(LocalNode), "data")
    BY <1>5, Peers DEF Kinds
  <2>2. QED
    BY <1>2, <2>1, WriteMoves
<1>7. \A i \in Job, m \in Node :
        i \in Held(m, "adaptor")' <=> i # j /\ i \in Held(m, "adaptor")
  BY <1>1, <1>2, <1>3, <1>5, HeldNow DEF Kinds
<1>8. \A i \in Job, m \in Node,
        k \in {"queue", "reader", "worker", "result", "lost"} :
          i \in Held(m, k)' <=> i \in Held(m, k)
  BY <1>2, HeldNow
<1>9. MovesTo(j, peer(LocalNode), "data")
  BY <1>2, <1>5, <1>6, <1>7, <1>8 DEF MovesTo, Kinds
<1>10. OnePlace' /\ Somewhere'
  <2>1. /\ OnePlace /\ Somewhere /\ "data" \in Kinds
        /\ peer(LocalNode) \in Node
    BY <1>2, Peers DEF IInv, JobInv, Kinds
  <2>2. QED
    BY <1>9, <2>1, JobMoves
<1>11. NoDups' /\ LostInv'
  BY <1>2, <1>6 DEF IInv, JobInv, NoDups, NoDup, LostInv, queueVars, Node, Job
<1>12. QED
  BY <1>10, <1>11 DEF JobInv

\* or the queue.
LEMMA TransferOldMoves ==
  ASSUME IInv, NEW n \in Node, TransferOld(n)
  PROVE  JobInv'
<1>1. PICK j \in Tasks : dequeue(n, j) /\ write(n, j)
  BY DEF TransferOld, Tasks
<1>2. UNCHANGED <<A_count, stuck, lost, adaptor_job, reader_job, worker_job,
                  result>>
  BY <1>1 DEF TransferOld, dequeue, readerVars, workerVars
<1>3. /\ j \in Job => j \in Held(n, "queue") /\ j < A_count
      /\ \A i \in Job, m \in Node :
           i \in Held(m, "queue")' <=> i # j /\ i \in Held(m, "queue")
      /\ \A m \in Node : NoDup(queue'[m])
  BY <1>1, DequeueMoves
<1>4. j \in Job => \A m \in Node, k \in Kinds :
                     j \in Held(m, k) => m = n /\ k = "queue"
  BY <1>3 DEF IInv, JobInv, OnePlace, Kinds
<1>5. /\ \A i \in Job, m \in Node :
           i \in Held(m, "data")' <=> \/ i = j /\ m = peer(n)
                                      \/ i \in Held(m, "data")
      /\ \A m \in Node : NoDup(data'[m])
  <2>1. j \in Job => j \notin Held(peer(n), "data")
    BY <1>4, Peers DEF Kinds
  <2>2. QED
    BY <1>1, <2>1, WriteMoves
<1>6. \A i \in Job, m \in Node,
        k \in {"adaptor", "reader", "worker", "result", "lost"} :
          i \in Held(m, k)' <=> i \in Held(m, k)
  BY <1>2, HeldNow
<1>7. MovesTo(j, peer(n), "data")
  BY <1>2, <1>3, <1>4, <1>5, <1>6 DEF MovesTo, Kinds
<1>8. OnePlace' /\ Somewhere'
  <2>1. OnePlace /\ Somewhere /\ "data" \in Kinds /\ peer(n) \in Node
    BY Peers DEF IInv, JobInv, Kinds
  <2>2. QED
    BY <1>7, <2>1, JobMoves
<1>9. NoDups' /\ LostInv'
  BY <1>2, <1>3, <1>5 DEF IInv, JobInv, NoDups, NoDup, LostInv, Node, Job
<1>10. QED
  BY <1>8, <1>9 DEF JobInv

LEMMA TakeJobMoves ==
  ASSUME IInv, NEW n \in Node, TakeJob(n)
  PROVE  JobInv'
<1>1. PICK j \in Tasks : /\ dequeue(n, j)
                         /\ worker_job' = [worker_job EXCEPT ![n] = j]
  BY DEF TakeJob, Tasks
<1>2. /\ UNCHANGED <<A_count, stuck, lost, adaptor_job, reader_job, data,
                     result>>
      /\ empty_job \notin Job
  BY <1>1, JobsTyped
  DEF TakeJob, dequeue, adaptorVars, readerVars, sockets
<1>3. /\ \A m \in Node : worker_job'[m] = IF m = n THEN j ELSE worker_job[m]
      /\ worker_job[n] = empty_job
  BY <1>1 DEF TakeJob, workerGoes, IInv, NodeInv, TypeOK, HandsInv
<1>4. /\ j \in Job => j \in Held(n, "queue") /\ j < A_count
      /\ \A i \in Job, m \in Node :
           i \in Held(m, "queue")' <=> i # j /\ i \in Held(m, "queue")
      /\ \A m \in Node : NoDup(queue'[m])
  BY <1>1, DequeueMoves
<1>5. j \in Job => \A m \in Node, k \in Kinds :
                     j \in Held(m, k) => m = n /\ k = "queue"
  BY <1>4 DEF IInv, JobInv, OnePlace, Kinds
<1>6. \A i \in Job, m \in Node :
        i \in Held(m, "worker")' <=> \/ i = j /\ m = n
                                     \/ i \in Held(m, "worker")
  BY <1>2, <1>3, HeldNow
<1>7. \A i \in Job, m \in Node,
        k \in {"data", "adaptor", "reader", "result", "lost"} :
          i \in Held(m, k)' <=> i \in Held(m, k)
  BY <1>2, HeldNow
<1>8. MovesTo(j, n, "worker")
  BY <1>2, <1>4, <1>5, <1>6, <1>7 DEF MovesTo, Kinds
<1>9. OnePlace' /\ Somewhere'
  <2>1. OnePlace /\ Somewhere /\ "worker" \in Kinds
    BY DEF IInv, JobInv, Kinds
  <2>2. QED
    BY <1>8, <2>1, JobMoves
<1>10. NoDups' /\ LostInv'
  BY <1>2, <1>4 DEF IInv, JobInv, NoDups, NoDup, LostInv, Node, Job
<1>11. QED
  BY <1>9, <1>10 DEF JobInv

\* A job read from a socket is in the hands of the reader.
LEMMA ReadMoves ==
  ASSUME IInv, NEW n \in Node, ReadJob(n)
  PROVE  JobInv'
<1>1. /\ data \in [Node -> Seq(Tasks)]
      /\ data[n] \in Seq(Tasks) /\ data[n] # << >>
      /\ empty_job \notin Job
  BY JobsTyped DEF ReadJob, IInv, NodeInv, TypeOK
<1>2. PICK j \in Tasks : j = Head(data[n])
  BY <1>1, Popped
<1>3. /\ Range(data[n]) = Range(Tail(data[n])) \cup {j}
      /\ NoDup(Tail(data[n]))
      /\ j \in Job => j \notin Range(Tail(data[n]))
  BY <1>1, <1>2, PoppedRange DEF IInv, JobInv, NoDups
<1>4. \A m \in Node : data'[m] = IF m = n THEN Tail(data[n]) ELSE data[m]
  BY <1>1 DEF ReadJob
<1>5. /\ \A m \in Node : reader_job'[m] = IF m = n THEN j ELSE reader_job[m]
      /\ reader_job[n] = empty_job
  BY <1>2 DEF ReadJob, readerGoes, IInv, NodeInv, TypeOK, HandsInv
<1>6. UNCHANGED <<A_count, queue, stuck, lost, adaptor_job, worker_job,
                  result>>
  BY DEF ReadJob, queueVars, adaptorVars, workerVars
<1>7. j \in Held(n, "data")
  BY <1>3, HeldNow
<1>8. j \in Job => /\ j < A_count
                   /\ \A m \in Node, k \in Kinds :
                        j \in Held(m, k) => m = n /\ k = "data"
  BY <1>7 DEF IInv, JobInv, OnePlace, Somewhere, Kinds
<1>9. \A i \in Job, m \in Node :
        i \in Held(m, "data")' <=> i # j /\ i \in Held(m, "data")
  <2>1. \A m \in Node \ {n} : j \in Job => j \notin Held(m, "data")
    BY <1>8 DEF Kinds
  <2>2. QED
    BY <1>3, <1>4, <2>1, HeldNow
<1>10. \A i \in Job, m \in Node :
         i \in Held(m, "reader")' <=> \/ i = j /\ m = n
                                      \/ i \in Held(m, "reader")
  BY <1>1, <1>5, HeldNow
<1>11. \A i \in Job, m \in Node,
         k \in {"queue", "adaptor", "worker", "result", "lost"} :
           i \in Held(m, k)' <=> i \in Held(m, k)
  BY <1>6, HeldNow
<1>12. MovesTo(j, n, "reader")
  BY <1>6, <1>8, <1>9, <1>10, <1>11 DEF MovesTo, Kinds
<1>13. OnePlace' /\ Somewhere'
  <2>1. OnePlace /\ Somewhere /\ "reader" \in Kinds
    BY DEF IInv, JobInv, Kinds
  <2>2. QED
    BY <1>12, <2>1, JobMoves
<1>14. NoDups' /\ LostInv'
  <2>1. \A m \in Node : NoDup(data'[m])
    BY <1>3, <1>4 DEF IInv, JobInv, NoDups
  <2>2. QED
    BY <1>6, <2>1 DEF IInv, JobInv, NoDups, NoDup, LostInv, Node, Job
<1>15. QED
  BY <1>13, <1>14 DEF JobInv

\* A job computed is a result.
LEMMA ComputeMoves ==
  ASSUME IInv, NEW n \in Node, Compute(n)
  PROVE  JobInv'
<1>1. PICK j \in Job : j = worker_job[n]
  BY DEF Compute, workerGoes, IInv, NodeInv, HandsInv
<1>2. /\ UNCHANGED <<A_count, queue, stuck, lost, adaptor_job, reader_job,
                     data>>
      /\ empty_job \notin Job
  BY JobsTyped DEF Compute, queueVars, adaptorVars, readerVars, sockets
<1>3. /\ \A m \in Node : worker_job'[m] = IF m = n THEN empty_job
                                          ELSE worker_job[m]
      /\ \A m \in Node : result'[m] = IF m = n THEN result[n] \cup {j}
                                      ELSE result[m]
  BY <1>1 DEF Compute, IInv, NodeInv, TypeOK
<1>4. j \in Held(n, "worker")
  BY <1>1, HeldNow
<1>5. /\ j < A_count
      /\ \A m \in Node, k \in Kinds :
           j \in Held(m, k) => m = n /\ k = "worker"
  BY <1>4 DEF IInv, JobInv, OnePlace, Somewhere, Kinds
<1>6. \A i \in Job, m \in Node :
        i \in Held(m, "worker")' <=> i # j /\ i \in Held(m, "worker")
  BY <1>1, <1>2, <1>3, <1>5, HeldNow DEF Kinds
<1>7. \A i \in Job, m \in Node :
        i \in Held(m, "result")' <=> \/ i = j /\ m = n
                                     \/ i \in Held(m, "result")
  BY <1>3, HeldNow
<1>8. \A i \in Job, m \in Node,
        k \in {"queue", "data", "adaptor", "reader", "lost"} :
          i \in Held(m, k)' <=> i \in Held(m, k)
  BY <1>2, HeldNow
<1>9. MovesTo(j, n, "result")
  BY <1>2, <1>5, <1>6, <1>7, <1>8 DEF MovesTo, Kinds
<1>10. OnePlace' /\ Somewhere'
  <2>1. OnePlace /\ Somewhere /\ "result" \in Kinds
    BY DEF IInv, JobInv, Kinds
  <2>2. QED
    BY <1>9, <2>1, JobMoves
<1>11. NoDups' /\ LostInv'
  <2>1. UNCHANGED <<queue, data, stuck, lost>>
    BY <1>2
  <2>2. QED
    BY <2>1, NoDupsKept DEF IInv
<1>12. QED
  BY <1>10, <1>11 DEF JobInv

LEMMA EnqueueNewMoves ==
  ASSUME IInv, EnqueueNew
  PROVE  JobInv'
<1>1. PICK j \in Tasks : j = adaptor_job[LocalNode]
  BY Peers DEF IInv, NodeInv, TypeOK
<1>2. /\ enqueue(LocalNode, j) /\ LocalNode \in Node
      /\ UNCHANGED <<A_count, data, worker_job, result, reader_job>>
  BY <1>1, Peers DEF EnqueueNew, readerVars, workerVars, sockets
<1>3. \A m \in Node : adaptor_job'[m] = IF m = LocalNode THEN empty_job
                                        ELSE adaptor_job[m]
  BY DEF EnqueueNew, IInv, NodeInv, TypeOK
<1>4. Held(LocalNode, "adaptor") = {j} /\ empty_job \notin Job
  BY <1>1, HeldNow, JobsTyped
<1>5. \A i \in Job, m \in Node, k \in {"adaptor", "reader"} :
        i \in Held(m, k)' <=> /\ m # LocalNode \/ k # "adaptor"
                             /\ i \in Held(m, k)
  BY <1>2, <1>3, <1>4, HeldNow
<1>6. QED
  BY <1>2, <1>4, <1>5, EnqueueMoves

LEMMA EnqueueReceivedMoves ==
  ASSUME IInv, NEW n \in Node, EnqueueReceived(n)
  PROVE  JobInv'
<1>1. PICK j \in Tasks : j = reader_job[n]
  BY DEF IInv, NodeInv, TypeOK
<1>2. /\ enqueue(n, j)
      /\ UNCHANGED <<A_count, data, worker_job, result, adaptor_job>>
  BY <1>1 DEF EnqueueReceived, adaptorVars, workerVars, sockets
<1>3. \A m \in Node : reader_job'[m] = IF m = n THEN empty_job
                                       ELSE reader_job[m]
  BY DEF EnqueueReceived, IInv, NodeInv, TypeOK
<1>4. Held(n, "reader") = {j} /\ empty_job \notin Job
  BY <1>1, HeldNow, JobsTyped
<1>5. \A i \in Job, m \in Node, k \in {"adaptor", "reader"} :
        i \in Held(m, k)' <=> (m # n \/ k # "reader") /\ i \in Held(m, k)
  BY <1>2, <1>3, <1>4, HeldNow
<1>6. QED
  BY <1>2, <1>4, <1>5, EnqueueMoves

-----------------------------------------------------------------------------
\* All steps

LEMMA Quiet ==
  ASSUME IInv, UNCHANGED <<A_count, queue, stuck, lost, adaptor_job,
                           reader_job, worker_job, result, data>>
  PROVE  JobInv'
<1>1. \A i \in Job, n \in Node, k \in Kinds :
        i \in Held(n, k)' <=> i \in Held(n, k)
  BY HeldNow DEF Kinds
<1>2. QED
  BY <1>1, NoJobMoves DEF IInv

LEMMA NextJobs == IInv /\ [Next]_vars => JobInv'
<1> SUFFICES ASSUME IInv, [Next]_vars PROVE JobInv'
  OBVIOUS
<1>1. ASSUME NEW n \in Node, adaptor_thread(n) PROVE JobInv'
  <2>1. CASE n = LocalNode /\ KeepNew
    BY <2>1, Quiet
    DEF KeepNew, queueVars, readerVars, workerVars, sockets
  <2>2. CASE Acknowledged(n)
    BY <2>2, Quiet DEF Acknowledged, queueVars, readerVars, workerVars
  <2>3. CASE Balance(n)
    BY <2>3, Quiet DEF Balance, queueVars, readerVars, workerVars, sockets
  <2>4. QED
    BY <1>1, <2>1, <2>2, <2>3, GenerateMoves, TransferNewMoves,
       EnqueueNewMoves, TransferOldMoves
    DEF adaptor_thread
<1>2. ASSUME NEW n \in Node, comm_read_thread(n) PROVE JobInv'
  BY <1>2, ReadMoves, EnqueueReceivedMoves DEF comm_read_thread
<1>3. ASSUME NEW n \in Node, worker_thread(n) PROVE JobInv'
  <2>1. CASE Poll(n)
    BY <2>1, Quiet DEF Poll, queueVars, adaptorVars, readerVars, sockets
  <2>2. QED
    BY <1>3, <2>1, TakeJobMoves, ComputeMoves DEF worker_thread
<1>4. ASSUME NEW n \in Node, timer_handler(n) \/ state_read_thread(n)
      PROVE  JobInv'
  BY <1>4, Quiet
  DEF timer_handler, state_read_thread, queueVars, adaptorVars, readerVars,
      workerVars, sockets
<1>5. CASE UNCHANGED vars
  BY <1>5, Quiet
  DEF vars, queueVars, adaptorVars, readerVars, workerVars, sockets
<1>6. QED
  BY <1>1, <1>2, <1>3, <1>4, <1>5 DEF Next

LEMMA InitJobs == Init => JobInv
<1> SUFFICES ASSUME Init PROVE JobInv
  OBVIOUS
<1>1. \A j \in Job, n \in Node, k \in Kinds : j \notin Held(n, k)
  <2>1. \A n \in Node : Range(queue[n]) = {} /\ Range(data[n]) = {}
    BY DEF Init, Range
  <2>2. QED
    BY <2>1, HeldNow, JobsTyped DEF Init, Kinds
<1>2. OnePlace /\ Somewhere
  BY <1>1, JobsTyped DEF Init, OnePlace, Somewhere
<1>3. NoDups /\ LostInv
  BY DEF Init, NoDups, NoDup, LostInv
<1>4. QED
  BY <1>2, <1>3 DEF JobInv

\* The inductive invariant: what each thread has in its hands, the balance of
\* the transfer protocol, and one place for every job that was generated.
THEOREM Invariant == Spec => []IInv
<1>1. Init => IInv
  BY InitNode, InitJobs DEF IInv
<1>2. IInv /\ [Next]_vars => IInv'
  BY NextNode, NextJobs DEF IInv
<1>3. QED
  BY <1>1, <1>2, PTL DEF Spec

\* Queues, messages in flight and threads keep their types, for any number of
\* jobs and any QUEUE_MAX.
THEOREM TypeCorrect == Spec => []TypeOK
<1>1. IInv => TypeOK
  BY DEF IInv, NodeInv
<1>2. QED
  BY <1>1, Invariant, PTL

\* Places(j) lists where j is held, with its position in a sequence.
LEMMA PlacesHeld ==
  ASSUME TypeOK, NEW j \in Job
  PROVE  /\ \A p \in Places(j) :
              \E n \in Node, k \in Kinds, i \in Nat :
                /\ p = <<n, k, i>> /\ j \in Held(n, k)
                /\ k = "queue" => i \in 1 .. Len(queue[n]) /\ queue[n][i] = j
                /\ k = "data" => i \in 1 .. Len(data[n]) /\ data[n][i] = j
                /\ k \notin {"queue", "data"} => i = 0
         /\ \A n \in Node, k \in Kinds :
              j \in Held(n, k) => \E p : p \in Places(j)
<1> DEFINE InHands(n) == {h \in {"adaptor", "reader", "worker"} :
                            j = (CASE h = "adaptor" -> adaptor_job[n]
                                   [] h = "reader"  -> reader_job[n]
                                   [] h = "worker"  -> worker_job[n])}
           Queued(n) == {i \in DOMAIN queue[n] : queue[n][i] = j}
           UnderWay(n) == {i \in DOMAIN data[n] : data[n][i] = j}
           Here(n) == {<<n, "queue", i>> : i \in Queued(n)}
                      \cup {<<n, "data", i>> : i \in UnderWay(n)}
                      \cup {<<n, h, 0>> : h \in InHands(n)}
                      \cup {<<n, "result", 0>> : x \in result[n] \cap {j}}
                      \cup {<<n, "lost", 0>> : x \in lost[n] \cap {j}}
<1>1. Places(j) = UNION {Here(n) : n \in Node}
  BY DEF Places
<1>2. \A n \in Node : /\ DOMAIN queue[n] = 1 .. Len(queue[n])
                      /\ DOMAIN data[n] = 1 .. Len(data[n])
                      /\ Len(queue[n]) \in Nat /\ Len(data[n]) \in Nat
  BY DEF TypeOK
<1>3. \A n \in Node :
        InHands(n) = {h \in {"adaptor", "reader", "worker"} : j \in Held(n, h)}
  BY HeldNow
<1>4. \A n \in Node :
        /\ \A i : i \in Queued(n) => /\ i \in 1 .. Len(queue[n])
                                     /\ queue[n][i] = j
                                     /\ j \in Held(n, "queue")
        /\ \A i : i \in UnderWay(n) => /\ i \in 1 .. Len(data[n])
                                       /\ data[n][i] = j
                                       /\ j \in Held(n, "data")
        /\ j \in Held(n, "queue") => \E i : i \in Queued(n)
        /\ j \in Held(n, "data") => \E i : i \in UnderWay(n)
  BY <1>2, HeldNow DEF Range
<1>5. \A n \in Node : /\ j \in Held(n, "result") <=> j \in result[n]
                      /\ j \in Held(n, "lost") <=> j \in lost[n]
  BY HeldNow
<1> HIDE DEF InHands, Queued, UnderWay
<1>6. ASSUME NEW n \in Node, NEW p \in Here(n)
      PROVE  \E k \in Kinds, i \in Nat :
               /\ p = <<n, k, i>> /\ j \in Held(n, k)
               /\ k = "queue" => i \in 1 .. Len(queue[n]) /\ queue[n][i] = j
               /\ k = "data" => i \in 1 .. Len(data[n]) /\ data[n][i] = j
               /\ k \notin {"queue", "data"} => i = 0
  <2>1. CASE p \in {<<n, "queue", i>> : i \in Queued(n)}
    BY <1>2, <1>4, <2>1 DEF Kinds
  <2>2. CASE p \in {<<n, "data", i>> : i \in UnderWay(n)}
    BY <1>2, <1>4, <2>2 DEF Kinds
  <2>3. CASE p \in {<<n, h, 0>> : h \in InHands(n)}
    BY <1>3, <2>3 DEF Kinds
  <2>4. CASE p \in {<<n, "result", 0>> : x \in result[n] \cap {j}}
    BY <1>5, <2>4 DEF Kinds
  <2>5. CASE p \in {<<n, "lost", 0>> : x \in lost[n] \cap {j}}
    BY <1>5, <2>5 DEF Kinds
  <2>6. QED
    BY <1>6, <2>1, <2>2, <2>3, <2>4, <2>5
<1>7. ASSUME NEW n \in Node, NEW k \in Kinds, j \in Held(n, k)
      PROVE  \E p : p \in Here(n)
  <2>1. CASE k = "queue"
    <3>1. PICK i : i \in Queued(n)
      BY <1>4, <1>7, <2>1
    <3>2. <<n, "queue", i>> \in Here(n)
      BY <3>1
    <3>3. QED
      BY <3>2
  <2>2. CASE k = "data"
    <3>1. PICK i : i \in UnderWay(n)
      BY <1>4, <1>7, <2>2
    <3>2. <<n, "data", i>> \in Here(n)
      BY <3>1
    <3>3. QED
      BY <3>2
  <2>3. CASE k \in {"adaptor", "reader", "worker"}
    <3>1. <<n, k, 0>> \in Here(n)
      BY <1>3, <1>7, <2>3
    <3>2. QED
      BY <3>1
  <2>4. CASE k = "result"
    BY <1>5, <1>7, <2>4
  <2>5. CASE k = "lost"
    BY <1>5, <1>7, <2>5
  <2>6. QED
    BY <2>1, <2>2, <2>3, <2>4, <2>5 DEF Kinds
<1> HIDE DEF Here
<1>8. QED
  BY <1>1, <1>6, <1>7

\* The adaptors never mistake an old answer for a new one.
THEOREM AcksMatch == Spec => []AckHandshake
<1>1. IInv => AckHandshake
  BY DEF IInv, NodeInv
<1>2. QED
  BY <1>1, Invariant, PTL

\* A generated job is in exactly one place.
LEMMA Conserved == IInv => JobConservation
<1> SUFFICES ASSUME IInv, NEW j \in Job
             PROVE  Cardinality(Places(j)) = IF j < A_count THEN 1 ELSE 0
  BY DEF JobConservation
<1>1. TypeOK /\ OnePlace /\ Somewhere /\ NoDups
  BY DEF IInv, NodeInv, JobInv
<1>2. \A p \in Places(j) :
        \E n \in Node, k \in Kinds, i \in Nat :
          /\ p = <<n, k, i>> /\ j \in Held(n, k)
          /\ k = "queue" => i \in 1 .. Len(queue[n]) /\ queue[n][i] = j
          /\ k = "data" => i \in 1 .. Len(data[n]) /\ data[n][i] = j
          /\ k \notin {"queue", "data"} => i = 0
  BY <1>1, PlacesHeld
<1>3. ASSUME NEW p \in Places(j), NEW q \in Places(j)
      PROVE  p = q
  <2>1. PICK n \in Node, k \in Kinds, i \in Nat :
          /\ p = <<n, k, i>> /\ j \in Held(n, k)
          /\ k = "queue" => i \in 1 .. Len(queue[n]) /\ queue[n][i] = j
          /\ k = "data" => i \in 1 .. Len(data[n]) /\ data[n][i] = j
          /\ k \notin {"queue", "data"} => i = 0
    BY <1>2
  <2>2. PICK m \in Node, l \in Kinds, h \in Nat :
          /\ q = <<m, l, h>> /\ j \in Held(m, l)
          /\ l = "queue" => h \in 1 .. Len(queue[m]) /\ queue[m][h] = j
          /\ l = "data" => h \in 1 .. Len(data[m]) /\ data[m][h] = j
          /\ l \notin {"queue", "data"} => h = 0
    BY <1>2
  <2>3. n = m /\ k = l
    BY <1>1, <2>1, <2>2 DEF OnePlace
  <2>4. i = h
    BY <1>1, <2>1, <2>2, <2>3 DEF NoDups, NoDup
  <2>5. QED
    BY <2>1, <2>2, <2>3, <2>4
<1>4. CASE j < A_count
  <2>1. PICK p : p \in Places(j)
    <3>1. PICK n \in Node, k \in Kinds : j \in Held(n, k)
      BY <1>1, <1>4 DEF Somewhere
    <3>2. QED
      BY <1>1, <3>1, PlacesHeld
  <2>2. Places(j) = {p}
    BY <1>3, <2>1
  <2>3. QED
    BY <1>4, <2>2, FS_Singleton
<1>5. CASE ~(j < A_count)
  <2>1. Places(j) = {}
    BY <1>1, <1>2, <1>5 DEF Somewhere
  <2>2. QED
    BY <1>5, <2>1, FS_EmptySet
<1>6. QED
  BY <1>4, <1>5

\* A job is in one place, whichever threads of both nodes hand it on: none is
\* duplicated, and none is missing but those counted in lost.
THEOREM JobsConserved == Spec => []JobConservation
  BY Invariant, Conserved, PTL

-----------------------------------------------------------------------------
\* The nodes implement JobPool

\* The status of a job in a state, told by where it is.
LEMMA Statuses ==
  ASSUME NEW j \in Job
  PROVE  /\ status[j] = IF j >= A_count THEN "new"
                        ELSE IF Computed(j) THEN "done"
                        ELSE IF \E n \in Node : j \in lost[n]
                               THEN CHOOSE n \in Node : j \in lost[n]
                        ELSE "pending"
         /\ status'[j] = IF j >= A_count' THEN "new"
                         ELSE IF Computed(j)' THEN "done"
                         ELSE IF \E n \in Node : j \in lost'[n]
                                THEN CHOOSE n \in Node : j \in lost'[n]
                         ELSE "pending"
  BY DEF status

\* A step that leaves the jobs where they end up is a stutter of the pool.
LEMMA PoolRests ==
  UNCHANGED <<A_count, result, lost>> => UNCHANGED status
  BY DEF status, Computed

\* What is computed or lost was generated, and is not both.
LEMMA Ended ==
  ASSUME IInv, NEW j \in Job, NEW n \in Node
  PROVE  /\ j \in result[n] => j < A_count
         /\ j \in lost[n] => /\ j < A_count /\ ~Computed(j)
                             /\ \A m \in Node : j \in lost[m] => m = n
<1>1. \A m \in Node : /\ j \in result[m] <=> j \in Held(m, "result")
                      /\ j \in lost[m] <=> j \in Held(m, "lost")
  BY HeldNow
<1>2. QED
  BY <1>1 DEF IInv, JobInv, OnePlace, Somewhere, Kinds, Computed

\* Only one job changes its status.
LEMMA OneChanges ==
  ASSUME NEW c \in Job, NEW x,
         \A j \in Job \ {c} : status'[j] = status[j],
         status'[c] = x
  PROVE  status' = [status EXCEPT ![c] = x]
<1>1. /\ status = [j \in Job |-> status[j]]
      /\ status' = [j \in Job |-> status'[j]]
  BY DEF status
<1>2. QED
  BY <1>1

\* A job that jams a node is given up by it.
LEMMA EnqueueInPool ==
  ASSUME IInv, NEW n \in Node, NEW j \in Tasks, enqueue(n, j),
         UNCHANGED <<A_count, result>>,
         j \in Job => /\ j < A_count /\ ~Computed(j)
                      /\ \A m \in Node : j \notin lost[m]
  PROVE  [Pool!PoolNext]_status
<1>1. CASE UNCHANGED lost
  BY <1>1, PoolRests
<1>2. CASE lost' = [lost EXCEPT ![n] = @ \cup {j}]
  <2>1. /\ lost[n] = {} /\ lost \in [Node -> SUBSET Tasks]
        /\ A_count \in Nat /\ Job \subseteq Nat /\ empty_job \notin Job
    BY JobsTyped DEF enqueue, IInv, NodeInv, TypeOK, JobInv, LostInv
  <2>2. \A m \in Node : lost'[m] = IF m = n THEN {j} ELSE lost[m]
    BY <1>2, <2>1
  <2>3. \A i \in Job : Computed(i)' <=> Computed(i)
    BY DEF Computed
  <2>4. \A i \in Job \ {j} : status'[i] = status[i]
    <3>1. \A i \in Job \ {j}, m \in Node : i \in lost'[m] <=> i \in lost[m]
      BY <2>1, <2>2
    <3>2. \A i \in Job \ {j} : (CHOOSE m \in Node : i \in lost'[m])
                                 = (CHOOSE m \in Node : i \in lost[m])
      BY <3>1
    <3>3. QED
      BY <2>3, <3>1, <3>2, Statuses
  <2>5. CASE j \notin Job
    BY <2>4, <2>5 DEF status
  <2>6. CASE j \in Job
    <3>1. status[j] = "pending" /\ status'[j] = n
      <4>1. ~(j >= A_count) /\ ~Computed(j) /\ ~Computed(j)'
        BY <2>1, <2>3, <2>6
      <4>2. \A m \in Node : j \in lost'[m] <=> m = n
        BY <2>2, <2>6
      <4>3. (CHOOSE m \in Node : j \in lost'[m]) = n
        BY <4>2
      <4>4. QED
        BY <2>6, <4>1, <4>2, <4>3, Statuses
    <3>2. \A i \in Job : status[i] # n
      <4>1. ASSUME NEW i \in Job, status[i] = n PROVE FALSE
        <5>1. \E m \in Node : i \in lost[m]
          BY <4>1, Statuses, NamesAssumption DEF Node
        <5>2. n \in Node /\ i \in lost[n]
          BY <4>1, <5>1, Statuses, NamesAssumption DEF Node
        <5>3. QED
          BY <2>1, <5>2
      <4>2. QED
        BY <4>1
    <3>3. status' = [status EXCEPT ![j] = n]
      BY <2>4, <2>6, <3>1, OneChanges
    <3>4. Pool!Lose(j, n)
      BY <3>1, <3>2, <3>3 DEF Pool!Lose, Pool!Become
    <3>5. QED
      BY <2>6, <3>4 DEF Pool!PoolNext
  <2>7. QED
    BY <2>5, <2>6
<1>3. QED
  BY <1>1, <1>2 DEF enqueue

\* Generating a job creates it,
LEMMA GenerateInPool ==
  ASSUME IInv, Generate
  PROVE  [Pool!PoolNext]_status
<1>1. /\ A_count \in Job /\ A_count \in Nat /\ A_count' = A_count + 1
      /\ Job \subseteq Nat
  BY BalancerAssumption, JobsTyped
  DEF Generate, IInv, NodeInv, TypeOK, Job
<1>2. UNCHANGED <<result, lost>>
  BY DEF Generate, queueVars, workerVars
<1>3. PICK c \in Job : c = A_count
  BY <1>1
<1>4. \A i \in Job : Computed(i)' <=> Computed(i)
  BY <1>2 DEF Computed
<1>5. status[c] = "new"
  BY <1>1, <1>3, Statuses
<1>6. status'[c] = "pending"
  <2>1. \A n \in Node : c \notin result[n] /\ c \notin lost[n]
    BY <1>1, <1>3, Ended
  <2>2. ~(c >= A_count') /\ ~Computed(c)
    BY <1>1, <1>3, <2>1 DEF Computed
  <2>3. QED
    BY <1>2, <1>4, <2>1, <2>2, Statuses
<1>7. \A i \in Job \ {c} : status'[i] = status[i]
  <2>1. \A i \in Job \ {c} : i >= A_count' <=> i >= A_count
    BY <1>1, <1>3
  <2>2. QED
    BY <1>2, <1>4, <2>1, Statuses
<1>8. \A i \in Job : i < c => status[i] # "new"
  <2>1. ASSUME NEW i \in Job, i < c PROVE status[i] # "new"
    <3>1. ~(i >= A_count)
      BY <1>1, <1>3, <2>1
    <3>2. CASE \E n \in Node : i \in lost[n]
      BY <3>1, <3>2, Statuses, NamesAssumption DEF Node
    <3>3. CASE ~\E n \in Node : i \in lost[n]
      BY <3>1, <3>3, Statuses
    <3>4. QED
      BY <3>2, <3>3
  <2>2. QED
    BY <2>1
<1>9. status' = [status EXCEPT ![c] = "pending"]
  BY <1>6, <1>7, OneChanges
<1>10. Pool!Create(c)
  BY <1>5, <1>8, <1>9 DEF Pool!Create, Pool!Become
<1>11. QED
  BY <1>10 DEF Pool!PoolNext

\* and computing it finishes it.
LEMMA ComputeInPool ==
  ASSUME IInv, NEW n \in Node, Compute(n)
  PROVE  [Pool!PoolNext]_status
<1>1. PICK j \in Job : j = worker_job[n]
  BY DEF Compute, workerGoes, IInv, NodeInv, HandsInv
<1>2. UNCHANGED <<A_count, lost>>
  BY DEF Compute, queueVars, adaptorVars
<1>3. \A m \in Node : result'[m] = IF m = n THEN result[n] \cup {j}
                                   ELSE result[m]
  BY <1>1 DEF Compute, IInv, NodeInv, TypeOK
<1>4. /\ j < A_count /\ A_count \in Nat /\ Job \subseteq Nat
      /\ \A m \in Node : j \notin result[m] /\ j \notin lost[m]
  <2>1. j \in Held(n, "worker")
    BY <1>1, HeldNow
  <2>2. \A m \in Node : j \notin Held(m, "result") /\ j \notin Held(m, "lost")
    BY <2>1 DEF IInv, JobInv, OnePlace, Kinds
  <2>3. j < A_count /\ A_count \in Nat
    BY <2>1 DEF IInv, NodeInv, TypeOK, JobInv, Somewhere, Kinds
  <2>4. QED
    BY <2>2, <2>3, HeldNow, JobsTyped
<1>5. status[j] = "pending"
  BY <1>4, Statuses DEF Computed
<1>6. status'[j] = "done"
  <2>1. ~(j >= A_count') /\ Computed(j)'
    BY <1>2, <1>3, <1>4 DEF Computed
  <2>2. QED
    BY <2>1, Statuses
<1>7. \A i \in Job \ {j} : status'[i] = status[i]
  <2>1. \A i \in Job \ {j} : Computed(i)' <=> Computed(i)
    BY <1>3 DEF Computed
  <2>2. QED
    BY <1>2, <2>1, Statuses
<1>8. status' = [status EXCEPT ![j] = "done"]
  BY <1>6, <1>7, OneChanges
<1>9. Pool!Finish(j)
  BY <1>5, <1>8 DEF Pool!Finish, Pool!Become
<1>10. QED
  BY <1>9 DEF Pool!PoolNext

LEMMA NextInPool == IInv /\ [Next]_vars => [Pool!PoolNext]_status
<1> SUFFICES ASSUME IInv, [Next]_vars PROVE [Pool!PoolNext]_status
  OBVIOUS
<1>1. CASE EnqueueNew
  <2>1. PICK j \in Tasks : j = adaptor_job[LocalNode]
    BY Peers DEF IInv, NodeInv, TypeOK
  <2>2. /\ LocalNode \in Node /\ enqueue(LocalNode, j)
        /\ UNCHANGED <<A_count, result>>
    BY <1>1, <2>1, Peers DEF EnqueueNew, workerVars
  <2>3. j \in Held(LocalNode, "adaptor")
    BY <2>1, HeldNow
  <2>4. j \in Job => /\ j < A_count
                     /\ \A m \in Node : j \notin Held(m, "result")
                     /\ \A m \in Node : j \notin Held(m, "lost")
    BY <2>2, <2>3 DEF IInv, JobInv, OnePlace, Somewhere, Kinds
  <2>5. QED
    BY <2>2, <2>4, HeldNow, EnqueueInPool DEF Computed
<1>2. ASSUME NEW n \in Node, EnqueueReceived(n)
      PROVE  [Pool!PoolNext]_status
  <2>1. PICK j \in Tasks : j = reader_job[n]
    BY DEF IInv, NodeInv, TypeOK
  <2>2. enqueue(n, j) /\ UNCHANGED <<A_count, result>>
    BY <1>2, <2>1 DEF EnqueueReceived, adaptorVars, workerVars
  <2>3. j \in Held(n, "reader")
    BY <2>1, HeldNow
  <2>4. j \in Job => /\ j < A_count
                     /\ \A m \in Node : j \notin Held(m, "result")
                     /\ \A m \in Node : j \notin Held(m, "lost")
    BY <2>3 DEF IInv, JobInv, OnePlace, Somewhere, Kinds
  <2>5. QED
    BY <2>2, <2>4, HeldNow, EnqueueInPool DEF Computed
<1>3. ASSUME NEW n \in Node,
             \/ n = LocalNode /\ (TransferNew \/ KeepNew)
             \/ Acknowledged(n) \/ Balance(n) \/ TransferOld(n)
             \/ ReadJob(n) \/ Poll(n) \/ TakeJob(n)
             \/ timer_handler(n) \/ state_read_thread(n)
      PROVE  [Pool!PoolNext]_status
  <2>1. UNCHANGED <<A_count, result, lost>>
    BY <1>3
    DEF TransferNew, KeepNew, Acknowledged, Balance, TransferOld, ReadJob,
        Poll, TakeJob, timer_handler, state_read_thread, dequeue, queueVars,
        adaptorVars, workerVars
  <2>2. QED
    BY <2>1, PoolRests
<1>4. CASE UNCHANGED vars
  BY <1>4, PoolRests DEF vars, queueVars, adaptorVars, workerVars
<1>5. QED
  BY <1>1, <1>2, <1>3, <1>4, GenerateInPool, ComputeInPool
  DEF Next, adaptor_thread, comm_read_thread, worker_thread

LEMMA InitInPool == Init => Pool!PoolInit
<1> SUFFICES ASSUME Init PROVE Pool!PoolInit
  OBVIOUS
<1>1. \A j \in Job : j >= A_count
  BY JobsTyped DEF Init
<1>2. \A j \in Job : status[j] = "new"
  BY <1>1, Statuses
<1>3. QED
  BY <1>2 DEF Pool!PoolInit, status

\* Jobs are created in order, computed at most once and stay computed, and a
\* node gives up at most one job in its life.
THEOREM NodesImplementPool == Spec => ImplementsJobPool
<1>1. Init => Pool!PoolInit
  BY InitInPool
<1>2. IInv /\ [Next]_vars => [Pool!PoolNext]_status
  BY NextInPool
<1>3. QED
  BY <1>1, <1>2, Invariant, PTL DEF Spec, ImplementsJobPool, Pool!PoolSpec

-----------------------------------------------------------------------------
\* The queues are used as BoundedFifo describes them

\* One operation of the queue of node n, and none of the other's.
OneCall(n) ==
  /\ \E o \in Tasks : \/ \E j \in Tasks : Buffer(n, o)!Put(j)
                      \/ Buffer(n, o)!PutFull
                      \/ Buffer(n, o)!Get
  /\ \A m \in Node \ {n} : UNCHANGED <<queue[m], stuck[m]>>

LEMMA EnqueueIsPut ==
  ASSUME NodeInv, NEW n \in Node, NEW j \in Tasks, enqueue(n, j)
  PROVE  OneCall(n)
<1>1. /\ queue \in [Node -> Seq(Tasks)] /\ stuck \in [Node -> BOOLEAN]
      /\ Len(queue[n]) \in Nat /\ Len(queue[n]) <= QUEUE_MAX
  BY DEF NodeInv, TypeOK, Fits
<1>2. CASE ~isFull(n) /\ queue' = [queue EXCEPT ![n] = Append(@, j)]
           /\ UNCHANGED <<stuck, lost>>
  <2>1. Len(queue[n]) < QUEUE_MAX
    BY <1>1, <1>2, BalancerAssumption DEF isFull
  <2>2. /\ queue'[n] = Append(queue[n], j) /\ stuck'[n] = stuck[n]
        /\ \A m \in Node \ {n} : UNCHANGED <<queue[m], stuck[m]>>
    BY <1>1, <1>2
  <2>3. Buffer(n, empty_job)!Put(j)
    BY <2>1, <2>2 DEF Buffer!Put, enqueue
  <2>4. QED
    BY <2>2, <2>3 DEF OneCall, Tasks
<1>3. CASE isFull(n) /\ stuck' = [stuck EXCEPT ![n] = TRUE]
           /\ lost' = [lost EXCEPT ![n] = @ \cup {j}] /\ UNCHANGED queue
  <2>1. /\ queue'[n] = queue[n] /\ stuck'[n] /\ stuck'[n] = TRUE
        /\ \A m \in Node \ {n} : UNCHANGED <<queue[m], stuck[m]>>
    BY <1>1, <1>3
  <2>2. Buffer(n, empty_job)!PutFull
    BY <1>3, <2>1 DEF Buffer!PutFull, enqueue, isFull
  <2>3. QED
    BY <2>1, <2>2 DEF OneCall, Tasks
<1>4. QED
  BY <1>2, <1>3 DEF enqueue

LEMMA DequeueIsGet ==
  ASSUME NodeInv, NEW n \in Node, NEW j \in Tasks, dequeue(n, j)
  PROVE  OneCall(n) \/ UNCHANGED <<queue, stuck>>
<1>1. queue \in [Node -> Seq(Tasks)] /\ stuck \in [Node -> BOOLEAN]
  BY DEF NodeInv, TypeOK
<1>2. CASE isEmpty(n)
  BY <1>1, <1>2 DEF dequeue
<1>3. CASE ~isEmpty(n)
  <2>1. /\ queue[n] # << >> /\ j = Head(queue[n])
        /\ queue'[n] = Tail(queue[n]) /\ stuck'[n] = stuck[n] /\ ~stuck[n]
        /\ \A m \in Node \ {n} : UNCHANGED <<queue[m], stuck[m]>>
    BY <1>1, <1>3 DEF dequeue, isEmpty
  <2>2. Buffer(n, j)!Get
    BY <2>1 DEF Buffer!Get
  <2>3. QED
    BY <2>1, <2>2 DEF OneCall
<1>4. QED
  BY <1>2, <1>3

LEMMA NextCalls ==
  ASSUME NodeInv, [Next]_vars
  PROVE  (\E n \in Node : OneCall(n)) \/ UNCHANGED <<queue, stuck>>
<1>1. CASE EnqueueNew
  BY <1>1, EnqueueIsPut, Peers DEF EnqueueNew, NodeInv, TypeOK
<1>2. ASSUME NEW n \in Node, EnqueueReceived(n)
      PROVE  OneCall(n)
  BY <1>2, EnqueueIsPut DEF EnqueueReceived, NodeInv, TypeOK
<1>3. ASSUME NEW n \in Node, TransferOld(n) \/ TakeJob(n)
      PROVE  OneCall(n) \/ UNCHANGED <<queue, stuck>>
  BY <1>3, DequeueIsGet DEF TransferOld, TakeJob, Tasks
<1>4. ASSUME NEW n \in Node,
             \/ n = LocalNode /\ (Generate \/ TransferNew \/ KeepNew)
             \/ Acknowledged(n) \/ Balance(n) \/ ReadJob(n) \/ Poll(n)
             \/ Compute(n) \/ timer_handler(n) \/ state_read_thread(n)
      PROVE  UNCHANGED <<queue, stuck>>
  BY <1>4
  DEF Generate, TransferNew, KeepNew, Acknowledged, Balance, ReadJob, Poll,
      Compute, timer_handler, state_read_thread, queueVars
<1>5. CASE UNCHANGED vars
  BY <1>5 DEF vars, queueVars
<1>6. QED
  BY <1>1, <1>2, <1>3, <1>4, <1>5, Peers
  DEF Next, adaptor_thread, comm_read_thread, worker_thread

\* The queues of the two nodes are what JobQueue implements: every step leaves
\* them alone, or inserts, removes or jams at one of them by the rules of
\* BoundedFifo.
THEOREM QueuesUsedAsFifos == Spec => QueuesAreFifos
<1>1. NodeInv /\ [Next]_vars => OneFifoCall
  <2> SUFFICES ASSUME NodeInv, [Next]_vars, NEW n \in Node,
                      queue'[n] # queue[n] \/ stuck'[n] # stuck[n]
               PROVE  OneCall(n)
    BY Peers DEF OneCall, OneFifoCall
  <2>1. PICK m \in Node : OneCall(m)
    BY NextCalls
  <2>2. n = m
    BY <2>1 DEF OneCall
  <2>3. QED
    BY <2>1, <2>2
<1>2. IInv => NodeInv
  BY DEF IInv
<1>3. QED
  BY <1>1, <1>2, Invariant, PTL DEF Spec, QueuesAreFifos
=============================================================================
