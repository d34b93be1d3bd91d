---------------------------- MODULE BoundedFifo ----------------------------
(***************************************************************************)
(* What the job queue of an MP4 node promises its callers: a FIFO buffer   *)
(* of at most Capacity jobs whose operations happen one at a time.  An     *)
(* insertion into a full buffer is not refused, it closes the queue for    *)
(* good: job_queue.c returns from enqueue with the mutex held.  A closed   *)
(* queue performs no operation at all.                                     *)
(***************************************************************************)
EXTENDS Naturals, Sequences

CONSTANTS Jobs,      \* the jobs that can be queued
          NoJob,     \* what is handed out before the first removal
          Capacity   \* QUEUE_MAX

VARIABLES buf,   \* the queued jobs, oldest first
          open,  \* FALSE once an insertion found the buffer full
          out    \* the job handed out by the latest successful removal

fifoVars == <<buf, open, out>>

FifoInit == buf = << >> /\ open = TRUE /\ out = NoJob

Put(j) == /\ open
          /\ Len(buf) < Capacity
          /\ buf' = Append(buf, j)
          /\ UNCHANGED <<open, out>>

PutFull == /\ open
           /\ Len(buf) = Capacity
           /\ open' = FALSE
           /\ UNCHANGED <<buf, out>>

Get == /\ open
       /\ buf # << >>
       /\ out' = Head(buf)
       /\ buf' = Tail(buf)
       /\ UNCHANGED open

Empty == /\ open
         /\ buf' = << >>
         /\ UNCHANGED <<open, out>>

FifoNext == (\E j \in Jobs : Put(j)) \/ PutFull \/ Get \/ Empty

FifoSpec == FifoInit /\ [][FifoNext]_fifoVars
=============================================================================
