----------------------------- MODULE MCJobQueue -----------------------------
(***************************************************************************)
(* Instance of JobQueue with the threads of an MP4 node that touch the     *)
(* queue: comm_read_thread enqueues, worker_thread dequeues and            *)
(* adaptor_thread does both.  clear has no caller; here the worker calls   *)
(* it too.                                                                 *)
(***************************************************************************)
EXTENDS JobQueue

MCThreads == {"comm_read", "adaptor", "worker"}
MCEnqueuers == {"comm_read", "adaptor"}
MCDequeuers == {"adaptor", "worker"}
MCClearers == {"worker"}
=============================================================================
