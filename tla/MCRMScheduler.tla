--------------------------- MODULE MCRMScheduler ---------------------------
(***************************************************************************)
(* Two applications.  The slow one asks for the whole processor: alone it  *)
(* is turned away, next to the fast one, which asks for next to nothing,   *)
(* it is admitted.                                                         *)
(***************************************************************************)
EXTENDS RMScheduler

\* The fast application runs a job, the slow one only waits for its period.
MCNumJobs == [p \in Apps |-> IF p = "fast" THEN 1 ELSE 0]
MCPeriod == [p \in Apps |-> IF p = "fast" THEN 1 ELSE 2]
MCComputation == [p \in Apps |-> IF p = "fast" THEN 0 ELSE 2]
=============================================================================
