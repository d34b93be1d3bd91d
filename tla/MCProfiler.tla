----------------------------- MODULE MCProfiler -----------------------------
(***************************************************************************)
(* Instance of Profiler for TLC: the constants are in the cfg.             *)
(***************************************************************************)
EXTENDS Profiler
=============================================================================
