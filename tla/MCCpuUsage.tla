----------------------------- MODULE MCCpuUsage -----------------------------
(***************************************************************************)
(* Instance of CpuUsage for TLC: the constants are in the cfg.             *)
(***************************************************************************)
EXTENDS CpuUsage
=============================================================================
