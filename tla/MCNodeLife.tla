------------------------------ MODULE MCNodeLife ------------------------------
(***************************************************************************)
(* Instance of NodeLife for TLC: the constants are in the cfg.             *)
(***************************************************************************)
EXTENDS NodeLife
=============================================================================
