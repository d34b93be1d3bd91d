---------------------------- MODULE MCSampleRing ----------------------------
(***************************************************************************)
(* Instance of SampleRing for TLC: the constants are in the cfg.           *)
(***************************************************************************)
EXTENDS SampleRing
=============================================================================
