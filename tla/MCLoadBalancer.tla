--------------------------- MODULE MCLoadBalancer ---------------------------
(***************************************************************************)
(* Instance of LoadBalancer for TLC: the constants are in the cfg.         *)
(***************************************************************************)
EXTENDS LoadBalancer
=============================================================================
