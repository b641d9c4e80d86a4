---------------------------- MODULE MCNetworkPool ----------------------------
(* NetworkPool with two sandboxes. *)
EXTENDS NetworkPool, TLC

CONSTANTS s1, s2
==============================================================================
