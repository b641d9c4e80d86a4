---------------------------- MODULE MCNodeServer ----------------------------
(* NodeServer for TLC. *)
EXTENDS NodeServer, TLC

CONSTANTS r1, r2, r3, ip1, ip2

MCSymmetry == Permutations(Callers) \cup Permutations(IPs)
=============================================================================
