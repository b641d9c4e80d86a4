-------------------------- MODULE MCSandboxLifecycle --------------------------
(***************************************************************************)
(* Instances of SandboxLifecycle for TLC.                                  *)
(***************************************************************************)
EXTENDS SandboxLifecycle, TLC

CONSTANTS r1, r2, r3, e1, x0, n1, n2

(* Requests are interchangeable; so are the executions they start, which   *)
(* carry their names.                                                      *)
MCSymmetry == Permutations(Reqs)
=============================================================================
