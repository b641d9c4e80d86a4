----------------------------- MODULE SandboxMap -----------------------------
(***************************************************************************)
(* The registry of the sandboxes of an orchestrator node                   *)
(* (packages/orchestrator/pkg/sandbox/map.go).                             *)
(*                                                                         *)
(* A sandbox has a new lifecycle each time a VM is booted for it; the      *)
(* lifecycles are numbered in the order of their boots.  The three maps    *)
(* are changed independently of each other.                                *)
(***************************************************************************)
EXTENDS Naturals, FiniteSets

CONSTANTS SandboxIDs,
          IPs,         \* host addresses of the node's network slots
          MaxBoots     \* bound on the lifecycles

Lifecycles == 1 .. MaxBoots

NoLifecycle == 0

VARIABLES live,        \* sandbox ID -> its routable lifecycle
          lifecycles,  \* the lifecycles whose cleanup is outstanding
          network      \* IP -> the lifecycle a request from it belongs to

mapVars == <<live, lifecycles, network>>

MapTypeOK ==
  /\ live \in [SandboxIDs -> Lifecycles \cup {NoLifecycle}]
  /\ lifecycles \subseteq Lifecycles
  /\ network \in [IPs -> Lifecycles \cup {NoLifecycle}]

MapInit ==
  /\ live = [s \in SandboxIDs |-> NoLifecycle]
  /\ lifecycles = {}
  /\ network = [ip \in IPs |-> NoLifecycle]

Count == Cardinality({s \in SandboxIDs : live[s] # NoLifecycle})

AssignNetwork(ip, l) == network' = [network EXCEPT ![ip] = l]

(* Whoever is registered under the address goes. *)
NetworkReleased(ip) == network' = [network EXCEPT ![ip] = NoLifecycle]

(***************************************************************************)
(* MarkRunning is InsertIfAbsent on one map, and only if that inserted,    *)
(* trackLifecycle on the other.                                            *)
(***************************************************************************)
InsertIfAbsent(s, l) ==
  live' = IF live[s] = NoLifecycle THEN [live EXCEPT ![s] = l] ELSE live

TrackLifecycle(l) == lifecycles' = lifecycles \cup {l}

(* Mutant: whichever lifecycle is live goes. *)
MarkedAny(s, l) == live[s] # NoLifecycle

(* MarkStopping compares the lifecycle, so that it takes out its own only. *)
Marked(s, l) == live[s] = l

MarkStopping(s, l) ==
  live' = IF Marked(s, l) THEN [live EXCEPT ![s] = NoLifecycle] ELSE live

MarkStopped(l) == lifecycles' = lifecycles \ {l}
=============================================================================
