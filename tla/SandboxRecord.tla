---------------------------- MODULE SandboxRecord ----------------------------
(***************************************************************************)
(* What the sandbox store promises the API about the record of one sandbox *)
(* ID: every operation on it takes effect at once.  A transition begins    *)
(* only when no other is under way, in a state that allows it, and for an  *)
(* eviction loop only when the sandbox has expired; a restore puts back a  *)
(* sandbox that is in Snapshotting, with its end time; an extension finds  *)
(* the sandbox running and changes nothing but the end time.               *)
(*                                                                         *)
(* A start is the exception: it stores its record without the lock.  The   *)
(* operation it comes in between still writes what it had found before, so *)
(* a running record may give way to one of another execution.              *)
(***************************************************************************)
EXTENDS Naturals, SandboxStates

CONSTANTS Procs,     \* API requests and eviction loops
          Evictors,  \* the eviction loops
          Execs,     \* execution IDs
          Nodes,     \* orchestrator nodes
          None       \* no record

VARIABLES stored,    \* the record, or None
          owners,    \* who works on a transition of the sandbox: one process or none
          now        \* wall clock

vars == <<stored, owners, now>>

Sandbox == [exec : Execs, node : Nodes, state : States, end : Nat, auto : BOOLEAN]

Running == {s \in Sandbox : s.state = "running"}

Init == stored \in Running \cup {None} /\ owners = {} /\ now = 0

(* Another execution takes the place of what is stored: a start or, after   *)
(* one, the execution that an extension or a restore had found.             *)
Start ==
  /\ stored' # None /\ (stored # None => stored'.exec # stored.exec)
  /\ stored' \in Running
  /\ UNCHANGED <<owners, now>>

(* A transition begins on the stored record ... *)
Moves(p, a) ==
  /\ TargetState[a] \in AllowedTransitions[stored.state]
  /\ p \in Evictors => now > stored.end
  /\ stored' = [stored EXCEPT !.state = TargetState[a],
                              !.end = IF Effect[a] = "expires" /\ ~(now > stored.end)
                                        THEN now ELSE @]

(* ... or on one that a start has just displaced. *)
MovesDisplaced(p, a) ==
  /\ stored.state = "running"
  /\ stored' \in Sandbox /\ stored'.exec # stored.exec
  /\ stored'.state = TargetState[a]
  /\ Effect[a] = "expires" => stored'.end <= now
  /\ p \in Evictors => now > stored'.end

Begin ==
  /\ stored # None
  /\ owners = {}
  /\ \E p \in Procs, a \in Actions : owners' = {p} /\ (Moves(p, a) \/ MovesDisplaced(p, a))
  /\ UNCHANGED now

Restore ==
  /\ stored # None /\ stored.state = "snapshotting"
  /\ owners # {}
  /\ stored' = [stored EXCEPT !.state = "running"]
  /\ UNCHANGED <<owners, now>>

Extend ==
  /\ stored # None /\ stored.state = "running"
  /\ stored' # None /\ stored' = [stored EXCEPT !.end = stored'.end]
  /\ stored' \in Running
  /\ UNCHANGED <<owners, now>>

(* By the owner, or by a request that had found a record left behind long   *)
(* ago.  The latter does not look again: what it removes may be what a      *)
(* start has stored since.                                                  *)
Remove ==
  /\ stored' = None
  /\ UNCHANGED <<owners, now>>

(* The transition is over, or its owner has died. *)
End ==
  /\ owners # {} /\ owners' = {}
  /\ UNCHANGED <<stored, now>>

Tick == now' = now + 1 /\ UNCHANGED <<stored, owners>>

Next == Start \/ Begin \/ Restore \/ Extend \/ Remove \/ End \/ Tick

Spec == Init /\ [][Next]_vars
=============================================================================
