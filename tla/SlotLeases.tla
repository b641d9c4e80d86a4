----------------------------- MODULE SlotLeases -----------------------------
(***************************************************************************)
(* What the network pool of a node promises the sandboxes: a slot is with  *)
(* one of them at a time, its network namespace is there when the sandbox  *)
(* gets it, and it is left alone until the sandbox gives the slot back or  *)
(* lets it go.  The channels, the delays and the shutdown are not visible. *)
(***************************************************************************)
EXTENDS Naturals

CONSTANTS Sandboxes,  \* sandboxes that ask for slots
          Slots,      \* the slots of the node
          Foreign     \* slots whose namespace is not the pool's

VARIABLES up,         \* slots whose namespace exists
          leased,     \* slots that are acquired, by the pool or for a sandbox
          held,       \* the slot of each sandbox, or 0
          live        \* sandboxes that may use the network of their slot

vars == <<up, leased, held, live>>

Init == up = Foreign /\ leased = {} /\ held = [s \in Sandboxes |-> 0] /\ live = {}

(* A slot whose namespace an earlier teardown left behind is used only when *)
(* there is no other.                                                       *)
Acquire(i) ==
  /\ i \in Slots \ (Foreign \cup leased)
  /\ i \in up => Slots \subseteq Foreign \cup leased \cup up
  /\ leased' = leased \cup {i}
  /\ UNCHANGED <<up, held, live>>

(* Build or tear down the namespace of a slot that no sandbox relies on. *)
Change(i) ==
  /\ i \in leased /\ \A s \in live : held[s] # i
  /\ up' \in {up \cup {i}, up \ {i}}
  /\ UNCHANGED <<leased, held, live>>

Grant(s, i) ==
  /\ held[s] = 0 /\ i \in leased \cap up /\ \A t \in Sandboxes : held[t] # i
  /\ held' = [held EXCEPT ![s] = i]
  /\ live' = live \cup {s}
  /\ UNCHANGED <<up, leased>>

(* The slot goes back to the pool as it is ... *)
GiveBack(s) ==
  /\ s \in live /\ live' = live \ {s}
  /\ held' = [held EXCEPT ![s] = 0]
  /\ UNCHANGED <<up, leased>>

(* ... or is to be torn down ... *)
LetGo(s) ==
  /\ s \in live /\ live' = live \ {s}
  /\ UNCHANGED <<up, leased, held>>

(* ... and released. *)
Release(i) ==
  /\ i \in leased /\ \A s \in live : held[s] # i
  /\ leased' = leased \ {i}
  /\ held' = [s \in Sandboxes |-> IF held[s] = i THEN 0 ELSE held[s]]
  /\ UNCHANGED <<up, live>>

Next ==
  \/ \E i \in Slots : Acquire(i) \/ Change(i) \/ Release(i)
  \/ \E s \in Sandboxes : GiveBack(s) \/ LetGo(s) \/ \E i \in Slots : Grant(s, i)

Spec == Init /\ [][Next]_vars
=============================================================================
