-------------------------- MODULE CountingSemaphore --------------------------
(***************************************************************************)
(* What AdjustableSemaphore promises its callers: a set of holders that    *)
(* grows only below the capacity, and a capacity that may be changed at    *)
(* any time, also below the number of holders it then has.                 *)
(***************************************************************************)
EXTENDS Naturals, FiniteSets

CONSTANTS Callers,   \* the goroutines that ask for a permit
          Limits     \* the values the limit may take

VARIABLES holders,   \* the callers that have a permit
          capacity

vars == <<holders, capacity>>

Init == holders = {} /\ capacity \in Limits

Grant(p) ==
  /\ p \notin holders /\ Cardinality(holders) < capacity
  /\ holders' = holders \cup {p}
  /\ UNCHANGED capacity

GiveBack(p) ==
  /\ p \in holders
  /\ holders' = holders \ {p}
  /\ UNCHANGED capacity

Resize(n) == capacity' = n /\ UNCHANGED holders

Next ==
  \/ \E p \in Callers : Grant(p) \/ GiveBack(p)
  \/ \E n \in Limits : Resize(n)

Spec == Init /\ [][Next]_vars
=============================================================================
