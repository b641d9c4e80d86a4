-------------------------- MODULE MCExpirationIndex --------------------------
(* ExpirationIndex with one sandbox that is started and later resumed: the   *)
(* members of its two executions compete for the window of the sweep.        *)
EXTENDS ExpirationIndex, TLC

CONSTANTS a, a1, a2

TwoExecutions == a1 :> a @@ a2 :> a

(* FairSpec, where a1 is the execution that is added first.  Executions are *)
(* interchangeable and added once, so every behaviour is one of these up to *)
(* their names.  Symmetry sets would not be sound for liveness.             *)
OrderedNext ==
  \/ \E end \in Ends : AddMember(a1, end) \/ (add[a1].pc # "new" /\ AddMember(a2, end))
  \/ \E x \in Execs : \/ \E end \in Ends : Update(x, end)
                      \/ Add(x) \/ AddFails(x) \/ Write(x) \/ Evict(x)
                      \/ StartRemoving(x) \/ RemoverDies(x)
  \/ ExpiredItems \/ Heal \/ PruneRead \/ PruneRemove \/ Tick

OrderedSpec == Init /\ [][OrderedNext]_vars /\ Fairness
==============================================================================
