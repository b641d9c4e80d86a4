-------------------------- MODULE LifecycleProofs --------------------------
(***************************************************************************)
(* SandboxLifecycle, for any number of requests, eviction loops, nodes and *)
(* crashes: type correctness, one owner per transition, pinned removals,   *)
(* what the writers of the record may rely on, and that their operations   *)
(* are atomic, as SandboxRecord has them.  Without crashes, also what a    *)
(* successful pause leaves behind.                                         *)
(***************************************************************************)
EXTENDS SandboxLifecycle, TLAPS

(***************************************************************************)
(* Type correctness.                                                       *)
(***************************************************************************)

(* The type invariant with what makes it inductive: whoever has started a   *)
(* transition knows its ID, whoever will write a record has a copy, and     *)
(* only requests resume the sandbox.                                        *)
HasCopy == HoldsLock \cup OwnsTransition \cup {"add"}

Resuming == {"resume", "waitForStateChange", "wait", "waited", "reserve", "waitForStart",
             "place", "add", "route", "finishStart"}

TypeInv ==
  /\ TypeOK
  /\ \A p \in Procs : /\ pc[p] \in OwnsTransition => tid[p] # None
                      /\ pc[p] \in HasCopy => sbx[p] # None
                      /\ pc[p] \in Resuming => p \in Reqs

LEMMA InitType == Init => TypeInv
<1> USE NoneAssumption, SlowAssumption, LifecycleAssumption
<1> SUFFICES ASSUME Init PROVE TypeInv
  BY Zenon
<1>1. record \in Sandbox \cup {None}
  BY Zenon DEF Init, Sandbox, States
<1>2. opts \in [Procs -> RemoveOpts]
  BY Zenon DEF Init, Opts, RemoveOpts, Operations, Actions
<1>3. pc \in [Procs -> PCs] /\ \A p \in Procs : pc[p] \notin OwnsTransition \cup HasCopy \cup Resuming
  BY Zenon DEF Init, PCs, OwnsTransition, HasCopy, HoldsLock, Resuming
<1>4. sbx \in [Procs -> Sandbox \cup {None}] /\ tid \in [Procs -> (1 .. lastT) \cup {None}]
  BY Zenon DEF Init
<1>5. cb \in [Procs -> {"none", "error", "restoreError"}]
  BY Zenon DEF Init
<1>6. vm \in [Nodes -> Execs \cup {None}]
  BY Zenon DEF Init
<1>7. /\ indexed \in BOOLEAN /\ pending \in BOOLEAN
  BY Zenon DEF Init
<1> QED
  BY <1>1, <1>2, <1>3, <1>4, <1>5, <1>6, <1>7 DEF Init, TypeInv, TypeOK

(* What StartRemoving writes is a sandbox of the same execution, in the     *)
(* target state of the action.                                              *)
LEMMA TransitionedType ==
  ASSUME TypeOK, NEW p \in Procs, sbx[p] \in Sandbox
  PROVE  /\ Transitioned(p) \in Sandbox
         /\ Transitioned(p).state = TargetState[opts[p].action]
         /\ Transitioned(p).exec = sbx[p].exec
<1>1. TargetState[opts[p].action] \in States
  BY DEF TypeOK, RemoveOpts, Actions, TargetState, States
<1>2. now \in Nat
  BY LifecycleAssumption DEF TypeOK
<1> QED
  BY <1>1, <1>2, Zenon DEF Transitioned, Sandbox

LEMMA StorageType ==
  ASSUME TypeInv, NEW p \in Procs, StorageStep(p)
  PROVE  TypeInv'
<1> USE NoneAssumption, SlowAssumption, LifecycleAssumption
<1> USE DEF TypeInv, TypeOK, Goto, redisVars, localVars, lifeVars, StorageStep
<1> USE DEF HasCopy, HoldsLock, OwnsTransition, Resuming, PCs
<1>1. CASE ObtainForRemoval(p)
  BY <1>1 DEF ObtainForRemoval, AfterError
<1>2. CASE CheckTransition(p)
  BY <1>2, ZenonT(40) DEF CheckTransition, AfterCheck, ReleaseLock
<1>3. CASE StartTransition(p)
  <2>1. sbx[p] \in Sandbox
    BY <1>3, ZenonT(60) DEF StartTransition
  <2>2. Transitioned(p) \in Sandbox
    BY <2>1, TransitionedType, Zenon
  <2> QED
    BY <1>3, <2>2 DEF StartTransition, ReleaseLock, AfterError
<1>4. CASE WaitForTransition(p)
  BY <1>4 DEF WaitForTransition, AfterWait, AfterError
<1>5. CASE WaitForStateChange(p)
  BY <1>5 DEF WaitForStateChange
<1>6. CASE RestoreRead(p)
  BY <1>6 DEF RestoreRead
<1>7. CASE RestoreWrite(p)
  <2>1. record' \in Sandbox
    BY <1>7 DEF RestoreWrite, Sandbox, States
  <2> QED
    BY <1>7, <2>1 DEF RestoreWrite, ReleaseLock
<1>8. CASE FinishResult(p)
  <2>1. failed' \subseteq 1 .. lastT
    BY <1>8, ZenonT(120) DEF FinishResult
  <2> QED
    BY <1>8, <2>1 DEF FinishResult
<1>9. CASE FinishDelete(p)
  BY <1>9, Zenon DEF FinishDelete
<1>10. CASE UpdateRead(p)
  BY <1>10 DEF UpdateRead
<1>11. CASE UpdateWrite(p)
  <2>1. record' \in Sandbox
    BY <1>11 DEF UpdateWrite, Sandbox, RemoveOpts
  <2> QED
    BY <1>11, <2>1 DEF UpdateWrite, ReleaseLock
<1> QED
  BY <1>1, <1>2, <1>3, <1>4, <1>5, <1>6, <1>7, <1>8, <1>9, <1>10, <1>11, Zenon

LEMMA RemoveType ==
  ASSUME TypeInv, NEW p \in Procs, RemoveStep(p)
  PROVE  TypeInv'
<1>n. pc[p] \in {"started", "node"} => sbx[p].node \in Nodes
  <2>1. sbx[p] \in Sandbox \cup {None}
    BY Zenon DEF TypeInv, TypeOK
  <2>2. pc[p] \in {"started", "node"} => sbx[p] # None
    BY Zenon DEF TypeInv, HasCopy, OwnsTransition
  <2> QED
    BY <2>1, <2>2, Zenon DEF Sandbox
<1> USE NoneAssumption, SlowAssumption, LifecycleAssumption
<1> USE DEF TypeInv, TypeOK, Goto, redisVars, localVars, lifeVars
<1> USE DEF HasCopy, HoldsLock, OwnsTransition, Resuming, PCs
<1>1. CASE AlreadyDone(p)
  BY <1>1 DEF AlreadyDone
<1>2. CASE NotFound(p)
  BY <1>2 DEF NotFound
<1>3. CASE Unroute(p)
  BY <1>3 DEF Unroute
<1>4. CASE KillOnNode(p)
  <2>1. vm' = vm \/ vm' = [vm EXCEPT ![sbx[p].node] = None]
    BY <1>4, Zenon DEF KillOnNode
  <2>2. cb' \in [Procs -> {"none", "error", "restoreError"}]
    BY <1>4, Zenon DEF KillOnNode
  <2>3. /\ pc[p] = "node" /\ pc' = [pc EXCEPT ![p] = "remove"]
        /\ UNCHANGED <<redisVars, opts, sbx, tid, now, pending, route, snap, strays, listed, kills, faults>>
    BY <1>4, Zenon DEF KillOnNode
  <2> QED
    BY <2>1, <2>2, <2>3
<1>5. CASE PauseOnNode(p)
  <2>1. sbx[p].node \in Nodes
    BY <1>5, <1>n, Zenon DEF PauseOnNode
  <2> QED
    BY <1>5, <2>1 DEF PauseOnNode
<1>6. CASE StoreRemove(p)
  BY <1>6, ZenonT(40) DEF StoreRemove, RemoveRecord
<1>7. CASE ReleaseReservation(p)
  BY <1>7, ZenonT(40) DEF ReleaseReservation
<1>8. CASE CheckpointOnNode(p)
  <2>1. sbx[p].node \in Nodes
    BY <1>8, <1>n, Zenon DEF CheckpointOnNode
  <2> QED
    BY <1>8, <2>1 DEF CheckpointOnNode
<1>9. CASE Return(p)
  BY <1>9 DEF Return, RemoveOpts, Actions
<1> QED
  BY <1>1, <1>2, <1>3, <1>4, <1>5, <1>6, <1>7, <1>8, <1>9, Zenon DEF RemoveStep

(* Giving up, a process reports an error or has killed the sandbox. *)
LEMMA GiveUpCases ==
  ASSUME NEW p \in Procs, GiveUp(p)
  PROVE  \E l \in {"failed", "finished"} :
           pc' = [pc EXCEPT ![p] = l] /\ (l = "finished" => opts[p].action = "kill")
  BY Zenon DEF GiveUp, AfterError, Goto

LEMMA ResumeType ==
  ASSUME TypeInv, NEW p \in Procs, ResumeStep(p) \/ StoreAddFails(p)
  PROVE  TypeInv'
<1> USE NoneAssumption, SlowAssumption, LifecycleAssumption
<1> USE DEF TypeInv, TypeOK, Goto, redisVars, localVars, lifeVars
<1> USE DEF HasCopy, HoldsLock, OwnsTransition, Resuming, PCs
<1>1. CASE ResumeGet(p)
  BY <1>1 DEF ResumeGet
<1>2. CASE ResumeLookup(p)
  BY <1>2 DEF ResumeLookup
<1>3. CASE Reserve(p)
  <2>1. pending' \in BOOLEAN
    BY <1>3, Zenon DEF Reserve
  <2>2. /\ pc' = [pc EXCEPT ![p] = "done"] \/ pc' = [pc EXCEPT ![p] = "waitForStart"]
           \/ pc' = [pc EXCEPT ![p] = "place"] \/ pc' = [pc EXCEPT ![p] = "failed"]
        /\ pc[p] = "reserve"
    BY <1>3, Zenon DEF Reserve
  <2> QED
    BY <1>3, <2>1, <2>2 DEF Reserve
<1>4. CASE WaitForStart(p)
  BY <1>4 DEF WaitForStart
<1>5. CASE Place(p)
  <2>1. p \in Execs /\ now + Timeout \in Nat
    BY <1>5 DEF Place
  <2>2. vm' \in [Nodes -> Execs \cup {None}]
    BY <1>5, <2>1 DEF Place
  <2>3. \A n \in Nodes, auto \in BOOLEAN :
          [exec |-> p, node |-> n, state |-> "running", end |-> now + Timeout, auto |-> auto]
            \in Sandbox
    BY <2>1, Zenon DEF Sandbox, States
  <2>4. \/ pc' = [pc EXCEPT ![p] = "finishStart"] /\ sbx' = sbx
        \/ /\ pc' = [pc EXCEPT ![p] = "add"]
           /\ \E s \in Sandbox : sbx' = [sbx EXCEPT ![p] = s]
    BY <1>5, <2>3, Zenon DEF Place
  <2> QED
    BY <1>5, <2>2, <2>4 DEF Place
<1>6. CASE Rollback(p)
  BY <1>6, ZenonT(40) DEF Rollback
<1>7. CASE StoreAdd(p)
  BY <1>7 DEF StoreAdd, AddRecord
<1>8. CASE AddRoute(p)
  BY <1>8 DEF AddRoute
<1>9. CASE FinishStart(p)
  BY <1>9, ZenonT(40) DEF FinishStart
<1>10. CASE StoreAddFails(p)
  BY <1>10, SMTT(60) DEF StoreAddFails, Sandbox
<1> QED
  BY <1>1, <1>2, <1>3, <1>4, <1>5, <1>6, <1>7, <1>8, <1>9, <1>10, Zenon DEF ResumeStep

LEMMA OtherType ==
  ASSUME TypeInv,
         \/ \E p \in Procs : Arrive(p) \/ Evict(p) \/ GiveUp(p) \/ LockTimesOut(p) \/ Crash(p)
         \/ \E n \in Nodes : Reconcile(n)
         \/ Expiry \/ Tick
  PROVE  TypeInv'
<1> USE NoneAssumption, SlowAssumption, LifecycleAssumption
<1> USE DEF TypeInv, TypeOK, Goto, redisVars, localVars, lifeVars
<1> USE DEF HasCopy, HoldsLock, OwnsTransition, Resuming
<1>1. ASSUME NEW p \in Procs, Arrive(p) PROVE TypeInv'
  <2> PICK op \in Ops : /\ op \in {"adminKill", "pinnedKill"} => record # None
                        /\ Goto(p, Request(op)[1])
                        /\ opts' = [opts EXCEPT ![p] = Request(op)[2]]
    BY <1>1, Zenon DEF Arrive
  <2>1. Request(op)[1] \in {"obtain", "update", "resume"} /\ Request(op)[2] \in RemoveOpts
    BY DEF Request, Opts, RemoveOpts, Operations, Actions, Sandbox
  <2>2. pc' \in [Procs -> PCs] /\ opts' \in [Procs -> RemoveOpts]
    BY <2>1, Zenon DEF PCs
  <2>3. \A q \in Procs : pc'[q] = pc[q] \/ (q = p /\ pc'[q] \in {"obtain", "update", "resume"})
    BY <2>1, Zenon
  <2>4. p \in Reqs /\ UNCHANGED <<redisVars, sbx, tid, cb, now, lifeVars>>
    BY <1>1, Zenon DEF Arrive
  <2>5. TypeOK'
    BY <2>2, <2>4, Zenon
  <2>6. \A q \in Procs : /\ pc'[q] \in OwnsTransition => tid'[q] # None
                         /\ pc'[q] \in HasCopy => sbx'[q] # None
                         /\ pc'[q] \in Resuming => q \in Reqs
    BY <2>3, <2>4
  <2> QED
    BY <2>5, <2>6, Zenon
<1>2. ASSUME NEW p \in Procs, Evict(p) PROVE TypeInv'
  BY <1>2, SMTT(60) DEF Evict, Opts, RemoveOpts, Operations, Actions, PCs
<1>3. ASSUME NEW p \in Procs, GiveUp(p) PROVE TypeInv'
  <2>1. PICK l \in {"failed", "finished"} : pc' = [pc EXCEPT ![p] = l]
    BY <1>3, GiveUpCases, Zenon
  <2> QED
    BY <1>3, <2>1, SMTT(60) DEF GiveUp, PCs
<1>4. ASSUME NEW p \in Procs, LockTimesOut(p) PROVE TypeInv'
  BY <1>4, SMTT(60) DEF LockTimesOut, PCs
<1>5. ASSUME NEW p \in Procs, Crash(p) PROVE TypeInv'
  BY <1>5, SMTT(60) DEF Crash, PCs
<1>6. ASSUME NEW n \in Nodes, Reconcile(n) PROVE TypeInv'
  BY <1>6, ZenonT(120) DEF Reconcile, ReconcileList, ReconcileCheck, BackgroundKill
<1>7. CASE Expiry
  BY <1>7, ZenonT(60) DEF Expiry, LockExpires, TransitionLockExpires, TransitionExpires, ResultExpires
<1>8. CASE Tick
  BY <1>8 DEF Tick
<1> QED
  BY <1>1, <1>2, <1>3, <1>4, <1>5, <1>6, <1>7, <1>8, Zenon

LEMMA NextType == TypeInv /\ [Next]_vars => TypeInv'
<1> SUFFICES ASSUME TypeInv, [Next]_vars PROVE TypeInv'
  BY Zenon
<1>1. CASE Next
  BY <1>1, StorageType, RemoveType, ResumeType, OtherType, Zenon DEF Next, Step
<1>2. CASE UNCHANGED vars
  BY <1>2, Zenon DEF vars, redisVars, localVars, lifeVars, TypeInv, TypeOK
<1> QED
  BY <1>1, <1>2, Zenon

(* Type correctness: every process only ever stores well-formed records and *)
(* knows the transition and the record it works on.                         *)
THEOREM TypeCorrect == Spec => []TypeOK
<1>1. TypeInv => TypeOK
  BY Zenon DEF TypeInv
<1> QED
  BY InitType, NextType, <1>1, PTL DEF Spec

(***************************************************************************)
(* One owner per transition, and pinned removals.                          *)
(***************************************************************************)

(* Ownership of a transition, when live processes finish within the TTLs.   *)
(* The lock of the record is held by whoever is in its critical section;    *)
(* there is no transition when one is about to start.                       *)
OwnerInv ==
  /\ TypeInv
  /\ SingleOwner
  /\ \A p \in Procs : /\ pc[p] \in HoldsLock => lock = p
                      /\ pc[p] = "start" => tkey = None

(* StartRemoving goes on to the start script only when there is no          *)
(* transition, the target state is allowed and an evicted sandbox expired.  *)
LEMMA AfterCheckCases ==
  ASSUME NEW p \in Procs
  PROVE  /\ AfterCheck(p) \in {"failed", "join", "retry", "alreadyDone", "start"}
         /\ AfterCheck(p) = "start" =>
              /\ tkey = None
              /\ TargetState[opts[p].action] \in AllowedTransitions[sbx[p].state]
              /\ opts[p].op = "evict" => IsExpired(sbx[p])
  BY Zenon DEF AfterCheck, RefuseEviction

(* Requests begin by asking for the lock, updating or resuming. *)
LEMMA RequestCases ==
  ASSUME NEW op \in Ops
  PROVE  Request(op)[1] \in {"obtain", "update", "resume"}
  BY LifecycleAssumption, Zenon DEF Request, Operations

(* A step of p that leaves the transition key alone and takes or releases   *)
(* at most the lock it finds free or its own.                               *)
LEMMA OwnerStep ==
  ASSUME OwnerInv, TypeInv', NEW p \in Procs, NEW l,
         pc' = [pc EXCEPT ![p] = l],
         lock' = lock \/ lock \in {None, p},
         l \in HoldsLock => lock' = p,
         tkey' = tkey,
         \A q \in Procs \ {p} : tid'[q] = tid[q],
         l \in OwnsTransition => pc[p] \in OwnsTransition /\ tid'[p] = tid[p],
         l = "start" => tkey = None
  PROVE  OwnerInv'
<1>1. pc'[p] = l /\ \A q \in Procs \ {p} : pc'[q] = pc[q]
  BY Zenon DEF OwnerInv, TypeInv, TypeOK
<1>2. \A q \in Procs : pc'[q] \in OwnsTransition => pc[q] \in OwnsTransition /\ tid'[q] = tid[q]
  BY <1>1, Zenon
<1>3. SingleOwner'
  BY <1>2, Zenon DEF OwnerInv, SingleOwner
<1>4. ASSUME NEW q \in Procs \ {p}, pc'[q] \in HoldsLock PROVE lock' = q
  <2>1. lock = q /\ lock # None
    BY <1>1, <1>4, NoneAssumption, Zenon DEF OwnerInv
  <2> QED
    BY <2>1, Zenon
<1>5. \A q \in Procs : pc'[q] = "start" => tkey' = None
  BY <1>1, Zenon DEF OwnerInv
<1> QED
  BY <1>1, <1>3, <1>4, <1>5, Zenon DEF OwnerInv

LEMMA StorageOwner ==
  ASSUME OwnerInv, TypeInv', NEW p \in Procs, StorageStep(p)
  PROVE  OwnerInv'
<1> USE DEF Goto, redisVars, localVars, HoldsLock, OwnsTransition
<1>t. pc \in [Procs -> PCs] /\ tid \in [Procs -> (1 .. lastT) \cup {None}]
  BY Zenon DEF OwnerInv, TypeInv, TypeOK
<1>1. CASE ObtainForRemoval(p)
  BY <1>1, OwnerStep, Zenon DEF ObtainForRemoval, AfterError
<1>2. CASE CheckTransition(p)
  <2>1. lock' = lock \/ lock = p
    BY <1>2, Zenon DEF CheckTransition, ReleaseLock
  <2>2. AfterCheck(p) = "start" => lock' = p /\ tkey = None
    BY <1>2, AfterCheckCases, Zenon DEF CheckTransition, OwnerInv
  <2>3. \A q \in Procs \ {p} : tid'[q] = tid[q]
    BY <1>t, <1>2, Zenon DEF CheckTransition
  <2> QED
    BY <1>2, <2>1, <2>2, <2>3, AfterCheckCases, OwnerStep, Zenon DEF CheckTransition
<1>3. CASE StartTransition(p)
  <2>1. lock' = lock \/ lock = p
    BY <1>3, Zenon DEF StartTransition, ReleaseLock
  <2>2. CASE pc' = [pc EXCEPT ![p] = "started"]
    <3>1. tkey' = lastT + 1 /\ tid' = [tid EXCEPT ![p] = lastT + 1] /\ lock = p
      BY <1>3, <2>2, <1>t, Zenon DEF StartTransition, AfterError, OwnerInv
    <3>2. \A q \in Procs : pc[q] \notin OwnsTransition
      BY <1>3, Zenon DEF StartTransition, OwnerInv, SingleOwner, TypeInv
    <3>3. \A q \in Procs \ {p} : pc'[q] \notin OwnsTransition \cup HoldsLock
      BY <2>2, <3>1, <3>2, <1>t, Zenon DEF OwnerInv
    <3>4. pc'[p] = "started" /\ tid'[p] = tkey'
      BY <2>2, <3>1, <1>t, Zenon
    <3> QED
      BY <3>3, <3>4, Zenon DEF OwnerInv, SingleOwner
  <2>3. CASE pc' # [pc EXCEPT ![p] = "started"]
    <3>1. PICK l \in {"failed", "finished"} : pc' = [pc EXCEPT ![p] = l]
      BY <1>3, <2>3, Zenon DEF StartTransition, AfterError
    <3>2. tkey' = tkey /\ tid' = tid
      BY <1>3, <2>3, Zenon DEF StartTransition
    <3> QED
      BY <2>1, <3>1, <3>2, OwnerStep, Zenon
  <2> QED
    BY <2>2, <2>3, Zenon
<1>4. CASE WaitForTransition(p)
  <2>1. PICK l \in {"failed", "finished", "alreadyDone", "obtain", "waited"} :
               pc' = [pc EXCEPT ![p] = l]
    BY <1>4, Zenon DEF WaitForTransition, AfterWait, AfterError
  <2> QED
    BY <1>4, <2>1, OwnerStep, Zenon DEF WaitForTransition
<1>5. CASE WaitForStateChange(p)
  <2>1. \A q \in Procs \ {p} : tid'[q] = tid[q]
    BY <1>t, <1>5, Zenon DEF WaitForStateChange
  <2> QED
    BY <1>5, <2>1, OwnerStep, Zenon DEF WaitForStateChange
<1>6. CASE RestoreRead(p)
  BY <1>6, OwnerStep, Zenon DEF RestoreRead
<1>7. CASE RestoreWrite(p)
  BY <1>7, OwnerStep, Zenon DEF RestoreWrite, ReleaseLock
<1>8. CASE FinishResult(p)
  BY <1>8, OwnerStep, Zenon DEF FinishResult
<1>9. CASE FinishDelete(p)
  <2>1. \A q \in Procs : pc[q] \in OwnsTransition => q = p
    BY <1>9, Zenon DEF FinishDelete, OwnerInv, SingleOwner
  <2>2. pc'[p] = "finished" /\ \A q \in Procs \ {p} : pc'[q] = pc[q]
    BY <1>9, <1>t, Zenon DEF FinishDelete
  <2> QED
    BY <1>9, <2>1, <2>2, Zenon DEF FinishDelete, OwnerInv, SingleOwner
<1>10. CASE UpdateRead(p)
  BY <1>10, OwnerStep, Zenon DEF UpdateRead
<1>11. CASE UpdateWrite(p)
  BY <1>11, OwnerStep, Zenon DEF UpdateWrite, ReleaseLock
<1> QED
  BY <1>1, <1>2, <1>3, <1>4, <1>5, <1>6, <1>7, <1>8, <1>9, <1>10, <1>11, Zenon DEF StorageStep

LEMMA RemoveOwner ==
  ASSUME OwnerInv, TypeInv', NEW p \in Procs, RemoveStep(p)
  PROVE  OwnerInv'
<1> USE DEF Goto, redisVars, localVars, lifeVars, HoldsLock, OwnsTransition
<1>1. CASE AlreadyDone(p)
  BY <1>1, OwnerStep, Zenon DEF AlreadyDone
<1>2. CASE NotFound(p)
  BY <1>2, OwnerStep, Zenon DEF NotFound
<1>3. CASE Unroute(p)
  BY <1>3, OwnerStep, Zenon DEF Unroute
<1>4. CASE KillOnNode(p)
  BY <1>4, OwnerStep, Zenon DEF KillOnNode
<1>5. CASE PauseOnNode(p)
  BY <1>5, OwnerStep, Zenon DEF PauseOnNode
<1>6. CASE StoreRemove(p)
  BY <1>6, OwnerStep, Zenon DEF StoreRemove, RemoveRecord
<1>7. CASE ReleaseReservation(p)
  BY <1>7, OwnerStep, Zenon DEF ReleaseReservation
<1>8. CASE CheckpointOnNode(p)
  BY <1>8, OwnerStep, Zenon DEF CheckpointOnNode
<1>9. CASE Return(p)
  BY <1>9, OwnerStep, Zenon DEF Return
<1> QED
  BY <1>1, <1>2, <1>3, <1>4, <1>5, <1>6, <1>7, <1>8, <1>9, Zenon DEF RemoveStep

LEMMA ResumeOwner ==
  ASSUME OwnerInv, TypeInv', NEW p \in Procs, ResumeStep(p) \/ StoreAddFails(p)
  PROVE  OwnerInv'
<1> USE DEF Goto, redisVars, localVars, lifeVars, HoldsLock, OwnsTransition
<1>1. CASE ResumeGet(p)
  BY <1>1, OwnerStep, Zenon DEF ResumeGet
<1>2. CASE ResumeLookup(p)
  BY <1>2, OwnerStep, Zenon DEF ResumeLookup
<1>3. CASE Reserve(p)
  BY <1>3, OwnerStep, Zenon DEF Reserve
<1>4. CASE WaitForStart(p)
  BY <1>4, OwnerStep, Zenon DEF WaitForStart
<1>5. CASE Place(p)
  BY <1>5, OwnerStep, Zenon DEF Place
<1>6. CASE Rollback(p)
  BY <1>6, OwnerStep, Zenon DEF Rollback
<1>7. CASE StoreAdd(p)
  BY <1>7, OwnerStep, Zenon DEF StoreAdd, AddRecord
<1>8. CASE AddRoute(p)
  BY <1>8, OwnerStep, Zenon DEF AddRoute
<1>9. CASE FinishStart(p)
  BY <1>9, OwnerStep, Zenon DEF FinishStart
<1>10. CASE StoreAddFails(p)
  BY <1>10, OwnerStep, Zenon DEF StoreAddFails
<1> QED
  BY <1>1, <1>2, <1>3, <1>4, <1>5, <1>6, <1>7, <1>8, <1>9, <1>10, Zenon DEF ResumeStep

LEMMA OtherOwner ==
  ASSUME ~Slow, OwnerInv, TypeInv',
         \/ \E p \in Procs : Arrive(p) \/ Evict(p) \/ GiveUp(p) \/ LockTimesOut(p) \/ Crash(p)
         \/ \E n \in Nodes : Reconcile(n)
         \/ Expiry \/ Tick
  PROVE  OwnerInv'
<1> USE DEF Goto, redisVars, localVars, lifeVars, HoldsLock, OwnsTransition
<1>1. ASSUME NEW p \in Procs, Arrive(p) PROVE OwnerInv'
  BY <1>1, RequestCases, OwnerStep, Zenon DEF Arrive
<1>2. ASSUME NEW p \in Procs, Evict(p) PROVE OwnerInv'
  BY <1>2, OwnerStep, Zenon DEF Evict
<1>3. ASSUME NEW p \in Procs, GiveUp(p) PROVE OwnerInv'
  BY <1>3, GiveUpCases, OwnerStep, Zenon DEF GiveUp
<1>4. ASSUME NEW p \in Procs, LockTimesOut(p) PROVE OwnerInv'
  BY <1>4, Zenon DEF LockTimesOut
<1>5. ASSUME NEW p \in Procs, Crash(p) PROVE OwnerInv'
  BY <1>5, OwnerStep, Zenon DEF Crash
<1> USE DEF OwnerInv, SingleOwner
<1>6. ASSUME NEW n \in Nodes, Reconcile(n) PROVE OwnerInv'
  BY <1>6, Zenon DEF Reconcile, ReconcileList, ReconcileCheck, BackgroundKill
<1>7. CASE Expiry
  BY <1>7, NoneAssumption, Zenon DEF Expiry, LockExpires, TransitionLockExpires, TransitionExpires, ResultExpires
<1>8. CASE Tick
  BY <1>8, Zenon DEF Tick
<1> QED
  BY <1>1, <1>2, <1>3, <1>4, <1>5, <1>6, <1>7, <1>8, Zenon

LEMMA NextOwner == ~Slow /\ OwnerInv /\ [Next]_vars => OwnerInv'
<1> SUFFICES ASSUME ~Slow, OwnerInv, [Next]_vars PROVE OwnerInv'
  BY Zenon
<1>1. TypeInv'
  BY NextType, Zenon DEF OwnerInv
<1>2. CASE Next
  BY <1>1, <1>2, StorageOwner, RemoveOwner, ResumeOwner, OtherOwner, Zenon DEF Next, Step
<1>3. CASE UNCHANGED vars
  BY <1>1, <1>3, Zenon DEF vars, redisVars, localVars, OwnerInv, SingleOwner
<1> QED
  BY <1>2, <1>3, Zenon

LEMMA InitOwner == Init => OwnerInv
  BY InitType, Zenon DEF Init, OwnerInv, SingleOwner, HoldsLock, OwnsTransition

(* When live processes finish within the TTLs of their keys, at most one    *)
(* process at a time works on a transition of the sandbox, and the          *)
(* transition key names its transition, whoever else crashes or races.      *)
THEOREM TransitionOwned ==
  ASSUME ~Slow
  PROVE  Spec => []SingleOwner
<1>1. OwnerInv /\ [Next]_vars => OwnerInv'
  BY NextOwner, Zenon
<1>2. OwnerInv => SingleOwner
  BY Zenon DEF OwnerInv
<1> QED
  BY InitOwner, <1>1, <1>2, PTL DEF Spec

(***************************************************************************)
(* Pinned removals.                                                        *)
(***************************************************************************)
(* A process that has obtained the lock for a pinned removal has a copy of  *)
(* the execution it is pinned to, whatever expires.                         *)
PinInv ==
  /\ TypeInv
  /\ \A p \in Procs : pc[p] \in {"check", "start"} /\ opts[p].pin # None
                        => sbx[p].exec = opts[p].pin

LEMMA PinStep ==
  ASSUME PinInv, TypeInv', NEW p \in Procs,
         \A q \in Procs \ {p} : pc'[q] = pc[q] /\ opts'[q] = opts[q] /\ sbx'[q] = sbx[q],
         \/ pc'[p] \notin {"check", "start"}
         \/ pc[p] = "check" /\ opts'[p] = opts[p] /\ sbx'[p] = sbx[p]
         \/ opts'[p].pin # None => sbx'[p].exec = opts'[p].pin
  PROVE  PinInv'
  BY Zenon DEF PinInv

LEMMA NextPin == PinInv /\ [Next]_vars => PinInv'
<1> SUFFICES ASSUME PinInv, [Next]_vars PROVE PinInv'
  BY Zenon
<1>1. TypeInv'
  BY NextType, Zenon DEF PinInv
<1> USE DEF Goto, redisVars, localVars, lifeVars
<1>a. /\ pc \in [Procs -> PCs] /\ opts \in [Procs -> RemoveOpts]
      /\ sbx \in [Procs -> Sandbox \cup {None}]
  BY Zenon DEF PinInv, TypeInv, TypeOK
<1>2. ASSUME NEW p \in Procs, StorageStep(p) PROVE PinInv'
  <2>1. CASE ObtainForRemoval(p)
    BY <1>1, <1>a, <2>1, PinStep, Zenon DEF ObtainForRemoval, AfterError
  <2>2. CASE CheckTransition(p)
    BY <1>1, <1>a, <2>2, PinStep, Zenon DEF CheckTransition
  <2>3. CASE StartTransition(p)
    BY <1>1, <1>a, <2>3, PinStep, Zenon DEF StartTransition, AfterError
  <2>4. CASE WaitForTransition(p) \/ WaitForStateChange(p)
    BY <1>1, <1>a, <2>4, PinStep, Zenon
       DEF WaitForTransition, AfterWait, AfterError, WaitForStateChange
  <2>5. CASE RestoreRead(p) \/ RestoreWrite(p) \/ FinishResult(p) \/ FinishDelete(p)
    BY <1>1, <1>a, <2>5, PinStep, Zenon DEF RestoreRead, RestoreWrite, FinishResult, FinishDelete
  <2>6. CASE UpdateRead(p) \/ UpdateWrite(p)
    BY <1>1, <1>a, <2>6, PinStep, Zenon DEF UpdateRead, UpdateWrite
  <2> QED
    BY <1>2, <2>1, <2>2, <2>3, <2>4, <2>5, <2>6, Zenon DEF StorageStep
<1>3. ASSUME NEW p \in Procs, RemoveStep(p) PROVE PinInv'
  <2>1. CASE AlreadyDone(p) \/ NotFound(p) \/ StoreRemove(p) \/ ReleaseReservation(p) \/ Return(p)
    BY <1>1, <1>a, <2>1, PinStep, Zenon
       DEF AlreadyDone, NotFound, StoreRemove, ReleaseReservation, Return
  <2>2. CASE Unroute(p) \/ KillOnNode(p) \/ PauseOnNode(p) \/ CheckpointOnNode(p)
    BY <1>1, <1>a, <2>2, PinStep, Zenon DEF Unroute, KillOnNode, PauseOnNode, CheckpointOnNode
  <2> QED
    BY <1>3, <2>1, <2>2, Zenon DEF RemoveStep
<1>4. ASSUME NEW p \in Procs, ResumeStep(p) \/ StoreAddFails(p) PROVE PinInv'
  <2>1. CASE Place(p)
    BY <1>1, <1>a, <2>1, PinStep, Zenon DEF Place
  <2>2. CASE ~Place(p)
    BY <1>1, <1>4, <1>a, <2>2, PinStep, Zenon
       DEF ResumeStep, ResumeGet, ResumeLookup, Reserve, WaitForStart, Rollback, StoreAdd,
           AddRoute, FinishStart, StoreAddFails
  <2> QED
    BY <2>1, <2>2, Zenon
<1>5. ASSUME NEW p \in Procs, Arrive(p) PROVE PinInv'
  <2>1. PICK op \in Ops : /\ pc' = [pc EXCEPT ![p] = Request(op)[1]]
                          /\ opts' = [opts EXCEPT ![p] = Request(op)[2]]
    BY <1>5, Zenon DEF Arrive
  <2>2. Request(op)[1] \notin {"check", "start"}
    BY <2>1, LifecycleAssumption, Zenon DEF Request, Operations
  <2> QED
    BY <1>1, <1>5, <1>a, <2>1, <2>2, PinStep, Zenon DEF Arrive
<1>6. ASSUME NEW p \in Procs, Evict(p) \/ GiveUp(p) \/ LockTimesOut(p) \/ Crash(p) PROVE PinInv'
  <2>1. CASE GiveUp(p)
    BY <1>1, <1>a, <2>1, GiveUpCases, PinStep, Zenon DEF GiveUp
  <2> QED
    BY <1>1, <1>6, <1>a, <2>1, PinStep, Zenon DEF Evict, LockTimesOut, Crash
<1>7. ASSUME (\E n \in Nodes : Reconcile(n)) \/ Expiry \/ Tick \/ UNCHANGED vars PROVE PinInv'
  BY <1>1, <1>7, Zenon
     DEF PinInv, Reconcile, ReconcileList, ReconcileCheck, BackgroundKill, Expiry, Tick, vars
<1> QED
  BY <1>2, <1>3, <1>4, <1>5, <1>6, <1>7, Zenon DEF Next, Step

(* A pinned removal starts a transition of the execution it is pinned to    *)
(* and of no other, even when locks and keys expire under live processes:   *)
(* both the check in StartRemoving and the one in the script are needed.    *)
THEOREM PinRespected == Spec => PinHolds
<1> DEFINE A == \A p \in Procs : opts[p].pin # None /\ pc[p] = "start" /\ pc'[p] = "started"
                  => record # None /\ record.exec = opts[p].pin /\ record'.exec = opts[p].pin
<1>1. Init => PinInv
  BY InitType, Zenon DEF Init, PinInv
<1>2. ASSUME PinInv, Next PROVE A
  <2> SUFFICES ASSUME NEW p \in Procs, opts[p].pin # None, pc[p] = "start", pc'[p] = "started"
               PROVE  record # None /\ record.exec = opts[p].pin /\ record'.exec = opts[p].pin
    BY Zenon
  <2> USE DEF Goto, redisVars, localVars, lifeVars
  <2>a. /\ pc \in [Procs -> PCs] /\ TypeOK /\ sbx[p] \in Sandbox
        /\ sbx[p].exec = opts[p].pin
    BY <1>2, Zenon DEF PinInv, TypeInv, TypeOK, HasCopy, HoldsLock
  <2>1. StartTransition(p)
    <3>1. ASSUME NEW q \in Procs, StorageStep(q) PROVE StartTransition(p)
      BY <2>a, <3>1, Zenon
         DEF StorageStep, ObtainForRemoval, CheckTransition, StartTransition, WaitForTransition,
             WaitForStateChange, RestoreRead, RestoreWrite, FinishResult, FinishDelete, UpdateRead,
             UpdateWrite
    <3>2. ASSUME NEW q \in Procs, RemoveStep(q) PROVE FALSE
      BY <2>a, <3>2, Zenon
         DEF RemoveStep, AlreadyDone, NotFound, Unroute, KillOnNode, PauseOnNode, StoreRemove,
             ReleaseReservation, CheckpointOnNode, Return
    <3>3. ASSUME NEW q \in Procs, ResumeStep(q) \/ StoreAddFails(q) PROVE FALSE
      BY <2>a, <3>3, Zenon
         DEF ResumeStep, ResumeGet, ResumeLookup, Reserve, WaitForStart, Place, Rollback, StoreAdd,
             AddRoute, FinishStart, StoreAddFails
    <3>4. ASSUME NEW q \in Procs,
                 Arrive(q) \/ Evict(q) \/ GiveUp(q) \/ LockTimesOut(q) \/ Crash(q)
          PROVE  FALSE
      BY <2>a, <3>4, Zenon DEF Arrive, Evict, GiveUp, LockTimesOut, Crash
    <3>5. ASSUME (\E n \in Nodes : Reconcile(n)) \/ Expiry \/ Tick PROVE FALSE
      BY <2>a, <3>5, Zenon
         DEF Reconcile, ReconcileList, ReconcileCheck, BackgroundKill, Expiry, Tick
    <3> QED
      BY <1>2, <3>1, <3>2, <3>3, <3>4, <3>5, Zenon DEF Next, Step
  <2>2. /\ record # None /\ record.exec = opts[p].pin /\ record' = Transitioned(p)
    BY <2>1, <2>a, Zenon DEF StartTransition, AfterError
  <2> QED
    BY <2>2, <2>a, TransitionedType, Zenon
<1>3. PinInv /\ [Next]_vars => [A]_vars
  BY <1>2, Zenon
<1> QED
  BY <1>1, NextPin, <1>3, PTL DEF Spec, PinHolds

(***************************************************************************)
(* The record: what its writers may rely on, and the safety that follows.  *)
(***************************************************************************)

(* The record as every writer finds it.  A process that holds the lock has  *)
(* a current copy unless a start has stored another execution meanwhile; an *)
(* execution is stored once, by the request it is named after.              *)
NotAdded == {"idle"} \cup (Resuming \ {"route", "finishStart"})

Removing == {"pausing", "killing"}

CopyInv(p) ==
  /\ pc[p] \in HoldsLock => record # None /\ (record.exec = sbx[p].exec => record = sbx[p])
  /\ pc[p] = "start" => /\ TargetState[opts[p].action] \in AllowedTransitions[sbx[p].state]
                        /\ opts[p].op = "evict" => IsExpired(sbx[p])
  /\ pc[p] \in {"restore", "restoreWrite"} => opts[p].action = "snapshot"
  /\ pc[p] \in {"updateWrite", "add"} => sbx[p].state = "running"
  /\ sbx[p] # None /\ sbx[p].state \in Removing => sbx[p].end <= now

FreshInv(q) ==
  pc[q] \in NotAdded =>
    /\ record # None => record.exec # q
    /\ pc[q] = "add" => sbx[q].exec = q
    /\ \A p \in Procs \ {q} : sbx[p] # None => sbx[p].exec # q

RecordInv ==
  /\ OwnerInv
  /\ IndexAgrees
  /\ RemovingIsExpired
  /\ \A p \in Procs : CopyInv(p)
  /\ \A q \in Reqs : FreshInv(q)

(* A step of p that leaves the record and the copies alone and does not end *)
(* in a place where p relies on them.                                       *)
LEMMA LocalStep ==
  ASSUME RecordInv, OwnerInv', NEW p \in Procs, NEW l,
         pc' = [pc EXCEPT ![p] = l],
         l \notin HoldsLock \cup {"add"},
         l = "restore" => opts'[p].action = "snapshot",
         p \in Reqs /\ l \in NotAdded => pc[p] \in NotAdded,
         UNCHANGED <<record, indexed, sbx, now>>,
         \A q \in Procs \ {p} : opts'[q] = opts[q]
  PROVE  RecordInv'
<1> USE DEF RecordInv, OwnerInv, TypeInv, TypeOK, HoldsLock
<1>1. IndexAgrees' /\ RemovingIsExpired'
  BY Zenon DEF IndexAgrees, RemovingIsExpired
<1>2. \A q \in Procs : CopyInv(q)'
  BY DEF CopyInv, IsExpired, Removing
<1>3. \A q \in Reqs : FreshInv(q)'
  BY LifecycleAssumption DEF FreshInv, NotAdded, Resuming
<1> QED
  BY <1>1, <1>2, <1>3, Zenon

LEMMA RemoveRecordInv ==
  ASSUME RecordInv, OwnerInv', NEW p \in Procs, RemoveStep(p)
  PROVE  RecordInv'
<1> USE DEF Goto, redisVars, localVars, lifeVars, HoldsLock, NotAdded, Resuming
<1>1. CASE AlreadyDone(p)
  BY <1>1, LocalStep, Zenon DEF AlreadyDone
<1>2. CASE NotFound(p)
  BY <1>2, LocalStep, Zenon DEF NotFound
<1>3. CASE Unroute(p)
  BY <1>3, LocalStep, Zenon DEF Unroute
<1>4. CASE KillOnNode(p)
  BY <1>4, LocalStep, Zenon DEF KillOnNode
<1>5. CASE PauseOnNode(p)
  BY <1>5, LocalStep, Zenon DEF PauseOnNode
<1>7. CASE ReleaseReservation(p)
  BY <1>7, LocalStep, Zenon DEF ReleaseReservation
<1>8. CASE CheckpointOnNode(p)
  BY <1>8, LocalStep, Zenon DEF CheckpointOnNode
<1>9. CASE Return(p)
  <2>1. \A q \in Procs \ {p} : opts'[q] = opts[q]
    BY <1>9, Zenon DEF Return, RecordInv, OwnerInv, TypeInv, TypeOK
  <2>2. PICK l \in {"obtain", "done", "failed"} : pc' = [pc EXCEPT ![p] = l]
    BY <1>9, Zenon DEF Return
  <2> QED
    BY <1>9, <2>1, <2>2, LocalStep, Zenon DEF Return
<1> USE DEF RecordInv, OwnerInv, TypeInv, TypeOK
<1>6. CASE StoreRemove(p)
  <2>1. record' = None /\ indexed' = FALSE /\ lock = None
    BY <1>6, Zenon DEF StoreRemove, RemoveRecord
  <2>2. \A q \in Procs : pc[q] \notin HoldsLock
    BY <2>1, NoneAssumption, Zenon
  <2>3. \A q \in Procs : CopyInv(q)'
    BY <1>6, <2>1, <2>2, Zenon DEF StoreRemove, CopyInv, IsExpired
  <2>4. \A q \in Reqs : FreshInv(q)'
    BY <1>6, <2>1 DEF StoreRemove, FreshInv
  <2> QED
    BY <2>1, <2>3, <2>4, Zenon DEF IndexAgrees, RemovingIsExpired
<1> QED
  BY <1>1, <1>2, <1>3, <1>4, <1>5, <1>6, <1>7, <1>8, <1>9, Zenon DEF RemoveStep

(* A step that makes the record of a new execution, to be stored next. *)
LEMMA PlaceStep ==
  ASSUME RecordInv, OwnerInv', NEW p \in Reqs, pc[p] = "place",
         NEW s, s.exec = p, s.state = "running",
         pc' = [pc EXCEPT ![p] = "add"], sbx' = [sbx EXCEPT ![p] = s],
         UNCHANGED <<record, indexed, opts, now>>
  PROVE  RecordInv'
<1>1. p \in Procs
  BY LifecycleAssumption, Zenon
<1>2. /\ pc'[p] = "add" /\ sbx'[p] = s
      /\ \A q \in Procs \ {p} : pc'[q] = pc[q] /\ sbx'[q] = sbx[q]
  BY <1>1, Zenon DEF RecordInv, OwnerInv, TypeInv, TypeOK
<1>3. ASSUME NEW q \in Procs PROVE CopyInv(q)'
  <2>1. CopyInv(q)
    BY Zenon DEF RecordInv
  <2>2. CASE q = p
    BY <1>2, <2>2, Zenon DEF CopyInv, Removing, HoldsLock
  <2>3. CASE q # p
    BY <1>2, <2>1, <2>3, Zenon DEF CopyInv, IsExpired
  <2> QED
    BY <2>2, <2>3, Zenon
<1>4. ASSUME NEW q \in Reqs PROVE FreshInv(q)'
  <2>1. q \in Procs /\ FreshInv(q) /\ FreshInv(p)
    BY LifecycleAssumption, Zenon DEF RecordInv
  <2>2. pc[p] \in NotAdded /\ pc[p] # "add"
    BY Zenon DEF NotAdded, Resuming
  <2>3. CASE q = p
    BY <1>2, <2>1, <2>2, <2>3, ZenonT(30) DEF FreshInv
  <2>4. CASE q # p
    BY <1>1, <1>2, <2>1, <2>4, Zenon DEF FreshInv
  <2> QED
    BY <2>3, <2>4, Zenon
<1> QED
  BY <1>3, <1>4, Zenon DEF RecordInv, IndexAgrees, RemovingIsExpired

LEMMA ResumeRecordInv ==
  ASSUME RecordInv, OwnerInv', NEW p \in Procs, ResumeStep(p) \/ StoreAddFails(p)
  PROVE  RecordInv'
<1> USE DEF Goto, redisVars, localVars, lifeVars, HoldsLock, NotAdded, Resuming
<1>1. CASE ResumeGet(p)
  BY <1>1, LocalStep, Zenon DEF ResumeGet
<1>2. CASE ResumeLookup(p)
  BY <1>2, LocalStep, Zenon DEF ResumeLookup
<1>3. CASE Reserve(p)
  BY <1>3, LocalStep, Zenon DEF Reserve
<1>4. CASE WaitForStart(p)
  BY <1>4, LocalStep, Zenon DEF WaitForStart
<1>6. CASE Rollback(p)
  BY <1>6, LocalStep, Zenon DEF Rollback
<1>8. CASE AddRoute(p)
  BY <1>8, LocalStep, Zenon DEF AddRoute
<1>9. CASE FinishStart(p)
  BY <1>9, LocalStep, Zenon DEF FinishStart
<1>10. CASE StoreAddFails(p)
  BY <1>10, LocalStep, Zenon DEF StoreAddFails
<1> USE DEF RecordInv, OwnerInv, TypeInv, TypeOK
<1>5. CASE Place(p)
  <2>1. p \in Reqs /\ pc[p] = "place"
    BY <1>5, Zenon DEF Place
  <2>2. CASE pc' = [pc EXCEPT ![p] = "finishStart"]  /\ sbx' = sbx
    BY <1>5, <2>2, LocalStep, Zenon DEF Place
  <2>3. CASE \E n \in Nodes, auto \in BOOLEAN :
               /\ sbx' = [sbx EXCEPT ![p] = [exec |-> p, node |-> n, state |-> "running",
                                            end |-> now + Timeout, auto |-> auto]]
               /\ pc' = [pc EXCEPT ![p] = "add"]
    <3>1. PICK n \in Nodes, auto \in BOOLEAN :
                 sbx' = [sbx EXCEPT ![p] = [exec |-> p, node |-> n, state |-> "running",
                                            end |-> now + Timeout, auto |-> auto]]
      BY <2>3, Zenon
    <3> DEFINE new == [exec |-> p, node |-> n, state |-> "running",
                       end |-> now + Timeout, auto |-> auto]
    <3>2. new.exec = p /\ new.state = "running"
      BY Zenon
    <3>3. /\ pc' = [pc EXCEPT ![p] = "add"] /\ sbx' = [sbx EXCEPT ![p] = new]
          /\ UNCHANGED <<record, indexed, opts, now>>
      BY <1>5, <2>3, <3>1, Zenon DEF Place
    <3> HIDE DEF new
    <3> QED
      BY <2>1, <3>2, <3>3, PlaceStep, Zenon
  <2> QED
    BY <1>5, <2>2, <2>3, Zenon DEF Place
<1>7. CASE StoreAdd(p)
  <2>1. /\ p \in Reqs /\ pc[p] = "add" /\ pc' = [pc EXCEPT ![p] = "route"]
        /\ record' = sbx[p] /\ sbx[p] \in Sandbox /\ indexed' = TRUE
        /\ UNCHANGED <<opts, sbx, now>>
    BY <1>7, Zenon DEF StoreAdd, AddRecord, HasCopy
  <2>2. sbx[p].exec = p /\ sbx[p].state = "running" /\ record' # None
    BY <2>1, NoneAssumption, Zenon DEF FreshInv, CopyInv
  <2>3. ASSUME NEW q \in Procs PROVE CopyInv(q)'
    <3>1. CASE q = p
      BY <2>1, <3>1, Zenon DEF CopyInv, IsExpired
    <3>2. CASE q # p
      <4>1. sbx[q] # None => sbx[q].exec # p
        BY <2>1, <3>2, Zenon DEF FreshInv
      <4>2. pc[q] \in HoldsLock => sbx[q] # None
        BY Zenon DEF HasCopy
      <4> QED
        BY <2>1, <2>2, <3>2, <4>1, <4>2, Zenon DEF CopyInv, IsExpired
    <3> QED
      BY <3>1, <3>2, Zenon
  <2>4. \A q \in Reqs : FreshInv(q)'
    BY <2>1, <2>2 DEF FreshInv
  <2> QED
    BY <2>1, <2>2, <2>3, <2>4, Zenon DEF IndexAgrees, RemovingIsExpired
<1> QED
  BY <1>1, <1>2, <1>3, <1>4, <1>5, <1>6, <1>7, <1>8, <1>9, <1>10, Zenon DEF ResumeStep

(* A step that takes the lock and reads the record. *)
LEMMA ReadStep ==
  ASSUME RecordInv, OwnerInv', NEW p \in Procs, NEW l \in HoldsLock \ {"start"},
         pc' = [pc EXCEPT ![p] = l],
         record # None, sbx' = [sbx EXCEPT ![p] = record],
         pc[p] \notin NotAdded,
         l = "restoreWrite" => opts[p].action = "snapshot",
         l = "updateWrite" => record.state = "running",
         UNCHANGED <<record, indexed, opts, now>>
  PROVE  RecordInv'
<1> USE DEF RecordInv, OwnerInv, TypeInv, TypeOK, HoldsLock
<1>1. IndexAgrees' /\ RemovingIsExpired'
  BY Zenon DEF IndexAgrees, RemovingIsExpired
<1>2. \A q \in Procs : CopyInv(q)'
  BY DEF CopyInv, IsExpired, Removing, RemovingIsExpired
<1>3. \A q \in Reqs : FreshInv(q)'
  BY LifecycleAssumption DEF FreshInv, NotAdded, Resuming
<1> QED
  BY <1>1, <1>2, <1>3, Zenon

(* A step that writes a record of the execution it has read and releases    *)
(* the lock.                                                                *)
LEMMA WriteStep ==
  ASSUME RecordInv, OwnerInv', NEW p \in Procs, pc[p] \in HoldsLock,
         NEW l \in {"started", "finish", "done"},
         pc' = [pc EXCEPT ![p] = l],
         record' \in Sandbox, record'.exec = sbx[p].exec,
         record'.state \in Removing => record'.end <= now,
         sbx' = sbx \/ sbx' = [sbx EXCEPT ![p] = record'],
         UNCHANGED <<indexed, opts, now>>
  PROVE  RecordInv'
<1> USE DEF RecordInv, OwnerInv, TypeInv, TypeOK, HoldsLock
<1>1. sbx[p] # None /\ record # None /\ record' # None
  BY NoneAssumption, Zenon DEF HasCopy, CopyInv
<1>2. IndexAgrees' /\ RemovingIsExpired'
  BY <1>1, Zenon DEF IndexAgrees, RemovingIsExpired, Removing
<1>3. \A q \in Procs \ {p} : pc[q] \notin HoldsLock
  BY Zenon
<1>4. ASSUME NEW q \in Procs PROVE CopyInv(q)'
  BY <1>1, <1>3 DEF CopyInv, IsExpired
<1>5. \A q \in Reqs : FreshInv(q)'
  BY <1>1, LifecycleAssumption DEF FreshInv, NotAdded, Resuming
<1> QED
  BY <1>2, <1>4, <1>5, Zenon

LEMMA ExtendedType ==
  ASSUME NEW s \in Sandbox, NEW end \in Nat
  PROVE  /\ [s EXCEPT !.end = end] \in Sandbox
         /\ [s EXCEPT !.end = end].exec = s.exec
         /\ [s EXCEPT !.end = end].state = s.state
  BY DEF Sandbox

LEMMA StorageRecordInv ==
  ASSUME RecordInv, OwnerInv', NEW p \in Procs, StorageStep(p)
  PROVE  RecordInv'
<1> USE DEF Goto, redisVars, localVars, lifeVars, HoldsLock, NotAdded, Resuming
<1>0. UNCHANGED now
  BY Zenon DEF StorageStep
<1>1. CASE ObtainForRemoval(p)
  <2> DEFINE found == record # None /\ (opts[p].pin = None \/ opts[p].pin = record.exec)
  <2>1. CASE found
    BY <1>0, <1>1, <2>1, ReadStep, Zenon DEF ObtainForRemoval
  <2>2. CASE ~found
    <3>1. PICK l \in {"notFound", "failed", "finished"} : pc' = [pc EXCEPT ![p] = l]
      BY <1>1, <2>2, Zenon DEF ObtainForRemoval, AfterError
    <3> QED
      BY <1>0, <1>1, <2>2, <3>1, LocalStep, Zenon DEF ObtainForRemoval
  <2> QED
    BY <2>1, <2>2, Zenon
<1>4. CASE WaitForTransition(p)
  <2>1. PICK l \in {"failed", "finished", "alreadyDone", "obtain", "waited"} :
               pc' = [pc EXCEPT ![p] = l] /\ (l = "waited" => pc[p] = "wait")
    BY <1>4, Zenon DEF WaitForTransition, AfterWait, AfterError
  <2> QED
    BY <1>0, <1>4, <2>1, LocalStep, Zenon DEF WaitForTransition
<1>5. CASE WaitForStateChange(p)
  BY <1>0, <1>5, LocalStep, Zenon DEF WaitForStateChange
<1>6. CASE RestoreRead(p)
  <2>1. opts[p].action = "snapshot"
    BY <1>6, Zenon DEF RestoreRead, RecordInv, CopyInv
  <2>2. CASE record # None
    BY <1>0, <1>6, <2>1, <2>2, ReadStep, Zenon DEF RestoreRead
  <2>3. CASE record = None
    BY <1>0, <1>6, <2>3, LocalStep, Zenon DEF RestoreRead
  <2> QED
    BY <2>2, <2>3, Zenon
<1>8. CASE FinishResult(p)
  BY <1>0, <1>8, LocalStep, Zenon DEF FinishResult
<1>9. CASE FinishDelete(p)
  BY <1>0, <1>9, LocalStep, Zenon DEF FinishDelete
<1>10. CASE UpdateRead(p)
  <2>1. CASE record # None /\ record.state = "running"
    BY <1>0, <1>10, <2>1, ReadStep, Zenon DEF UpdateRead
  <2>2. CASE ~(record # None /\ record.state = "running")
    BY <1>0, <1>10, <2>2, LocalStep, Zenon DEF UpdateRead
  <2> QED
    BY <2>1, <2>2, Zenon
<1> USE DEF RecordInv, OwnerInv, TypeInv, TypeOK
<1>a. pc[p] \in HasCopy => sbx[p] \in Sandbox
  BY Zenon
<1>b. now \in Nat
  BY LifecycleAssumption
<1>2. CASE CheckTransition(p)
  <2>1. CASE AfterCheck(p) = "start"
    <3>1. /\ pc' = [pc EXCEPT ![p] = "start"] /\ pc[p] = "check"
          /\ record' = record /\ sbx' = sbx /\ opts' = opts /\ now' = now /\ indexed' = indexed
      BY <1>0, <1>2, <2>1, Zenon DEF CheckTransition
    <3>2. pc[p] \in HoldsLock
      BY <3>1, Zenon
    <3>3. \A q \in Procs \ {p} : pc'[q] = pc[q]
      BY <3>1, Zenon
    <3>4. CopyInv(p)'
      <4>1. pc'[p] = "start"
        BY <3>1, Zenon
      <4>2. CopyInv(p)
        BY Zenon
      <4>3. /\ TargetState[opts[p].action] \in AllowedTransitions[sbx[p].state]
            /\ opts[p].op = "evict" => IsExpired(sbx[p])
        BY <2>1, AfterCheckCases, Zenon
      <4> QED
        BY <3>1, <3>2, <4>1, <4>2, <4>3, Zenon DEF CopyInv, IsExpired
    <3>5. ASSUME NEW q \in Procs \ {p} PROVE CopyInv(q)'
      <4>1. CopyInv(q) /\ pc'[q] = pc[q]
        BY <3>3, Zenon
      <4> QED
        BY <3>1, <4>1, Zenon DEF CopyInv, IsExpired
    <3>6. ASSUME NEW q \in Reqs PROVE FreshInv(q)'
      <4>1. FreshInv(q) /\ q \in Procs
        BY LifecycleAssumption, Zenon
      <4>2. pc'[q] = pc[q] \/ pc'[q] = "start"
        BY <3>1, <4>1, Zenon
      <4> QED
        BY <3>1, <4>1, <4>2, Zenon DEF FreshInv
    <3> QED
      BY <3>1, <3>4, <3>5, <3>6, ZenonT(40) DEF IndexAgrees, RemovingIsExpired
  <2>2. CASE AfterCheck(p) # "start"
    BY <1>0, <1>2, <2>2, AfterCheckCases, LocalStep, ZenonT(40) DEF CheckTransition
  <2> QED
    BY <2>1, <2>2, Zenon
<1>3. CASE StartTransition(p)
  <2>1. CASE pc' = [pc EXCEPT ![p] = "started"]
    <3>1. record' = Transitioned(p) /\ sbx' = [sbx EXCEPT ![p] = record']
      <4>1. pc'[p] = "started"
        BY <2>1, Zenon
      <4> QED
        BY <1>3, <4>1, Zenon DEF StartTransition, AfterError
    <3>2. sbx[p] \in Sandbox
      BY <1>3, <1>a, Zenon DEF StartTransition, HasCopy
    <3>3. ASSUME TargetState[opts[p].action] \in Removing PROVE Transitioned(p).end <= now
      <4>1. Effect[opts[p].action] = "expires"
        BY <3>3 DEF Removing, TargetState, Effect, RemoveOpts, Actions
      <4>2. Transitioned(p).end = IF ~(now > sbx[p].end) THEN now ELSE sbx[p].end
        BY <3>2, <4>1, Zenon DEF Transitioned, IsExpired, Sandbox
      <4>3. sbx[p].end \in Nat
        BY <3>2, Zenon DEF Sandbox
      <4> QED
        BY <1>b, <4>2, <4>3
    <3> QED
      BY <1>0, <1>3, <2>1, <3>1, <3>2, <3>3, TransitionedType, WriteStep, ZenonT(40) DEF StartTransition
  <2>2. PICK l \in {"started", "failed", "finished"} : pc' = [pc EXCEPT ![p] = l]
    BY <1>3, Zenon DEF StartTransition, AfterError
  <2>3. CASE l # "started"
    BY <1>0, <1>3, <2>2, <2>3, LocalStep, ZenonT(30) DEF StartTransition
  <2> QED
    BY <2>1, <2>2, <2>3, Zenon
<1>7. CASE RestoreWrite(p)
  <2>1. sbx[p] \in Sandbox
    BY <1>7, <1>a, Zenon DEF RestoreWrite, HasCopy
  <2>2. /\ record' \in Sandbox /\ record'.exec = sbx[p].exec
        /\ record'.state \in Removing => record'.state = sbx[p].state /\ record'.end = sbx[p].end
    BY <1>7, <2>1, Zenon DEF RestoreWrite, Sandbox, States, Removing
  <2>3. record'.state \in Removing => record'.end <= now
    BY <2>1, <2>2, NoneAssumption, Zenon DEF CopyInv
  <2> QED
    BY <1>0, <1>7, <2>2, <2>3, WriteStep, Zenon DEF RestoreWrite
<1>11. CASE UpdateWrite(p)
  <2>1. sbx[p] \in Sandbox /\ sbx[p].state = "running"
    BY <1>11, <1>a, Zenon DEF UpdateWrite, HasCopy, CopyInv
  <2>2. record' \in Sandbox /\ record'.exec = sbx[p].exec /\ record'.state \notin Removing
    <3>1. PICK end \in {opts[p].end, sbx[p].end} : record' = [sbx[p] EXCEPT !.end = end]
      BY <1>11, Zenon DEF UpdateWrite
    <3>2. opts[p] \in RemoveOpts
      BY Zenon
    <3> HIDE DEF RecordInv, OwnerInv, TypeInv, TypeOK
    <3>3. end \in Nat
      BY <2>1, <3>2, Zenon DEF Sandbox, RemoveOpts
    <3> QED
      BY <2>1, <3>1, <3>3, ExtendedType, Zenon DEF Removing
  <2> QED
    BY <1>0, <1>11, <2>2, WriteStep, Zenon DEF UpdateWrite
<1> QED
  BY <1>1, <1>2, <1>3, <1>4, <1>5, <1>6, <1>7, <1>8, <1>9, <1>10, <1>11, Zenon DEF StorageStep

(* A step of no process that leaves the record and the clock alone. *)
LEMMA IdleStep ==
  ASSUME RecordInv, OwnerInv', UNCHANGED <<record, indexed, pc, opts, sbx, now>>
  PROVE  RecordInv'
  BY Zenon DEF RecordInv, IndexAgrees, RemovingIsExpired, CopyInv, FreshInv, IsExpired

LEMMA TickRecordInv ==
  ASSUME RecordInv, OwnerInv', Tick
  PROVE  RecordInv'
<1>1. /\ now \in Nat /\ now' = now + 1 /\ UNCHANGED <<record, indexed, pc, opts, sbx>>
      /\ record \in Sandbox \cup {None} /\ sbx \in [Procs -> Sandbox \cup {None}]
  BY LifecycleAssumption DEF Tick, redisVars, localVars, RecordInv, OwnerInv, TypeInv, TypeOK
<1>2. ASSUME NEW s \in Sandbox
      PROVE  (now > s.end => now' > s.end) /\ (s.end <= now => s.end <= now')
  <2>1. s.end \in Nat
    BY Zenon DEF Sandbox
  <2> QED
    BY <1>1, <2>1
<1>3. IndexAgrees' /\ RemovingIsExpired'
  BY <1>1, <1>2, Zenon DEF RecordInv, IndexAgrees, RemovingIsExpired
<1>4. ASSUME NEW p \in Procs PROVE CopyInv(p)'
  <2>1. CopyInv(p) /\ (pc[p] = "start" => sbx[p] # None)
    BY Zenon DEF RecordInv, OwnerInv, TypeInv, HasCopy, HoldsLock
  <2> QED
    BY <1>1, <1>2, <2>1, Zenon DEF CopyInv, IsExpired
<1>5. \A q \in Reqs : FreshInv(q)'
  BY <1>1, Zenon DEF RecordInv, FreshInv
<1> QED
  BY <1>3, <1>4, <1>5, Zenon DEF RecordInv

LEMMA OtherRecordInv ==
  ASSUME RecordInv, OwnerInv',
         \/ \E p \in Procs : Arrive(p) \/ Evict(p) \/ GiveUp(p) \/ LockTimesOut(p) \/ Crash(p)
         \/ \E n \in Nodes : Reconcile(n)
         \/ Expiry \/ Tick
  PROVE  RecordInv'
<1> USE DEF Goto, redisVars, localVars, lifeVars, HoldsLock, NotAdded, Resuming
<1>a. opts \in [Procs -> RemoveOpts] /\ now \in Nat
  BY LifecycleAssumption DEF RecordInv, OwnerInv, TypeInv, TypeOK
<1>1. ASSUME NEW p \in Procs, Arrive(p) PROVE RecordInv'
  <2>1. PICK op \in Ops : /\ pc' = [pc EXCEPT ![p] = Request(op)[1]]
                          /\ opts' = [opts EXCEPT ![p] = Request(op)[2]]
                          /\ op \in {"adminKill", "pinnedKill"} => record # None
    BY <1>1, Zenon DEF Arrive
  <2>2. Request(op)[1] \in {"obtain", "update", "resume"}
    BY <2>1, LifecycleAssumption, Zenon DEF Request, Operations
  <2>3. \A q \in Procs \ {p} : opts'[q] = opts[q]
    BY <1>a, <2>1, Zenon
  <2> QED
    BY <1>1, <2>1, <2>2, <2>3, LocalStep, Zenon DEF Arrive
<1>2. ASSUME NEW p \in Procs, Evict(p) PROVE RecordInv'
  BY <1>a, <1>2, LocalStep, LifecycleAssumption, Zenon DEF Evict
<1>3. ASSUME NEW p \in Procs, GiveUp(p) PROVE RecordInv'
  BY <1>3, GiveUpCases, LocalStep, Zenon DEF GiveUp
<1>4. ASSUME NEW p \in Procs, LockTimesOut(p) PROVE RecordInv'
  BY <1>4, LocalStep, Zenon DEF LockTimesOut
<1>5. ASSUME NEW p \in Procs, Crash(p) PROVE RecordInv'
  BY <1>5, LocalStep, LifecycleAssumption, Zenon DEF Crash
<1>6. ASSUME NEW n \in Nodes, Reconcile(n) PROVE RecordInv'
  BY <1>6, IdleStep, Zenon DEF Reconcile, ReconcileList, ReconcileCheck, BackgroundKill
<1>7. CASE Expiry
  BY <1>7, IdleStep, Zenon DEF Expiry, LockExpires, TransitionLockExpires, TransitionExpires, ResultExpires
<1>8. CASE Tick
  BY <1>8, TickRecordInv, Zenon
<1> QED
  BY <1>1, <1>2, <1>3, <1>4, <1>5, <1>6, <1>7, <1>8, Zenon

LEMMA NextRecordInv == ~Slow /\ RecordInv /\ [Next]_vars => RecordInv'
<1> SUFFICES ASSUME ~Slow, RecordInv, [Next]_vars PROVE RecordInv'
  BY Zenon
<1>1. OwnerInv'
  BY NextOwner, Zenon DEF RecordInv
<1>2. CASE Next
  BY <1>1, <1>2, StorageRecordInv, RemoveRecordInv, ResumeRecordInv, OtherRecordInv, Zenon
     DEF Next, Step
<1>3. CASE UNCHANGED vars
  BY <1>1, <1>3, Zenon
     DEF vars, redisVars, localVars, RecordInv, IndexAgrees, RemovingIsExpired, CopyInv, FreshInv,
         IsExpired
<1> QED
  BY <1>2, <1>3, Zenon

LEMMA InitRecordInv == Init => RecordInv
<1> SUFFICES ASSUME Init PROVE RecordInv
  BY Zenon
<1> USE NoneAssumption, LifecycleAssumption DEF Init
<1>1. OwnerInv
  BY InitOwner, Zenon
<1>2. record # None => record.exec = FirstExec /\ record.state = "running"
  BY Zenon
<1>3. IndexAgrees /\ RemovingIsExpired
  <2>1. [exec |-> FirstExec, node |-> FirstNode, state |-> "running",
         end |-> Timeout, auto |-> FirstAuto] \in Sandbox
    BY Zenon DEF Sandbox, States
  <2> QED
    BY <1>2, <2>1, Zenon DEF IndexAgrees, RemovingIsExpired
<1>4. \A p \in Procs : CopyInv(p)
  BY Zenon DEF CopyInv, HoldsLock
<1>5. \A q \in Reqs : FreshInv(q)
  BY <1>2, Zenon DEF FreshInv
<1> QED
  BY <1>1, <1>3, <1>4, <1>5, Zenon DEF RecordInv

LEMMA RecordInvariant ==
  ASSUME ~Slow
  PROVE  Spec => []RecordInv
<1>1. RecordInv /\ [Next]_vars => RecordInv'
  BY NextRecordInv, Zenon
<1> QED
  BY InitRecordInv, <1>1, PTL DEF Spec

(* When live processes finish within the TTLs of their keys, the team index *)
(* and the record agree for any number of requests, eviction loops, nodes   *)
(* and crashes: no SET of a record read earlier resurrects a removed one.   *)
THEOREM IndexCorrect ==
  ASSUME ~Slow
  PROVE  Spec => []IndexAgrees
<1>1. RecordInv => IndexAgrees
  BY Zenon DEF RecordInv
<1> QED
  BY RecordInvariant, <1>1, PTL

(* Under the same assumption a record that is being removed is expired, so  *)
(* that the eviction loops will find it if its removal is lost.             *)
THEOREM RemovalExpires ==
  ASSUME ~Slow
  PROVE  Spec => []RemovingIsExpired
<1>1. RecordInv => RemovingIsExpired
  BY Zenon DEF RecordInv
<1> QED
  BY RecordInvariant, <1>1, PTL

(* Under the same assumption the eviction loops take down no execution      *)
(* whose stored end time has not passed: the check under the lock holds     *)
(* until the script runs.                                                   *)
THEOREM EvictionSafe ==
  ASSUME ~Slow
  PROVE  Spec => EvictOnlyExpired
<1> DEFINE A == \A p \in Procs : /\ opts[p].op = "evict" /\ pc[p] = "start" /\ pc'[p] = "started"
                                 /\ record # None /\ record.exec = sbx[p].exec
                                 => IsExpired(record)
<1>1. RecordInv => A
  BY Zenon DEF RecordInv, CopyInv, HoldsLock
<1> QED
  BY RecordInvariant, <1>1, PTL DEF EvictOnlyExpired

(* Under the same assumption an execution moves along the AllowedTransitions *)
(* only, although StartRemoving, Update and the restore after a checkpoint   *)
(* all write a record computed from one read earlier.                        *)
THEOREM StatesAllowed ==
  ASSUME ~Slow
  PROVE  Spec => RecordMoves
<1> DEFINE Same == record # None /\ record' # None /\ record'.exec = record.exec
           A == Same /\ record'.state # record.state
                  => record'.state \in AllowedTransitions[record.state]
<1>1. ASSUME RecordInv, Next PROVE A
  <2> USE DEF redisVars, RecordInv, OwnerInv, TypeInv, TypeOK
  <2>1. ASSUME NEW p \in Procs, StartTransition(p) PROVE A
    <3>1. sbx[p] \in Sandbox /\ (record.exec = sbx[p].exec => record = sbx[p])
      BY <1>1, <2>1, Zenon DEF StartTransition, HasCopy, HoldsLock, CopyInv
    <3>2. TargetState[opts[p].action] \in AllowedTransitions[sbx[p].state]
      BY <1>1, <2>1, Zenon DEF StartTransition, CopyInv
    <3> QED
      BY <1>1, <2>1, <3>1, <3>2, TransitionedType, Zenon DEF StartTransition
  <2>2. ASSUME NEW p \in Procs, RestoreWrite(p) PROVE A
    <3>1. /\ sbx[p] \in Sandbox /\ (record.exec = sbx[p].exec => record = sbx[p])
          /\ opts[p].action = "snapshot"
      BY <1>1, <2>2, Zenon DEF RestoreWrite, HasCopy, HoldsLock, CopyInv
    <3>2. /\ record'.exec = sbx[p].exec
          /\ record'.state = sbx[p].state \/ (sbx[p].state = "snapshotting" /\ record'.state = "running")
      BY <1>1, <2>2, <3>1 DEF RestoreWrite, Sandbox, TargetState
    <3>3. "running" \in AllowedTransitions["snapshotting"]
      BY Zenon DEF AllowedTransitions
    <3> QED
      BY <3>1, <3>2, <3>3, Zenon
  <2>3. ASSUME NEW p \in Procs, UpdateWrite(p) PROVE A
    <3>1. sbx[p] \in Sandbox /\ (record.exec = sbx[p].exec => record = sbx[p])
      BY <1>1, <2>3 DEF UpdateWrite, HasCopy, HoldsLock, CopyInv
    <3> QED
      BY <1>1, <2>3, <3>1 DEF UpdateWrite, Sandbox
  <2>4. ASSUME NEW p \in Procs, StoreAdd(p) PROVE A
    <3>1. p \in Reqs /\ pc[p] \in NotAdded /\ pc[p] = "add" /\ record' = sbx[p]
      BY <1>1, <2>4, Zenon DEF StoreAdd, AddRecord, NotAdded, Resuming
    <3> QED
      BY <1>1, <3>1, Zenon DEF FreshInv
  <2>5. ASSUME NEW p \in Procs, StoreRemove(p) PROVE A
    BY <2>5, Zenon DEF StoreRemove, RemoveRecord
  <2>6. ASSUME NEW p \in Procs, StorageStep(p) PROVE A
    BY <2>1, <2>2, <2>3, <2>6, Zenon DEF StorageStep, ObtainForRemoval, CheckTransition, WaitForTransition,
         WaitForStateChange, RestoreRead, FinishResult, FinishDelete, UpdateRead
  <2>7. ASSUME NEW p \in Procs, RemoveStep(p) PROVE A
    BY <2>5, <2>7, Zenon
       DEF RemoveStep, AlreadyDone, NotFound, Unroute, KillOnNode, PauseOnNode, ReleaseReservation,
           CheckpointOnNode, Return
  <2>8. ASSUME NEW p \in Procs, ResumeStep(p) \/ StoreAddFails(p) PROVE A
    BY <2>4, <2>8, Zenon DEF ResumeStep, ResumeGet, ResumeLookup, Reserve, WaitForStart, Place, Rollback,
         AddRoute, FinishStart, StoreAddFails
  <2>9. ASSUME NEW p \in Procs,
               Arrive(p) \/ Evict(p) \/ GiveUp(p) \/ LockTimesOut(p) \/ Crash(p)
        PROVE  A
    BY <2>9, Zenon DEF Arrive, Evict, GiveUp, LockTimesOut, Crash
  <2>10. ASSUME (\E n \in Nodes : Reconcile(n)) \/ Expiry \/ Tick PROVE A
    BY <2>10, Zenon
       DEF Reconcile, ReconcileList, ReconcileCheck, BackgroundKill, Tick, Expiry, LockExpires,
           TransitionLockExpires, TransitionExpires, ResultExpires
  <2> QED
    BY <1>1, <2>6, <2>7, <2>8, <2>9, <2>10, Zenon DEF Next, Step
<1>2. RecordInv /\ [Next]_vars => [A]_vars
  BY <1>1, Zenon
<1> QED
  BY RecordInvariant, <1>2, PTL DEF RecordMoves, Spec

(***************************************************************************)
(* Pauses that are reported as successful, when nothing crashes.           *)
(***************************************************************************)

(* An execution has one VM, on the node its record names, and none before  *)
(* the start that is named after it has placed it.                         *)
Home(s) == \A n \in Nodes : vm[n] = s.exec => n = s.node

Unplaced == NotAdded \ {"add"}

HomeInv(p) ==
  /\ sbx[p] # None => Home(sbx[p])
  /\ p \in Reqs /\ pc[p] \in Unplaced => sbx[p] = None /\ \A n \in Nodes : vm[n] # p

(* Extensions and resumes carry the action they do not use, and only        *)
(* requests kill.                                                           *)
KindInv(p) ==
  /\ pc[p] \in {"update", "updateWrite"} \cup Resuming => opts[p].action = "kill"
  /\ pc[p] # "idle" => (opts[p].op = "evict" <=> p \in Evictors)

(* A process that pauses execution x, before it has removed the record.     *)
Pauses(q, x) == opts[q].action = "pause" /\ sbx[q].exec = x

PauseUnderway(x) == \E q \in Procs : pc[q] \in {"started", "node", "remove"} /\ Pauses(q, x)

(* Whoever sees a sandbox in Pausing sees it while its pause is under way.  *)
SeesPause(p) ==
  /\ pc[p] = "check" /\ sbx[p].state = "pausing" => PauseUnderway(sbx[p].exec)
  /\ pc[p] = "restoreWrite" => sbx[p].state # "pausing"

Resumable == snap # None \/ \E q \in Procs : opts[q].op = "kill" /\ pc[q] \in {"done", "failed"}

Stopped(p) == sbx[p] # None /\ \A n \in Nodes : vm[n] # sbx[p].exec

Paused(p) == Stopped(p) /\ Resumable

(* Who has joined a pause waits for its transition, or for nothing: it is   *)
(* over, and it was successful or has left an error.                        *)
Joined(p) ==
  /\ tid[p] # None /\ sbx[p] # None
  /\ tkey = tid[p] => \E q \in Procs : pc[q] \in OwnsTransition /\ Pauses(q, sbx[p].exec)
  /\ tkey # tid[p] => tid[p] \in failed \/ Paused(p)

OutcomeInv(p) ==
  opts[p].action = "pause" =>
    /\ pc[p] = "join" => Joined(p)
    /\ pc[p] \in {"alreadyDone", "staleRemove", "staleRelease", "done"} => Paused(p)
    /\ pc[p] \in {"remove", "release", "finish", "finishDel", "finished"} /\ cb[p] = "none" => Paused(p)
    /\ pc[p] = "finishDel" /\ cb[p] # "none" => tid[p] \in failed

PauseInv ==
  /\ RecordInv
  /\ record # None => Home(record)
  /\ record # None /\ record.state = "pausing" => PauseUnderway(record.exec)
  /\ \A p \in Procs : HomeInv(p) /\ KindInv(p) /\ SeesPause(p) /\ OutcomeInv(p)

(* Only process p moves. *)
Only(p) ==
  \A q \in Procs \ {p} :
    pc'[q] = pc[q] /\ opts'[q] = opts[q] /\ sbx'[q] = sbx[q] /\ tid'[q] = tid[q] /\ cb'[q] = cb[q]

LEMMA OnlyMoves ==
  ASSUME TypeOK, NEW p \in Procs,
         UNCHANGED pc \/ \E l : pc' = [pc EXCEPT ![p] = l],
         UNCHANGED opts \/ \E o : opts' = [opts EXCEPT ![p] = o],
         UNCHANGED sbx \/ \E s : sbx' = [sbx EXCEPT ![p] = s],
         UNCHANGED tid \/ \E t : tid' = [tid EXCEPT ![p] = t],
         UNCHANGED cb \/ \E e : cb' = [cb EXCEPT ![p] = e]
  PROVE  Only(p)
<1>1. \A q \in Procs \ {p} : pc'[q] = pc[q]
  BY Zenon DEF TypeOK
<1>2. \A q \in Procs \ {p} : opts'[q] = opts[q]
  BY Zenon DEF TypeOK
<1>3. \A q \in Procs \ {p} : sbx'[q] = sbx[q]
  BY Zenon DEF TypeOK
<1>4. \A q \in Procs \ {p} : tid'[q] = tid[q]
  BY Zenon DEF TypeOK
<1>5. \A q \in Procs \ {p} : cb'[q] = cb[q]
  BY Zenon DEF TypeOK
<1> QED
  BY <1>1, <1>2, <1>3, <1>4, <1>5, Zenon DEF Only

LEMMA StepOnly ==
  ASSUME TypeOK, NEW p \in Procs, Step(p) \/ Arrive(p) \/ Evict(p) \/ GiveUp(p)
  PROVE  Only(p)
<1> USE DEF Goto, redisVars, localVars, lifeVars
<1>1. ASSUME StorageStep(p) PROVE Only(p)
  <2>1. CASE ObtainForRemoval(p)
    BY <2>1, OnlyMoves, Zenon DEF ObtainForRemoval
  <2>2. CASE CheckTransition(p)
    BY <2>2, OnlyMoves, Zenon DEF CheckTransition
  <2>3. CASE StartTransition(p)
    BY <2>3, OnlyMoves, Zenon DEF StartTransition
  <2>4. CASE WaitForTransition(p) \/ WaitForStateChange(p)
    BY <2>4, OnlyMoves, Zenon DEF WaitForTransition, WaitForStateChange
  <2>5. CASE RestoreRead(p) \/ RestoreWrite(p)
    BY <2>5, OnlyMoves, Zenon DEF RestoreRead, RestoreWrite
  <2>6. CASE FinishResult(p) \/ FinishDelete(p)
    BY <2>6, OnlyMoves, Zenon DEF FinishResult, FinishDelete
  <2>7. CASE UpdateRead(p) \/ UpdateWrite(p)
    BY <2>7, OnlyMoves, Zenon DEF UpdateRead, UpdateWrite
  <2> QED
    BY <1>1, <2>1, <2>2, <2>3, <2>4, <2>5, <2>6, <2>7, Zenon DEF StorageStep
<1>2. ASSUME RemoveStep(p) PROVE Only(p)
  <2>1. CASE AlreadyDone(p) \/ NotFound(p) \/ Unroute(p)
    BY <2>1, OnlyMoves, Zenon DEF AlreadyDone, NotFound, Unroute
  <2>2. CASE KillOnNode(p) \/ PauseOnNode(p) \/ CheckpointOnNode(p)
    BY <2>2, OnlyMoves, Zenon DEF KillOnNode, PauseOnNode, CheckpointOnNode
  <2>3. CASE StoreRemove(p) \/ ReleaseReservation(p)
    BY <2>3, OnlyMoves, Zenon DEF StoreRemove, ReleaseReservation
  <2>4. CASE Return(p)
    BY <2>4, OnlyMoves, Zenon DEF Return
  <2> QED
    BY <1>2, <2>1, <2>2, <2>3, <2>4, Zenon DEF RemoveStep
<1>3. ASSUME ResumeStep(p) PROVE Only(p)
  <2>1. CASE Place(p)
    BY <2>1, OnlyMoves, Zenon DEF Place
  <2>2. CASE Reserve(p)
    BY <2>2, OnlyMoves, Zenon DEF Reserve
  <2> QED
    BY <1>3, <2>1, <2>2, OnlyMoves, Zenon
       DEF ResumeStep, ResumeGet, ResumeLookup, WaitForStart, Rollback, StoreAdd, AddRoute, FinishStart
<1>4. ASSUME Arrive(p) \/ Evict(p) \/ GiveUp(p) PROVE Only(p)
  BY <1>4, OnlyMoves, Zenon DEF Arrive, Evict, GiveUp
<1> QED
  BY <1>1, <1>2, <1>3, <1>4, Zenon DEF Step

(* A VM appears under the sandbox ID only when a start places it. *)
Places(p) == p \in Reqs /\ pc[p] = "place" /\ \E n \in Nodes : vm' = [vm EXCEPT ![n] = p]

Shrinks == \A n \in Nodes : vm'[n] \in {vm[n], None}

LEMMA StepVMs ==
  ASSUME TypeInv, NEW p \in Procs, Step(p) \/ Arrive(p) \/ Evict(p) \/ GiveUp(p)
  PROVE  Shrinks \/ (Place(p) /\ Places(p))
<1> USE DEF redisVars, localVars, lifeVars
<1>v. vm \in [Nodes -> Execs \cup {None}]
  BY Zenon DEF TypeInv, TypeOK
<1>0. ASSUME UNCHANGED vm PROVE Shrinks
  BY <1>0, Zenon DEF Shrinks
<1>n. ASSUME NEW n, vm' = [vm EXCEPT ![n] = None] PROVE Shrinks
  BY <1>n, <1>v, Zenon DEF Shrinks
<1>1. ASSUME StorageStep(p) PROVE Shrinks
  BY <1>0, <1>1, Zenon DEF StorageStep
<1>2. ASSUME RemoveStep(p) PROVE Shrinks
  <2>1. CASE KillOnNode(p) \/ PauseOnNode(p) \/ CheckpointOnNode(p)
    BY <1>0, <1>n, <2>1, Zenon DEF KillOnNode, PauseOnNode, CheckpointOnNode
  <2> QED
    BY <1>0, <1>2, <2>1, Zenon
       DEF RemoveStep, AlreadyDone, NotFound, Unroute, StoreRemove, ReleaseReservation, Return
<1>3. ASSUME ResumeStep(p) PROVE Shrinks \/ (Place(p) /\ Places(p))
  <2>1. CASE Place(p)
    <3>1. p \in Reqs
      BY <2>1, Zenon DEF Place, TypeInv, Resuming
    <3>2. CASE UNCHANGED vm
      BY <1>0, <3>2
    <3>3. ASSUME NEW n \in Nodes, vm' = [vm EXCEPT ![n] = IF vm[n] = None THEN p ELSE vm[n]]
          PROVE  Shrinks \/ Places(p)
      <4>1. CASE vm[n] = None
        BY <2>1, <3>1, <3>3, <4>1, Zenon DEF Place, Places
      <4>2. CASE vm[n] # None
        BY <1>v, <3>3, <4>2, Zenon DEF Shrinks
      <4> QED
        BY <4>1, <4>2
    <3> QED
      BY <2>1, <3>2, <3>3, Zenon DEF Place
  <2>2. CASE Rollback(p)
    BY <1>n, <2>2, Zenon DEF Rollback
  <2> QED
    BY <1>0, <1>3, <2>1, <2>2, Zenon
       DEF ResumeStep, ResumeGet, ResumeLookup, Reserve, WaitForStart, StoreAdd, AddRoute, FinishStart
<1>4. ASSUME Arrive(p) \/ Evict(p) \/ GiveUp(p) PROVE Shrinks
  BY <1>0, <1>4, Zenon DEF Arrive, Evict, GiveUp
<1> QED
  BY <1>1, <1>2, <1>3, <1>4, Zenon DEF Step

(* A VM that has stopped stays so, and a snapshot stays but for a kill. *)
LEMMA StaysStopped ==
  ASSUME RecordInv, NEW q \in Procs, HomeInv(q), Stopped(q), sbx'[q] = sbx[q],
         Shrinks \/ \E p \in Procs : Places(p)
  PROVE  Stopped(q)'
<1>1. sbx[q] # None /\ \A n \in Nodes : vm[n] # sbx[q].exec
  BY Zenon DEF Stopped
<1>2. sbx[q] \in Sandbox /\ vm \in [Nodes -> Execs \cup {None}]
  BY <1>1, Zenon DEF RecordInv, OwnerInv, TypeInv, TypeOK
<1>3. sbx[q].exec # None
  BY <1>2, NoneAssumption, Zenon DEF Sandbox
<1>4. CASE Shrinks
  BY <1>1, <1>3, <1>4, Zenon DEF Shrinks, Stopped
<1>5. ASSUME NEW p \in Procs, Places(p) PROVE Stopped(q)'
  <2>1. p \in Reqs /\ pc[p] = "place"
    BY <1>5, Zenon DEF Places
  <2>2. p # q
    BY <1>1, <2>1, Zenon DEF HomeInv, Unplaced, NotAdded, Resuming
  <2>3. sbx[q].exec # p
    BY <1>1, <2>1, <2>2, Zenon DEF RecordInv, FreshInv, NotAdded, Resuming
  <2>4. PICK n \in Nodes : vm' = [vm EXCEPT ![n] = p]
    BY <1>5, Zenon DEF Places
  <2>5. \A m \in Nodes : vm'[m] \in {vm[m], p}
    BY <1>2, <2>4, Zenon
  <2> QED
    BY <1>1, <2>3, <2>5, Zenon DEF Stopped
<1> QED
  BY <1>4, <1>5, Zenon

LEMMA StaysResumable ==
  ASSUME TypeInv, TypeInv', NEW p \in Procs, \A q \in Procs : KindInv(q), Resumable,
         Step(p) \/ Arrive(p) \/ Evict(p) \/ GiveUp(p)
  PROVE  Resumable'
<1> USE DEF Goto, redisVars, localVars, lifeVars
<1>t. pc \in [Procs -> PCs] /\ opts \in [Procs -> RemoveOpts] /\ vm \in [Nodes -> Execs \cup {None}]
  BY Zenon DEF TypeInv, TypeOK
<1>o. Only(p)
  BY StepOnly, Zenon DEF TypeInv
<1>1. CASE \E q \in Procs : opts[q].op = "kill" /\ pc[q] \in {"done", "failed"}
  <2>1. PICK q \in Procs : opts[q].op = "kill" /\ pc[q] \in {"done", "failed"}
    BY <1>1, Zenon
  <2>2. ASSUME q = p PROVE FALSE
    <3>1. opts[p].op = "kill" /\ pc[p] \in {"done", "failed"} /\ p \notin Evictors
      BY <2>1, <2>2, Zenon DEF KindInv
    <3>2. ~StorageStep(p)
      BY <3>1, Zenon DEF StorageStep, ObtainForRemoval, CheckTransition, StartTransition, WaitForTransition,
           WaitForStateChange, RestoreRead, RestoreWrite, FinishResult, FinishDelete, UpdateRead, UpdateWrite
    <3>3. ~RemoveStep(p)
      BY <3>1, Zenon DEF RemoveStep, AlreadyDone, NotFound, Unroute, KillOnNode, PauseOnNode, StoreRemove,
           ReleaseReservation, CheckpointOnNode, Return
    <3>4. ~ResumeStep(p)
      BY <3>1, Zenon DEF ResumeStep, ResumeGet, ResumeLookup, Reserve, WaitForStart, Place, Rollback,
           StoreAdd, AddRoute, FinishStart
    <3> QED
      BY <3>1, <3>2, <3>3, <3>4, Zenon DEF Step, Arrive, Evict, GiveUp
  <2> QED
    BY <1>o, <2>1, <2>2, Zenon DEF Only, Resumable
<1>2. CASE snap # None
  <2>0. ASSUME UNCHANGED snap PROVE Resumable'
    BY <1>2, <2>0, Zenon DEF Resumable
  <2>1. CASE NotFound(p)
    <3>1. (opts'[p].op = "kill" /\ pc'[p] = "failed") \/ UNCHANGED snap
      BY <1>t, <2>1, Zenon DEF NotFound
    <3> QED
      BY <2>0, <3>1, Zenon DEF Resumable
  <2>2. CASE Return(p)
    <3>1. (opts'[p].op = "kill" /\ pc'[p] = "done") \/ UNCHANGED snap
      BY <1>t, <2>2, Zenon DEF Return
    <3> QED
      BY <2>0, <3>1, Zenon DEF Resumable
  <2>3. CASE PauseOnNode(p) \/ CheckpointOnNode(p)
    <3>1. UNCHANGED snap \/ snap' # None
      BY <2>3, Zenon DEF PauseOnNode, CheckpointOnNode
    <3> QED
      BY <2>0, <3>1, Zenon DEF Resumable
  <2>4. ASSUME StorageStep(p) PROVE UNCHANGED snap
    BY <2>4, Zenon DEF StorageStep
  <2>5. ASSUME AlreadyDone(p) \/ Unroute(p) \/ KillOnNode(p) \/ StoreRemove(p) \/ ReleaseReservation(p)
        PROVE  UNCHANGED snap
    BY <2>5, Zenon DEF AlreadyDone, Unroute, KillOnNode, StoreRemove, ReleaseReservation
  <2>6. ASSUME ResumeStep(p) PROVE UNCHANGED snap
    BY <2>6, Zenon DEF ResumeStep, ResumeGet, ResumeLookup, Reserve, WaitForStart, Place, Rollback,
         StoreAdd, AddRoute, FinishStart
  <2>7. ASSUME Arrive(p) \/ Evict(p) \/ GiveUp(p) PROVE UNCHANGED snap
    BY <2>7, Zenon DEF Arrive, Evict, GiveUp
  <2> QED
    BY <2>0, <2>1, <2>2, <2>3, <2>4, <2>5, <2>6, <2>7, Zenon DEF Step, RemoveStep
<1> QED
  BY <1>1, <1>2, Zenon DEF Resumable

(* Kinds of processes. *)
LEMMA RequestKinds ==
  ASSUME NEW op \in Ops
  PROVE  /\ Request(op)[2].op # "evict"
         /\ Request(op)[1] # "obtain" => Request(op)[2].action = "kill"
  BY LifecycleAssumption, Zenon DEF Request, Operations, Opts

LEMMA KindStep ==
  ASSUME TypeInv, NEW p \in Procs, \A q \in Procs : KindInv(q),
         Step(p) \/ Arrive(p) \/ Evict(p) \/ GiveUp(p)
  PROVE  \A q \in Procs : KindInv(q)'
<1> USE DEF Goto, redisVars, localVars, lifeVars, Resuming
<1>t. pc \in [Procs -> PCs] /\ opts \in [Procs -> RemoveOpts]
  BY Zenon DEF TypeInv, TypeOK
<1>o. Only(p)
  BY StepOnly, Zenon DEF TypeInv
<1>k. KindInv(p)
  BY Zenon
<1>1. ASSUME StorageStep(p) PROVE KindInv(p)'
  <2>1. UNCHANGED opts /\ pc[p] # "idle"
    BY <1>1, Zenon DEF StorageStep, ObtainForRemoval, CheckTransition, StartTransition, WaitForTransition,
         WaitForStateChange, RestoreRead, RestoreWrite, FinishResult, FinishDelete, UpdateRead, UpdateWrite
  <2>2. pc'[p] \in {"update", "updateWrite"} \cup Resuming =>
          pc[p] \in {"update", "updateWrite"} \cup Resuming
    <3>1. CASE ObtainForRemoval(p)
      BY <1>t, <3>1, Zenon DEF ObtainForRemoval, AfterError
    <3>2. CASE CheckTransition(p)
      BY <1>t, <3>2, AfterCheckCases, Zenon DEF CheckTransition
    <3>3. CASE StartTransition(p)
      BY <1>t, <3>3, Zenon DEF StartTransition, AfterError
    <3>4. CASE WaitForTransition(p)
      BY <1>t, <3>4, Zenon DEF WaitForTransition, AfterWait, AfterError
    <3>5. CASE WaitForStateChange(p) \/ UpdateRead(p) \/ UpdateWrite(p)
      BY <3>5, Zenon DEF WaitForStateChange, UpdateRead, UpdateWrite
    <3>6. CASE RestoreRead(p) \/ RestoreWrite(p) \/ FinishResult(p) \/ FinishDelete(p)
      BY <1>t, <3>6, Zenon DEF RestoreRead, RestoreWrite, FinishResult, FinishDelete
    <3> QED
      BY <1>1, <3>1, <3>2, <3>3, <3>4, <3>5, <3>6, Zenon DEF StorageStep
  <2> QED
    BY <1>k, <2>1, <2>2, Zenon DEF KindInv
<1>2. ASSUME RemoveStep(p) PROVE KindInv(p)'
  <2>1. pc[p] # "idle" /\ opts'[p].op = opts[p].op
    BY <1>2, <1>t, ZenonT(30) DEF RemoveStep, AlreadyDone, NotFound, Unroute, KillOnNode, PauseOnNode,
         StoreRemove,
         ReleaseReservation, CheckpointOnNode, Return, RemoveOpts
  <2>2. pc'[p] \notin {"update", "updateWrite"} \cup Resuming
    BY <1>2, <1>t, Zenon DEF RemoveStep, AlreadyDone, NotFound, Unroute, KillOnNode, PauseOnNode, StoreRemove,
         ReleaseReservation, CheckpointOnNode, Return
  <2> QED
    BY <1>k, <2>1, <2>2, Zenon DEF KindInv
<1>3. ASSUME ResumeStep(p) PROVE KindInv(p)'
  <2>1. UNCHANGED opts /\ pc[p] \in Resuming
    BY <1>3, Zenon DEF ResumeStep, ResumeGet, ResumeLookup, Reserve, WaitForStart, Place, Rollback,
         StoreAdd, AddRoute, FinishStart
  <2> QED
    BY <1>k, <2>1, Zenon DEF KindInv
<1>4. ASSUME Arrive(p) PROVE KindInv(p)'
  <2>1. PICK op \in Ops : pc'[p] = Request(op)[1] /\ opts'[p] = Request(op)[2]
    BY <1>4, <1>t, Zenon DEF Arrive
  <2>2. p \notin Evictors
    BY <1>4, LifecycleAssumption, Zenon DEF Arrive
  <2> QED
    BY <2>1, <2>2, RequestKinds, RequestCases, Zenon DEF KindInv
<1>5. ASSUME Evict(p) PROVE KindInv(p)'
  BY <1>5, <1>t, Zenon DEF Evict, KindInv, Opts
<1>6. ASSUME GiveUp(p) PROVE KindInv(p)'
  BY <1>6, <1>t, <1>k, GiveUpCases, Zenon DEF GiveUp, KindInv
<1>7. KindInv(p)'
  BY <1>1, <1>2, <1>3, <1>4, <1>5, <1>6, Zenon DEF Step
<1>8. ASSUME NEW q \in Procs \ {p} PROVE KindInv(q)'
  <2>1. KindInv(q) /\ pc'[q] = pc[q] /\ opts'[q] = opts[q]
    BY <1>o, Zenon DEF Only
  <2> QED
    BY <2>1, Zenon DEF KindInv
<1> QED
  BY <1>7, <1>8, Zenon

(* Where the VMs are. *)
Homes == (record # None => Home(record)) /\ \A p \in Procs : HomeInv(p)

Same(s, t) == s.exec = t.exec /\ s.node = t.node

LEMMA ShrinksHome ==
  ASSUME NEW s \in Sandbox, NEW t, Home(s), Same(t, s), Shrinks
  PROVE  Home(t)'
<1>1. s.exec # None
  BY NoneAssumption, Zenon DEF Sandbox
<1> QED
  BY <1>1, Zenon DEF Home, Same, Shrinks

LEMMA HomeStep ==
  ASSUME TypeInv, Homes, NEW p \in Procs, Only(p), Shrinks,
         sbx'[p] # None => \/ sbx[p] # None /\ Same(sbx'[p], sbx[p])
                           \/ record # None /\ Same(sbx'[p], record),
         record' # None => \/ record # None /\ Same(record', record)
                           \/ sbx[p] # None /\ Same(record', sbx[p]),
         pc'[p] \in Unplaced /\ p \in Reqs => pc[p] \in Unplaced /\ sbx'[p] = sbx[p]
  PROVE  Homes'
<1>t. record \in Sandbox \cup {None} /\ sbx \in [Procs -> Sandbox \cup {None}]
  BY Zenon DEF TypeInv, TypeOK
<1>r. record # None => record \in Sandbox /\ Home(record)
  BY <1>t, Zenon DEF Homes
<1>s. \A q \in Procs : sbx[q] # None => sbx[q] \in Sandbox /\ Home(sbx[q])
  BY <1>t, Zenon DEF Homes, HomeInv
<1>1. ASSUME record' # None PROVE Home(record)'
  BY <1>r, <1>s, <1>1, ShrinksHome, Zenon
<1>2. ASSUME sbx'[p] # None PROVE Home(sbx[p])'
  BY <1>r, <1>s, <1>2, ShrinksHome, Zenon
<1>3. ASSUME NEW q \in Procs \ {p}, sbx'[q] # None PROVE Home(sbx[q])'
  <2>1. sbx'[q] = sbx[q] /\ Same(sbx'[q], sbx[q])
    BY Zenon DEF Only, Same
  <2> QED
    BY <1>s, <1>3, <2>1, ShrinksHome, Zenon
<1>4. ASSUME NEW q \in Procs, q \in Reqs, pc'[q] \in Unplaced
      PROVE  sbx'[q] = None /\ \A n \in Nodes : vm'[n] # q
  <2>1. pc[q] \in Unplaced /\ sbx'[q] = sbx[q]
    BY <1>4, Zenon DEF Only
  <2>2. sbx[q] = None /\ \A n \in Nodes : vm[n] # q
    BY <1>4, <2>1, Zenon DEF Homes, HomeInv
  <2>3. q # None
    BY NoneAssumption, Zenon
  <2> QED
    BY <2>1, <2>2, <2>3, Zenon DEF Shrinks
<1> QED
  BY <1>1, <1>2, <1>3, <1>4, Zenon DEF Homes, HomeInv

LEMMA WrittenSame ==
  ASSUME NEW s \in Sandbox
  PROVE  /\ \A x : Same([s EXCEPT !.state = x], s)
         /\ \A x : Same([s EXCEPT !.end = x], s)
  BY Zenon DEF Sandbox, Same

LEMMA TransitionedSame ==
  ASSUME NEW p \in Procs, sbx[p] \in Sandbox
  PROVE  Same(Transitioned(p), sbx[p])
  BY Zenon DEF Transitioned, Sandbox, Same

(* The VM of a start is where its record says, or runs beside another. *)
LEMMA PlaceHomes ==
  ASSUME RecordInv, Homes, NEW p \in Procs, Only(p), Place(p)
  PROVE  Homes'
<1>t. /\ vm \in [Nodes -> Execs \cup {None}] /\ sbx \in [Procs -> Sandbox \cup {None}]
      /\ pc \in [Procs -> PCs]
  BY Zenon DEF RecordInv, OwnerInv, TypeInv, TypeOK
<1>0. p \in Reqs /\ pc[p] = "place" /\ pc[p] \in NotAdded /\ pc[p] \in Unplaced
  BY Zenon DEF Place, RecordInv, OwnerInv, TypeInv, NotAdded, Unplaced, Resuming
<1>3. sbx[p] = None /\ \A m \in Nodes : vm[m] # p
  BY <1>0, Zenon DEF Homes, HomeInv
<1>2. PICK n \in Nodes :
        /\ \A m \in Nodes \ {n} : vm'[m] = vm[m]
        /\ vm'[n] \in {p, vm[n]}
        /\ sbx'[p] # None => sbx'[p].exec = p /\ sbx'[p].node = n
  <2>1. CASE UNCHANGED <<vm, sbx>>
    BY <1>3, <2>1, LifecycleAssumption, Zenon
  <2>2. ASSUME NEW n \in Nodes, vm' = [vm EXCEPT ![n] = IF vm[n] = None THEN p ELSE vm[n]]
        PROVE  (\A m \in Nodes \ {n} : vm'[m] = vm[m]) /\ vm'[n] \in {p, vm[n]}
    BY <1>t, <2>2, Zenon
  <2>3. ASSUME NEW n, NEW auto,
               \/ sbx' = [sbx EXCEPT ![p] = [exec |-> p, node |-> n, state |-> "running",
                                             end |-> now + Timeout, auto |-> auto]]
               \/ UNCHANGED sbx
        PROVE  sbx'[p] # None => sbx'[p].exec = p /\ sbx'[p].node = n
    BY <1>3, <1>t, <2>3
  <2>4. CASE \E n \in Nodes, auto \in BOOLEAN :
          /\ vm' = [vm EXCEPT ![n] = IF vm[n] = None THEN p ELSE vm[n]]
          /\ \/ sbx' = [sbx EXCEPT ![p] = [exec |-> p, node |-> n, state |-> "running",
                                           end |-> now + Timeout, auto |-> auto]]
             \/ UNCHANGED sbx
    <3>1. PICK n \in Nodes, auto \in BOOLEAN :
            /\ vm' = [vm EXCEPT ![n] = IF vm[n] = None THEN p ELSE vm[n]]
            /\ \/ sbx' = [sbx EXCEPT ![p] = [exec |-> p, node |-> n, state |-> "running",
                                             end |-> now + Timeout, auto |-> auto]]
               \/ UNCHANGED sbx
      BY <2>4, Zenon
    <3>2. (\A m \in Nodes \ {n} : vm'[m] = vm[m]) /\ vm'[n] \in {p, vm[n]}
      BY <3>1, <2>2, Zenon
    <3>3. sbx'[p] # None => sbx'[p].exec = p /\ sbx'[p].node = n
      BY <3>1, <2>3, Zenon
    <3> QED
      BY <3>2, <3>3, Zenon
  <2> QED
    BY <2>1, <2>4, Zenon DEF Place
<1>4. /\ record # None => record.exec # p
      /\ \A q \in Procs \ {p} : sbx[q] # None => sbx[q].exec # p
  BY <1>0, Zenon DEF RecordInv, FreshInv
<1>5. ASSUME NEW s, Home(s), s.exec # p PROVE \A m \in Nodes : vm'[m] = s.exec => m = s.node
  BY <1>2, <1>5, Zenon DEF Home
<1>6. ASSUME record' # None PROVE Home(record)'
  <2>1. record' = record
    BY Zenon DEF Place, redisVars
  <2> QED
    BY <1>4, <1>5, <1>6, <2>1, Zenon DEF Homes, Home
<1>7. ASSUME NEW q \in Procs \ {p} PROVE HomeInv(q)'
  <2>1. HomeInv(q) /\ pc'[q] = pc[q] /\ sbx'[q] = sbx[q]
    BY Zenon DEF Homes, Only
  <2>2. sbx'[q] # None => Home(sbx[q])'
    BY <1>4, <1>5, <2>1, Zenon DEF HomeInv, Home
  <2>3. q \in Reqs /\ pc'[q] \in Unplaced => sbx'[q] = None /\ \A m \in Nodes : vm'[m] # q
    BY <1>2, <2>1, Zenon DEF HomeInv
  <2> QED
    BY <2>2, <2>3, Zenon DEF HomeInv
<1>8. HomeInv(p)'
  <2>1. pc'[p] \in {"add", "finishStart"}
    BY <1>t, Zenon DEF Place, Goto
  <2>2. pc'[p] \notin Unplaced
    BY <2>1, Zenon DEF Unplaced, NotAdded, Resuming
  <2>3. sbx'[p] # None => Home(sbx[p])'
    BY <1>2, <1>3, Zenon DEF Home
  <2> QED
    BY <2>2, <2>3, Zenon DEF HomeInv
<1> QED
  BY <1>6, <1>7, <1>8, Zenon DEF Homes

LEMMA StepHomes ==
  ASSUME RecordInv, Homes, NEW p \in Procs, Step(p) \/ Arrive(p) \/ Evict(p) \/ GiveUp(p)
  PROVE  Homes'
<1> USE DEF Goto, redisVars, localVars, lifeVars
<1>i. TypeInv
  BY Zenon DEF RecordInv, OwnerInv
<1>t. pc \in [Procs -> PCs] /\ sbx \in [Procs -> Sandbox \cup {None}]
  BY <1>i, Zenon DEF TypeInv, TypeOK
<1>o. Only(p)
  BY <1>i, StepOnly, Zenon DEF TypeInv
<1>p. CASE Place(p)
  BY <1>o, <1>p, PlaceHomes, Zenon
<1> SUFFICES ASSUME Shrinks PROVE Homes'
  BY <1>i, <1>p, StepVMs, Zenon
<1>r. \A s : Same(s, s)
  BY Zenon DEF Same
<1>0. ASSUME UNCHANGED <<record, sbx>>, pc'[p] \in Unplaced /\ p \in Reqs => pc[p] \in Unplaced
      PROVE  Homes'
  BY <1>0, <1>i, <1>o, <1>r, HomeStep, Zenon
<1>u. Unplaced = {"idle", "resume", "waitForStateChange", "wait", "waited", "reserve", "waitForStart", "place"}
  BY Zenon DEF Unplaced, NotAdded, Resuming
<1>c. pc[p] \in HasCopy => sbx[p] # None /\ sbx[p] \in Sandbox
  BY <1>i, <1>t, Zenon DEF TypeInv
<1>1. CASE ObtainForRemoval(p)
  <2>1. sbx'[p] = sbx[p] \/ (record # None /\ sbx'[p] = record)
    BY <1>1, <1>t, Zenon DEF ObtainForRemoval
  <2>2. pc'[p] \notin Unplaced /\ record' = record
    BY <1>1, <1>t, <1>u, Zenon DEF ObtainForRemoval, AfterError
  <2> QED
    BY <1>i, <1>o, <1>r, <2>1, <2>2, HomeStep, Zenon
<1>2. CASE CheckTransition(p)
  <2>1. pc'[p] \notin Unplaced
    BY <1>2, <1>t, <1>u, AfterCheckCases, Zenon DEF CheckTransition
  <2> QED
    BY <1>0, <1>2, <2>1, Zenon DEF CheckTransition
<1>3. CASE StartTransition(p)
  <2>1. pc'[p] \notin Unplaced
    BY <1>3, <1>t, <1>u, Zenon DEF StartTransition, AfterError
  <2>2. sbx[p] # None /\ Same(Transitioned(p), sbx[p])
    BY <1>3, <1>c, TransitionedSame, Zenon DEF StartTransition, HasCopy, HoldsLock
  <2>3. /\ sbx'[p] = sbx[p] \/ sbx'[p] = Transitioned(p)
        /\ record' = record \/ record' = Transitioned(p)
    BY <1>3, <1>t, Zenon DEF StartTransition
  <2> QED
    BY <1>i, <1>o, <1>r, <2>1, <2>2, <2>3, HomeStep, Zenon
<1>4. CASE WaitForTransition(p) \/ WaitForStateChange(p)
  <2>1. pc'[p] \in Unplaced => pc[p] \in Unplaced
    BY <1>4, <1>t, <1>u, Zenon DEF WaitForTransition, WaitForStateChange, AfterWait, AfterError
  <2> QED
    BY <1>0, <1>4, <2>1, Zenon DEF WaitForTransition, WaitForStateChange
<1>5. CASE RestoreRead(p) \/ UpdateRead(p)
  <2>1. sbx'[p] = sbx[p] \/ (record # None /\ sbx'[p] = record)
    BY <1>5, <1>t, Zenon DEF RestoreRead, UpdateRead
  <2>2. pc'[p] \notin Unplaced /\ record' = record
    BY <1>5, <1>t, <1>u, Zenon DEF RestoreRead, UpdateRead
  <2> QED
    BY <1>i, <1>o, <1>r, <2>1, <2>2, HomeStep, Zenon
<1>6. CASE RestoreWrite(p) \/ UpdateWrite(p)
  <2>1. sbx[p] # None /\ sbx[p] \in Sandbox
    BY <1>6, <1>c, Zenon DEF RestoreWrite, UpdateWrite, HasCopy, HoldsLock
  <2>2. Same(record', sbx[p])
    <3>1. \/ \E x : record' = [sbx[p] EXCEPT !.state = x]
          \/ \E x : record' = [sbx[p] EXCEPT !.end = x]
          \/ record' = sbx[p]
      BY <1>6, Zenon DEF RestoreWrite, UpdateWrite
    <3> QED
      BY <1>r, <2>1, <3>1, WrittenSame, Zenon
  <2>3. pc'[p] \notin Unplaced /\ sbx' = sbx
    BY <1>6, <1>t, <1>u, Zenon DEF RestoreWrite, UpdateWrite
  <2> QED
    BY <1>i, <1>o, <1>r, <2>1, <2>2, <2>3, HomeStep, Zenon
<1>7. CASE FinishResult(p) \/ FinishDelete(p)
  BY <1>0, <1>7, <1>t, <1>u, Zenon DEF FinishResult, FinishDelete
<1>8. CASE RemoveStep(p)
  <2>1. pc'[p] \notin Unplaced
    BY <1>8, <1>t, <1>u, Zenon DEF RemoveStep, AlreadyDone, NotFound, Unroute, KillOnNode, PauseOnNode,
         StoreRemove,
         ReleaseReservation, CheckpointOnNode, Return
  <2>2. sbx' = sbx /\ (record' = record \/ record' = None)
    BY <1>8, Zenon DEF RemoveStep, AlreadyDone, NotFound, Unroute, KillOnNode, PauseOnNode,
         StoreRemove, RemoveRecord,
         ReleaseReservation, CheckpointOnNode, Return
  <2> QED
    BY <1>i, <1>o, <1>r, <2>1, <2>2, HomeStep, Zenon
<1>9. CASE StoreAdd(p)
  <2>1. record' = sbx[p] /\ sbx' = sbx /\ pc'[p] \notin Unplaced
    BY <1>9, <1>t, <1>u, Zenon DEF StoreAdd, AddRecord
  <2> QED
    BY <1>i, <1>o, <1>r, <2>1, HomeStep, Zenon
<1>11. CASE ResumeStep(p) /\ ~StoreAdd(p) /\ ~Place(p)
  <2>1. UNCHANGED <<record, sbx>> /\ pc[p] \in Resuming
    BY <1>11, Zenon DEF ResumeStep, ResumeGet, ResumeLookup, Reserve, WaitForStart, Rollback,
         AddRoute, FinishStart, Resuming
  <2>2. pc'[p] \in Unplaced => pc[p] \in Unplaced
    BY <1>11, <1>t, <1>u, Zenon DEF ResumeStep, ResumeGet, ResumeLookup, Reserve, WaitForStart, Rollback,
         AddRoute, FinishStart
  <2> QED
    BY <1>0, <2>1, <2>2, Zenon
<1>12. CASE Arrive(p)
  BY <1>0, <1>12, <1>u, Zenon DEF Arrive
<1>13. CASE Evict(p)
  BY <1>0, <1>13, <1>t, <1>u, Zenon DEF Evict
<1>14. CASE GiveUp(p)
  BY <1>0, <1>14, <1>t, <1>u, GiveUpCases, Zenon DEF GiveUp
<1> QED
  BY <1>1, <1>2, <1>3, <1>4, <1>5, <1>6, <1>7, <1>8, <1>9, <1>p, <1>11, <1>12, <1>13, <1>14, Zenon
     DEF Step, StorageStep

(* Who sees a pause.  A step that leaves the pauses under way as they are. *)
Sees == /\ record # None /\ record.state = "pausing" => PauseUnderway(record.exec)
        /\ \A p \in Procs : SeesPause(p)

LEMMA SeesStep ==
  ASSUME Sees, NEW p \in Procs, Only(p),
         pc[p] \in {"started", "node", "remove"} /\ opts[p].action = "pause" =>
           pc'[p] \in {"started", "node", "remove"} /\ opts'[p] = opts[p] /\ sbx'[p] = sbx[p],
         record' # None => record' = record \/ record'.state # "pausing",
         pc'[p] = "check" => record # None /\ sbx'[p] = record,
         pc'[p] = "restoreWrite" => sbx'[p].state # "pausing"
  PROVE  Sees'
<1>1. ASSUME NEW x, PauseUnderway(x) PROVE PauseUnderway(x)'
  <2>1. PICK q \in Procs : pc[q] \in {"started", "node", "remove"} /\ Pauses(q, x)
    BY <1>1, Zenon DEF PauseUnderway
  <2>2. pc'[q] \in {"started", "node", "remove"} /\ opts'[q] = opts[q] /\ sbx'[q] = sbx[q]
    BY <2>1, Zenon DEF Only, Pauses
  <2>3. Pauses(q, x)'
    BY <2>1, <2>2, Zenon DEF Pauses
  <2> QED
    BY <2>2, <2>3, Zenon DEF PauseUnderway
<1>2. ASSUME record' # None, record'.state = "pausing" PROVE PauseUnderway(record.exec)'
  <2>1. record' = record /\ PauseUnderway(record.exec)
    BY <1>2, Zenon DEF Sees
  <2> QED
    BY <1>1, <2>1, Zenon DEF PauseUnderway
<1>3. SeesPause(p)'
  <2>1. ASSUME pc'[p] = "check", sbx'[p].state = "pausing" PROVE PauseUnderway(sbx[p].exec)'
    <3>1. sbx'[p] = record /\ PauseUnderway(record.exec)
      BY <2>1, Zenon DEF Sees
    <3> QED
      BY <1>1, <3>1, Zenon DEF PauseUnderway
  <2> QED
    BY <2>1, Zenon DEF SeesPause
<1>4. ASSUME NEW q \in Procs \ {p} PROVE SeesPause(q)'
  <2>1. SeesPause(q) /\ pc'[q] = pc[q] /\ sbx'[q] = sbx[q]
    BY Zenon DEF Sees, Only
  <2>2. ASSUME pc'[q] = "check", sbx'[q].state = "pausing" PROVE PauseUnderway(sbx[q].exec)'
    <3>1. PauseUnderway(sbx[q].exec)
      BY <2>1, <2>2, Zenon DEF SeesPause
    <3> QED
      BY <1>1, <2>1, <3>1, Zenon DEF PauseUnderway
  <2> QED
    BY <2>1, <2>2, Zenon DEF SeesPause
<1> QED
  BY <1>2, <1>3, <1>4, Zenon DEF Sees

LEMMA StepSees ==
  ASSUME RecordInv, TypeInv', Sees, NEW p \in Procs, Step(p) \/ Arrive(p) \/ Evict(p) \/ GiveUp(p)
  PROVE  Sees'
<1> USE DEF Goto, redisVars, localVars, lifeVars
<1>i. TypeInv /\ SingleOwner /\ CopyInv(p) /\ TypeOK
  BY Zenon DEF RecordInv, OwnerInv, TypeInv
<1>t. pc \in [Procs -> PCs] /\ sbx \in [Procs -> Sandbox \cup {None}] /\ opts \in [Procs -> RemoveOpts]
  BY <1>i, Zenon DEF TypeOK
<1>o. Only(p)
  BY <1>i, StepOnly, Zenon
<1>l. \A q \in Procs : pc[q] = "check" => lock = q /\ lock # None
  BY NoneAssumption, Zenon DEF RecordInv, OwnerInv, HoldsLock
<1>0. ASSUME pc[p] \notin {"started", "node", "remove"},
             record' # None => record' = record \/ record'.state # "pausing",
             pc'[p] \notin {"check", "restoreWrite"}
      PROVE  Sees'
  BY <1>0, <1>o, SeesStep, Zenon
<1>1. CASE ObtainForRemoval(p)
  <2>1. pc'[p] = "check" => record # None /\ sbx'[p] = record
    BY <1>1, <1>t, Zenon DEF ObtainForRemoval, AfterError
  <2>2. record' = record /\ pc[p] = "obtain" /\ pc'[p] # "restoreWrite"
    BY <1>1, <1>t, Zenon DEF ObtainForRemoval, AfterError
  <2> QED
    BY <1>o, <2>1, <2>2, SeesStep, Zenon
<1>2. CASE CheckTransition(p)
  <2>1. pc'[p] \notin {"check", "restoreWrite"} /\ record' = record /\ pc[p] = "check"
    BY <1>2, <1>t, AfterCheckCases, Zenon DEF CheckTransition
  <2> QED
    BY <1>0, <2>1, Zenon
<1>3. CASE StartTransition(p)
  <2>0. pc[p] = "start" /\ lock = p
    BY <1>3, Zenon DEF StartTransition, RecordInv, OwnerInv, HoldsLock
  <2>1. CASE pc'[p] = "started"
    <3>1. sbx[p] # None /\ sbx[p] \in Sandbox
      BY <1>i, <1>t, <2>0, Zenon DEF TypeInv, HasCopy, HoldsLock
    <3>2. record' = Transitioned(p) /\ sbx'[p] = Transitioned(p) /\ opts' = opts
      BY <1>3, <1>t, <2>1, Zenon DEF StartTransition, AfterError
    <3>3. record'.state = TargetState[opts[p].action] /\ opts[p].action \in Actions
      BY <1>i, <1>t, <3>1, <3>2, TransitionedType, Zenon DEF RemoveOpts
    <3>4. record'.state = "pausing" => opts[p].action = "pause"
      BY <3>3 DEF Actions, TargetState
    <3>5. record'.state = "pausing" => PauseUnderway(record.exec)'
      BY <2>1, <3>2, <3>4, Zenon DEF PauseUnderway, Pauses
    <3>6. ASSUME NEW q \in Procs PROVE SeesPause(q)'
      <4>1. pc'[q] # "check"
        BY <1>l, <1>o, <2>0, <2>1, Zenon DEF Only
      <4>2. pc'[q] # "restoreWrite"
        BY <1>o, <2>0, <2>1, Zenon DEF Only, RecordInv, OwnerInv, HoldsLock
      <4> QED
        BY <4>1, <4>2, Zenon DEF SeesPause
    <3> QED
      BY <3>5, <3>6, Zenon DEF Sees
  <2>2. CASE pc'[p] # "started"
    <3>1. record' = record /\ pc'[p] \in {"failed", "finished"}
      BY <1>3, <1>t, <2>2, Zenon DEF StartTransition, AfterError
    <3> QED
      BY <1>0, <2>0, <3>1, Zenon
  <2> QED
    BY <2>1, <2>2, Zenon
<1>4. CASE WaitForTransition(p) \/ WaitForStateChange(p)
  <2>1. /\ pc'[p] \notin {"check", "restoreWrite"} /\ record' = record
        /\ pc[p] \in {"join", "retry", "wait", "waitForStateChange"}
    BY <1>4, <1>t, Zenon DEF WaitForTransition, WaitForStateChange, AfterWait, AfterError
  <2> QED
    BY <1>0, <2>1, Zenon
<1>5. CASE RestoreRead(p)
  <2>1. /\ pc[p] = "restore" /\ record' = record /\ pc'[p] # "check"
        /\ pc'[p] = "restoreWrite" => record # None /\ sbx'[p] = record
    BY <1>5, <1>t, Zenon DEF RestoreRead
  <2>2. ASSUME record # None, record.state = "pausing" PROVE FALSE
    <3>1. PICK q \in Procs : pc[q] \in {"started", "node", "remove"}
      BY <2>2, Zenon DEF Sees, PauseUnderway
    <3> QED
      BY <1>i, <2>1, <3>1, Zenon DEF SingleOwner, OwnsTransition
  <2> QED
    BY <1>o, <2>1, <2>2, SeesStep, Zenon
<1>6. CASE RestoreWrite(p)
  <2>1. sbx[p] # None /\ sbx[p] \in Sandbox /\ sbx[p].state # "pausing" /\ pc[p] = "restoreWrite"
    BY <1>6, <1>i, <1>t, Zenon DEF RestoreWrite, TypeInv, HasCopy, HoldsLock, Sees, SeesPause
  <2>2. record'.state # "pausing"
    BY <1>6, <2>1, Zenon DEF RestoreWrite, Sandbox
  <2>3. pc'[p] = "finish"
    BY <1>6, <1>t, Zenon DEF RestoreWrite
  <2> QED
    BY <1>0, <2>1, <2>2, <2>3, Zenon
<1>7. CASE FinishResult(p) \/ FinishDelete(p)
  BY <1>0, <1>7, <1>t, Zenon DEF FinishResult, FinishDelete
<1>8. CASE UpdateRead(p)
  BY <1>0, <1>8, <1>t, Zenon DEF UpdateRead
<1>9. CASE UpdateWrite(p)
  <2>1. sbx[p] # None /\ sbx[p] \in Sandbox /\ sbx[p].state = "running" /\ pc[p] = "updateWrite"
    BY <1>9, <1>i, <1>t, Zenon DEF UpdateWrite, TypeInv, HasCopy, HoldsLock, CopyInv
  <2>2. record'.state # "pausing"
    BY <1>9, <2>1, Zenon DEF UpdateWrite, Sandbox
  <2>3. pc'[p] = "done"
    BY <1>9, <1>t, Zenon DEF UpdateWrite
  <2> QED
    BY <1>0, <2>1, <2>2, <2>3, Zenon
<1>10. CASE StoreRemove(p)
  <2>1. record' = None /\ lock = None /\ pc'[p] \in {"release", "staleRelease"} /\ sbx' = sbx
    BY <1>10, <1>t, Zenon DEF StoreRemove, RemoveRecord
  <2>2. ASSUME NEW q \in Procs PROVE SeesPause(q)'
    <3>1. pc'[q] # "check"
      BY <1>l, <1>o, <2>1, Zenon DEF Only
    <3>2. pc'[q] = "restoreWrite" => pc[q] = "restoreWrite"
      BY <1>o, <2>1, Zenon DEF Only
    <3> QED
      BY <2>1, <3>1, <3>2, Zenon DEF SeesPause, Sees
  <2> QED
    BY <2>1, <2>2, Zenon DEF Sees
<1>11. CASE Unroute(p) \/ PauseOnNode(p)
  <2>1. /\ pc'[p] \in {"node", "remove"}
        /\ UNCHANGED <<opts, sbx, record>>
    BY <1>11, <1>t, Zenon DEF Unroute, PauseOnNode
  <2> QED
    BY <1>o, <2>1, SeesStep, Zenon
<1>12. CASE KillOnNode(p) \/ CheckpointOnNode(p)
  <2>1. opts[p].action # "pause" /\ record' = record /\ pc'[p] \in {"remove", "restore", "finish"}
    BY <1>12, <1>t, Zenon DEF KillOnNode, CheckpointOnNode
  <2> QED
    BY <1>o, <2>1, SeesStep, Zenon
<1>13. CASE AlreadyDone(p) \/ NotFound(p) \/ ReleaseReservation(p) \/ Return(p)
  <2>1. /\ pc[p] \in {"alreadyDone", "notFound", "release", "staleRelease", "finished"} /\ record' = record
        /\ pc'[p] \in {"failed", "staleRemove", "finished", "finish", "obtain", "done"}
    BY <1>13, <1>t, Zenon DEF AlreadyDone, NotFound, ReleaseReservation, Return
  <2> QED
    BY <1>0, <2>1, Zenon
<1>14. CASE StoreAdd(p)
  <2>1. record' = sbx[p] /\ pc[p] = "add" /\ pc'[p] = "route"
    BY <1>14, <1>t, Zenon DEF StoreAdd, AddRecord
  <2> QED
    BY <1>0, <1>i, <2>1, Zenon DEF CopyInv
<1>15. CASE ResumeStep(p) /\ ~StoreAdd(p)
  <2>1. record' = record /\ pc[p] \in Resuming /\ pc'[p] \notin {"check", "restoreWrite"}
    BY <1>15, <1>t, Zenon DEF ResumeStep, ResumeGet, ResumeLookup, Reserve, WaitForStart, Place, Rollback,
         AddRoute, FinishStart, Resuming
  <2> QED
    BY <1>0, <2>1, Zenon DEF Resuming
<1>16. CASE Arrive(p)
  <2>1. record' = record /\ pc[p] = "idle" /\ pc'[p] \in {"obtain", "update", "resume"}
    BY <1>16, <1>t, RequestCases, Zenon DEF Arrive
  <2> QED
    BY <1>0, <2>1, Zenon
<1>17. CASE Evict(p) \/ GiveUp(p)
  <2>1. pc'[p] \in {"obtain", "failed", "finished"} /\ record' = record
    BY <1>17, <1>t, GiveUpCases, Zenon DEF Evict, GiveUp
  <2> QED
    BY <1>0, <1>17, <2>1, Zenon DEF Evict, GiveUp
<1> QED
  BY <1>1, <1>2, <1>3, <1>4, <1>5, <1>6, <1>7, <1>8, <1>9, <1>10, <1>11, <1>12, <1>13, <1>14, <1>15,
     <1>16, <1>17, Zenon DEF Step, StorageStep, RemoveStep

(* What a step of p leaves to the others of their pauses. *)
KeepsPaused == \A q \in Procs : sbx'[q] = sbx[q] /\ Paused(q) => Paused(q)'

KeepsFailed(p) == \A t \in failed : t \in failed' \/ (t = tid[p] /\ pc[p] \in OwnsTransition)

KeepsOwner(p) ==
  pc[p] \in OwnsTransition /\ opts[p].action = "pause" =>
    pc'[p] \in OwnsTransition /\ opts'[p] = opts[p] /\ sbx'[p] = sbx[p]

LEMMA StepPaused ==
  ASSUME RecordInv, TypeInv', NEW p \in Procs, \A q \in Procs : HomeInv(q) /\ KindInv(q),
         Step(p) \/ Arrive(p) \/ Evict(p) \/ GiveUp(p)
  PROVE  KeepsPaused
<1>1. TypeInv
  BY Zenon DEF RecordInv, OwnerInv
<1>2. Shrinks \/ \E q \in Procs : Places(q)
  BY <1>1, StepVMs, Zenon
<1>3. Resumable => Resumable'
  BY <1>1, StaysResumable, Zenon
<1> QED
  BY <1>2, <1>3, StaysStopped, Zenon DEF KeepsPaused, Paused

LEMMA JoinedKept ==
  ASSUME SingleOwner, NEW p \in Procs, Only(p), KeepsPaused, KeepsFailed(p), KeepsOwner(p),
         tkey' = tkey, NEW q \in Procs \ {p}, Joined(q)
  PROVE  Joined(q)'
<1>1. sbx'[q] = sbx[q] /\ tid'[q] = tid[q] /\ tid[q] # None /\ sbx[q] # None
  BY Zenon DEF Only, Joined
<1>2. ASSUME tkey = tid[q]
      PROVE  \E o \in Procs : (pc[o] \in OwnsTransition)' /\ Pauses(o, sbx[q].exec)'
  <2>1. PICK o \in Procs : pc[o] \in OwnsTransition /\ Pauses(o, sbx[q].exec)
    BY <1>2, Zenon DEF Joined
  <2>2. pc'[o] \in OwnsTransition /\ opts'[o] = opts[o] /\ sbx'[o] = sbx[o]
    BY <2>1, Zenon DEF Only, KeepsOwner, Pauses
  <2> QED
    BY <1>1, <2>1, <2>2, Zenon DEF Pauses
<1>3. ASSUME tkey # tid[q] PROVE tid[q] \in failed' \/ Paused(q)'
  <2>1. tid[q] \in failed \/ Paused(q)
    BY <1>3, Zenon DEF Joined
  <2>2. pc[p] \in OwnsTransition => tid[p] # tid[q]
    BY <1>3, Zenon DEF SingleOwner
  <2> QED
    BY <1>1, <2>1, <2>2, Zenon DEF KeepsFailed, KeepsPaused
<1> QED
  BY <1>1, <1>2, <1>3, Zenon DEF Joined

LEMMA JoinedStarted ==
  ASSUME TypeOK, OwnerInv, NEW p \in Procs, Only(p), KeepsPaused, pc[p] = "start",
         tkey' = lastT + 1, failed' = failed, NEW q \in Procs \ {p}, Joined(q)
  PROVE  Joined(q)'
<1>1. sbx'[q] = sbx[q] /\ tid'[q] = tid[q] /\ tid[q] # None /\ sbx[q] # None
  BY Zenon DEF Only, Joined
<1>2. tkey = None
  BY Zenon DEF OwnerInv
<1>3. tid[q] \in 1 .. lastT /\ lastT \in Nat
  BY <1>1, Zenon DEF TypeOK
<1>4. tkey' # tid[q]
  BY <1>3
<1>5. tid[q] \in failed' \/ Paused(q)'
  BY <1>1, <1>2, Zenon DEF Joined, KeepsPaused
<1> QED
  BY <1>1, <1>4, <1>5, Zenon DEF Joined

LEMMA JoinedFinished ==
  ASSUME SingleOwner, NEW p \in Procs, Only(p), KeepsPaused, OutcomeInv(p), pc[p] = "finishDel",
         sbx' = sbx, tkey' = None, failed' = failed, NEW q \in Procs \ {p}, Joined(q)
  PROVE  Joined(q)'
<1>1. sbx'[q] = sbx[q] /\ tid'[q] = tid[q] /\ tid[q] # None /\ sbx[q] # None
  BY Zenon DEF Only, Joined
<1>2. pc[p] \in OwnsTransition
  BY Zenon DEF OwnsTransition
<1>3. CASE tkey # tid[q]
  BY <1>1, <1>3, Zenon DEF Joined, KeepsPaused
<1>4. CASE tkey = tid[q]
  <2>1. opts[p].action = "pause" /\ sbx[p].exec = sbx[q].exec /\ tid[p] = tid[q]
    BY <1>2, <1>4, Zenon DEF Joined, SingleOwner, Pauses
  <2>2. tid[q] \in failed \/ Paused(p)
    BY <2>1, Zenon DEF OutcomeInv
  <2>3. Paused(p) => Paused(q)
    BY <1>1, <2>1, Zenon DEF Paused, Stopped
  <2>4. tid[q] \in failed' \/ Paused(q)'
    BY <1>1, <2>2, <2>3, Zenon DEF KeepsPaused
  <2> QED
    BY <1>1, <2>4, Zenon DEF Joined
<1> QED
  BY <1>3, <1>4, Zenon

(* The outcomes of the others. *)
LEMMA OtherOutcome ==
  ASSUME SingleOwner, NEW p \in Procs, Only(p), KeepsPaused, KeepsFailed(p),
         NEW q \in Procs \ {p}, OutcomeInv(q), Joined(q) => Joined(q)'
  PROVE  OutcomeInv(q)'
<1>1. /\ pc'[q] = pc[q] /\ opts'[q] = opts[q] /\ cb'[q] = cb[q] /\ tid'[q] = tid[q]
      /\ Paused(q) => Paused(q)'
  BY Zenon DEF Only, KeepsPaused
<1>2. ASSUME pc[q] = "finishDel", tid[q] \in failed PROVE tid[q] \in failed'
  <2>1. pc[p] \notin OwnsTransition
    BY <1>2, Zenon DEF SingleOwner, OwnsTransition
  <2> QED
    BY <1>2, <2>1, Zenon DEF KeepsFailed
<1> QED
  BY <1>1, <1>2, Zenon DEF OutcomeInv

(* A step that does not begin or end a transition. *)
LEMMA OutcomeStep ==
  ASSUME SingleOwner, \A q \in Procs : OutcomeInv(q), NEW p \in Procs, Only(p), KeepsPaused,
         KeepsFailed(p), KeepsOwner(p), tkey' = tkey, OutcomeInv(p)'
  PROVE  \A q \in Procs : OutcomeInv(q)'
<1>1. ASSUME NEW q \in Procs \ {p} PROVE OutcomeInv(q)'
  BY JoinedKept, OtherOutcome, Zenon
<1> QED
  BY <1>1, Zenon

LEMMA StorageOutcome ==
  ASSUME RecordInv, Sees, \A q \in Procs : OutcomeInv(q) /\ KindInv(q),
         NEW p \in Procs, Only(p), KeepsPaused, StorageStep(p)
  PROVE  \A q \in Procs : OutcomeInv(q)'
<1> USE DEF Goto, redisVars, localVars, lifeVars
<1>i. TypeInv /\ OwnerInv /\ SingleOwner /\ CopyInv(p) /\ OutcomeInv(p) /\ KindInv(p) /\ TypeOK
  BY Zenon DEF RecordInv, OwnerInv, TypeInv
<1>t. /\ pc \in [Procs -> PCs] /\ sbx \in [Procs -> Sandbox \cup {None}]
      /\ opts \in [Procs -> RemoveOpts] /\ tid \in [Procs -> (1 .. lastT) \cup {None}]
  BY <1>i, Zenon DEF TypeOK
<1>f. failed' = failed => KeepsFailed(p)
  BY Zenon DEF KeepsFailed
<1>k. pc[p] \notin OwnsTransition \/ opts[p].action # "pause" => KeepsOwner(p)
  BY Zenon DEF KeepsOwner
<1>0. ASSUME UNCHANGED <<tkey, failed>>, KeepsOwner(p), OutcomeInv(p)' PROVE \A q \in Procs : OutcomeInv(q)'
  BY <1>0, <1>f, <1>i, OutcomeStep, Zenon
<1>p. Paused(p) /\ sbx'[p] = sbx[p] => Paused(p)'
  BY Zenon DEF KeepsPaused
<1>1. CASE ObtainForRemoval(p)
  <2>1. /\ UNCHANGED <<tkey, failed, opts>> /\ pc[p] = "obtain"
        /\ pc'[p] \in {"check", "notFound", "failed"} \/ (pc'[p] = "finished" /\ opts[p].action = "kill")
    BY <1>1, <1>t, Zenon DEF ObtainForRemoval, AfterError
  <2>2. OutcomeInv(p)'
    BY <2>1, Zenon DEF OutcomeInv
  <2> QED
    BY <1>0, <1>k, <2>1, <2>2, Zenon DEF OwnsTransition
<1>2. CASE CheckTransition(p)
  <2>1. UNCHANGED <<tkey, failed, opts, sbx>> /\ pc[p] = "check" /\ pc'[p] = AfterCheck(p)
    BY <1>2, <1>t, Zenon DEF CheckTransition
  <2>2. AfterCheck(p) \in {"join", "retry"} => tid'[p] = tkey /\ tkey # None
    BY <1>2, <1>t, Zenon DEF CheckTransition, AfterCheck
  <2>3. ASSUME opts[p].action = "pause", AfterCheck(p) \in {"join", "alreadyDone"}
        PROVE  /\ AfterCheck(p) = "join" /\ sbx[p] # None
               /\ \E q \in Procs \ {p} : pc[q] \in OwnsTransition /\ Pauses(q, sbx[p].exec)
    <3>1. sbx[p].state = TargetState["pause"] /\ (AfterCheck(p) = "alreadyDone" => tkey = None)
      BY <2>3, Zenon DEF AfterCheck
    <3>2. sbx[p].state = "pausing"
      BY <3>1 DEF TargetState
    <3>3. PICK q \in Procs : pc[q] \in {"started", "node", "remove"} /\ Pauses(q, sbx[p].exec)
      BY <2>1, <3>2, Zenon DEF Sees, SeesPause, PauseUnderway
    <3>4. pc[q] \in OwnsTransition
      BY <3>3, Zenon DEF OwnsTransition
    <3>5. tkey = tid[q] /\ tid[q] # None /\ q # p
      BY <1>i, <2>1, <3>3, <3>4, Zenon DEF SingleOwner, TypeInv
    <3>6. sbx[p] # None
      BY <1>i, <2>1, Zenon DEF TypeInv, HasCopy, HoldsLock
    <3> QED
      BY <2>3, <3>1, <3>3, <3>4, <3>5, <3>6, Zenon
  <2>4. ASSUME opts[p].action = "pause", pc'[p] = "join" PROVE Joined(p)'
    <3>1. PICK q \in Procs \ {p} : pc[q] \in OwnsTransition /\ Pauses(q, sbx[p].exec)
      BY <2>1, <2>3, <2>4, Zenon
    <3>2. (pc[q] \in OwnsTransition)' /\ Pauses(q, sbx[p].exec)'
      BY <2>1, <3>1, Zenon DEF Only, Pauses
    <3>3. tid'[p] = tkey /\ tkey' = tkey /\ tkey # None /\ sbx'[p] # None
      BY <2>1, <2>2, <2>3, <2>4, Zenon
    <3> QED
      BY <3>2, <3>3, Zenon DEF Joined
  <2>5. pc'[p] \in {"failed", "join", "retry", "alreadyDone", "start"}
    BY <2>1, AfterCheckCases, Zenon
  <2>6. OutcomeInv(p)'
    BY <2>1, <2>3, <2>4, <2>5, Zenon DEF OutcomeInv
  <2> QED
    BY <1>0, <1>k, <2>1, <2>6, Zenon DEF OwnsTransition
<1>3. CASE StartTransition(p)
  <2>1. /\ UNCHANGED <<failed, opts>> /\ pc[p] = "start"
        /\ \/ pc'[p] = "started" /\ tkey' = lastT + 1
           \/ tkey' = tkey /\ (pc'[p] = "failed" \/ (pc'[p] = "finished" /\ opts[p].action = "kill"))
    BY <1>3, <1>t, Zenon DEF StartTransition, AfterError
  <2>2. OutcomeInv(p)'
    BY <2>1, Zenon DEF OutcomeInv
  <2>3. CASE tkey' = tkey
    BY <1>0, <1>k, <2>1, <2>2, <2>3, Zenon DEF OwnsTransition
  <2>4. CASE tkey' = lastT + 1
    <3>1. \A q \in Procs \ {p} : Joined(q) => Joined(q)'
      BY <1>i, <2>1, <2>4, JoinedStarted, Zenon
    <3> QED
      BY <1>f, <1>i, <2>1, <2>2, <3>1, OtherOutcome, Zenon
  <2> QED
    BY <2>1, <2>3, <2>4, Zenon
<1>4. CASE WaitForTransition(p)
  <2>1. /\ UNCHANGED <<tkey, failed, opts, sbx, tid>> /\ pc[p] \in {"join", "retry", "wait"}
        /\ tkey # tid[p] /\ pc'[p] = AfterWait(p)
    BY <1>4, <1>t, Zenon DEF WaitForTransition
  <2>2. \/ AfterWait(p) \in {"failed", "obtain", "waited"}
        \/ AfterWait(p) = "finished" /\ opts[p].action = "kill"
        \/ AfterWait(p) = "alreadyDone" /\ pc[p] = "join" /\ tid[p] \notin failed
    BY <2>1, Zenon DEF AfterWait, AfterError
  <2>3. opts[p].action = "pause" /\ AfterWait(p) = "alreadyDone" => Paused(p)
    BY <1>i, <2>1, <2>2, Zenon DEF OutcomeInv, Joined
  <2>4. OutcomeInv(p)'
    BY <1>p, <2>1, <2>2, <2>3, Zenon DEF OutcomeInv
  <2> QED
    BY <1>0, <1>k, <2>1, <2>4, Zenon DEF OwnsTransition
<1>5. CASE WaitForStateChange(p)
  <2>1. /\ UNCHANGED <<tkey, failed, opts>> /\ pc[p] = "waitForStateChange"
        /\ pc'[p] \in {"wait", "waited"}
    BY <1>5, <1>t, Zenon DEF WaitForStateChange
  <2>2. OutcomeInv(p)'
    BY <2>1, Zenon DEF OutcomeInv
  <2> QED
    BY <1>0, <1>k, <2>1, <2>2, Zenon DEF OwnsTransition
<1>6. CASE RestoreRead(p) \/ RestoreWrite(p)
  <2>1. UNCHANGED <<tkey, failed, opts>> /\ opts[p].action = "snapshot"
    BY <1>6, <1>i, Zenon DEF RestoreRead, RestoreWrite, CopyInv
  <2>2. OutcomeInv(p)'
    BY <2>1, Zenon DEF OutcomeInv
  <2> QED
    BY <1>0, <1>k, <2>1, <2>2, Zenon
<1>7. CASE FinishResult(p)
  <2>1. /\ UNCHANGED <<tkey, opts, sbx, tid, cb>> /\ pc[p] = "finish" /\ pc'[p] = "finishDel"
        /\ failed' = IF ResultIsError(p) THEN failed \cup {tid[p]} ELSE failed \ {tid[p]}
    BY <1>7, <1>t, Zenon DEF FinishResult
  <2>2. pc[p] \in OwnsTransition /\ pc'[p] \in OwnsTransition
    BY <2>1, Zenon DEF OwnsTransition
  <2>3. KeepsFailed(p) /\ KeepsOwner(p)
    BY <2>1, <2>2, Zenon DEF KeepsFailed, KeepsOwner
  <2>4. ASSUME opts[p].action = "pause", cb[p] # "none" PROVE tid[p] \in failed'
    <3>1. Effect["pause"] = "expires"
      BY DEF Effect
    <3>2. cb[p] \in {"error", "restoreError"}
      BY <1>i, <2>4, Zenon DEF TypeOK
    <3>3. ResultIsError(p)
      BY <2>4, <3>1, <3>2, Zenon DEF ResultIsError
    <3> QED
      BY <2>1, <3>3, Zenon
  <2>5. OutcomeInv(p)'
    BY <1>i, <1>p, <2>1, <2>4, Zenon DEF OutcomeInv
  <2> QED
    BY <1>i, <2>1, <2>3, <2>5, OutcomeStep, Zenon
<1>8. CASE FinishDelete(p)
  <2>1. /\ UNCHANGED <<failed, opts, sbx, tid, cb>> /\ pc[p] = "finishDel" /\ pc'[p] = "finished"
        /\ tkey' = None
    BY <1>8, <1>t, Zenon DEF FinishDelete
  <2>2. OutcomeInv(p)'
    BY <1>i, <1>p, <2>1, Zenon DEF OutcomeInv
  <2>3. \A q \in Procs \ {p} : Joined(q) => Joined(q)'
    BY <1>i, <2>1, JoinedFinished, Zenon
  <2> QED
    BY <1>f, <1>i, <2>1, <2>2, <2>3, OtherOutcome, Zenon
<1>9. CASE UpdateRead(p) \/ UpdateWrite(p)
  <2>1. UNCHANGED <<tkey, failed, opts>> /\ pc[p] \in {"update", "updateWrite"}
    BY <1>9, Zenon DEF UpdateRead, UpdateWrite
  <2>2. opts[p].action = "kill"
    BY <1>i, <2>1, Zenon DEF KindInv
  <2>3. OutcomeInv(p)'
    BY <2>1, <2>2, Zenon DEF OutcomeInv
  <2> QED
    BY <1>0, <1>k, <2>1, <2>2, <2>3, Zenon
<1> QED
  BY <1>1, <1>2, <1>3, <1>4, <1>5, <1>6, <1>7, <1>8, <1>9, Zenon DEF StorageStep

LEMMA RemoveOutcome ==
  ASSUME RecordInv, \A q \in Procs : OutcomeInv(q) /\ HomeInv(q),
         NEW p \in Procs, Only(p), KeepsPaused, RemoveStep(p)
  PROVE  \A q \in Procs : OutcomeInv(q)'
<1> USE DEF Goto, redisVars, localVars, lifeVars
<1>i. TypeInv /\ SingleOwner /\ OutcomeInv(p) /\ HomeInv(p) /\ TypeOK
  BY Zenon DEF RecordInv, OwnerInv, TypeInv
<1>t. /\ pc \in [Procs -> PCs] /\ sbx \in [Procs -> Sandbox \cup {None}] /\ vm \in [Nodes -> Execs \cup {None}]
      /\ opts \in [Procs -> RemoveOpts] /\ cb \in [Procs -> {"none", "error", "restoreError"}]
  BY <1>i, Zenon DEF TypeOK
<1>p. Paused(p) /\ sbx'[p] = sbx[p] => Paused(p)'
  BY Zenon DEF KeepsPaused
<1>s. UNCHANGED <<tkey, failed, sbx, tid>>
  BY Zenon DEF RemoveStep, AlreadyDone, NotFound, Unroute, KillOnNode, PauseOnNode, StoreRemove, RemoveRecord,
       ReleaseReservation, CheckpointOnNode, Return
<1>0. ASSUME KeepsOwner(p), OutcomeInv(p)' PROVE \A q \in Procs : OutcomeInv(q)'
  <2>1. KeepsFailed(p)
    BY <1>s, Zenon DEF KeepsFailed
  <2> QED
    BY <1>0, <1>i, <1>s, <2>1, OutcomeStep, Zenon
<1>1. CASE AlreadyDone(p)
  <2>1. /\ opts' = opts /\ pc[p] = "alreadyDone"
        /\ pc'[p] \in {"failed", "staleRemove", "finished"}
    BY <1>1, <1>t, Zenon DEF AlreadyDone
  <2>2. OutcomeInv(p)'
    BY <1>i, <1>p, <1>s, <2>1, Zenon DEF OutcomeInv
  <2> QED
    BY <1>0, <2>1, <2>2, Zenon DEF KeepsOwner, OwnsTransition
<1>2. CASE NotFound(p)
  <2>1. opts' = opts /\ pc[p] = "notFound" /\ pc'[p] = "failed"
    BY <1>2, <1>t, Zenon DEF NotFound
  <2> QED
    BY <1>0, <2>1, Zenon DEF KeepsOwner, OwnsTransition, OutcomeInv
<1>3. CASE Unroute(p)
  <2>1. opts' = opts /\ pc'[p] \in {"node", "remove"} /\ (pc'[p] = "remove" => cb'[p] = "error")
    BY <1>3, <1>t, Zenon DEF Unroute
  <2> QED
    BY <1>0, <1>s, <2>1, Zenon DEF KeepsOwner, OwnsTransition, OutcomeInv
<1>4. CASE KillOnNode(p) \/ CheckpointOnNode(p)
  <2>1. opts' = opts /\ opts[p].action # "pause"
    BY <1>4, Zenon DEF KillOnNode, CheckpointOnNode
  <2> QED
    BY <1>0, <2>1, Zenon DEF KeepsOwner, OutcomeInv
<1>5. CASE PauseOnNode(p)
  <2>1. opts' = opts /\ pc[p] = "node" /\ pc'[p] = "remove"
    BY <1>5, <1>t, Zenon DEF PauseOnNode
  <2>2. sbx[p] # None /\ sbx[p] \in Sandbox
    BY <1>i, <1>t, <2>1, Zenon DEF TypeInv, HasCopy, OwnsTransition
  <2>3. ASSUME vm[sbx[p].node] # None, vm' = [vm EXCEPT ![sbx[p].node] = None], snap' = vm[sbx[p].node]
        PROVE  Paused(p)'
    <3>1. sbx[p].exec # None /\ sbx[p].node \in Nodes
      BY <2>2, NoneAssumption, Zenon DEF Sandbox
    <3>2. ASSUME NEW m \in Nodes PROVE vm'[m] # sbx[p].exec
      <4>1. CASE m = sbx[p].node
        BY <1>t, <2>3, <3>1, <4>1, Zenon
      <4>2. CASE m # sbx[p].node
        BY <1>i, <1>t, <2>2, <2>3, <4>2, Zenon DEF HomeInv, Home
      <4> QED
        BY <4>1, <4>2, Zenon
    <3>3. Stopped(p)'
      BY <1>s, <2>2, <3>2, Zenon DEF Stopped
    <3>4. Resumable'
      BY <2>3, Zenon DEF Resumable
    <3> QED
      BY <3>3, <3>4, Zenon DEF Paused
  <2>4. Paused(p)' \/ cb'[p] = "error"
    BY <1>5, <1>t, <2>3, Zenon DEF PauseOnNode
  <2>5. OutcomeInv(p)'
    BY <2>1, <2>4, Zenon DEF OutcomeInv
  <2> QED
    BY <1>0, <1>s, <2>1, <2>5, Zenon DEF KeepsOwner, OwnsTransition
<1>6. CASE StoreRemove(p) \/ ReleaseReservation(p)
  <2>1. /\ UNCHANGED <<opts, cb>>
        /\ \/ pc[p] = "remove" /\ pc'[p] = "release"
           \/ pc[p] = "release" /\ pc'[p] = "finish"
           \/ pc[p] = "staleRemove" /\ pc'[p] = "staleRelease"
           \/ pc[p] = "staleRelease" /\ pc'[p] = "finished"
    BY <1>6, <1>t, Zenon DEF StoreRemove, ReleaseReservation
  <2>2. OutcomeInv(p)'
    BY <1>i, <1>p, <1>s, <2>1, Zenon DEF OutcomeInv
  <2> QED
    BY <1>0, <1>s, <2>1, <2>2, Zenon DEF KeepsOwner, OwnsTransition
<1>7. CASE Return(p)
  <2>1. /\ pc[p] = "finished"
        /\ \/ pc'[p] \in {"obtain", "failed"}
           \/ pc'[p] = "done" /\ cb[p] = "none" /\ opts' = opts
    BY <1>7, <1>t, Zenon DEF Return
  <2>2. OutcomeInv(p)'
    BY <1>i, <1>p, <1>s, <2>1, Zenon DEF OutcomeInv
  <2> QED
    BY <1>0, <2>1, <2>2, Zenon DEF KeepsOwner, OwnsTransition
<1> QED
  BY <1>1, <1>2, <1>3, <1>4, <1>5, <1>6, <1>7, Zenon DEF RemoveStep

LEMMA OtherOutcomes ==
  ASSUME RecordInv, \A q \in Procs : OutcomeInv(q) /\ KindInv(q), NEW p \in Procs, Only(p), KeepsPaused,
         ResumeStep(p) \/ Arrive(p) \/ Evict(p) \/ GiveUp(p)
  PROVE  \A q \in Procs : OutcomeInv(q)'
<1> USE DEF Goto, redisVars, localVars, lifeVars
<1>i. SingleOwner /\ KindInv(p) /\ TypeOK
  BY Zenon DEF RecordInv, OwnerInv, TypeInv
<1>t. pc \in [Procs -> PCs]
  BY <1>i, Zenon DEF TypeOK
<1>0. ASSUME UNCHANGED <<tkey, failed>>, pc[p] \notin OwnsTransition, OutcomeInv(p)'
      PROVE  \A q \in Procs : OutcomeInv(q)'
  <2>1. KeepsFailed(p) /\ KeepsOwner(p)
    BY <1>0, Zenon DEF KeepsFailed, KeepsOwner
  <2> QED
    BY <1>0, <1>i, <2>1, OutcomeStep, Zenon
<1>1. CASE ResumeStep(p)
  <2>1. UNCHANGED <<tkey, failed, opts>> /\ pc[p] \in Resuming
    BY <1>1, Zenon DEF ResumeStep, ResumeGet, ResumeLookup, Reserve, WaitForStart, Place, Rollback,
         StoreAdd, AddRecord, AddRoute, FinishStart, Resuming
  <2>2. opts[p].action = "kill"
    BY <1>i, <2>1, Zenon DEF KindInv
  <2>3. OutcomeInv(p)'
    BY <2>1, <2>2, Zenon DEF OutcomeInv
  <2> QED
    BY <1>0, <2>1, <2>3, Zenon DEF Resuming, OwnsTransition
<1>2. CASE Arrive(p) \/ Evict(p) \/ GiveUp(p)
  <2>1. UNCHANGED <<tkey, failed>> /\ pc[p] \notin OwnsTransition
    BY <1>2, Zenon DEF Arrive, Evict, GiveUp, OwnsTransition
  <2>3. ASSUME Arrive(p) \/ Evict(p) PROVE OutcomeInv(p)'
    <3>1. pc'[p] \in {"obtain", "update", "resume"}
      BY <1>t, <2>3, RequestCases, Zenon DEF Arrive, Evict
    <3> QED
      BY <3>1, Zenon DEF OutcomeInv
  <2>4. ASSUME GiveUp(p) PROVE OutcomeInv(p)'
    <3>1. pc'[p] = "failed" \/ opts'[p].action = "kill"
      BY <1>t, <2>4, GiveUpCases, Zenon DEF GiveUp
    <3> QED
      BY <3>1, Zenon DEF OutcomeInv
  <2>2. OutcomeInv(p)'
    BY <1>2, <2>3, <2>4
  <2> QED
    BY <1>0, <2>1, <2>2, Zenon
<1> QED
  BY <1>1, <1>2, Zenon

(* A step of no process: VMs stop, and a key without owner expires. *)
LEMMA EnvironmentStep ==
  ASSUME PauseInv, RecordInv', UNCHANGED <<record, pc, opts, sbx, tid, cb, snap, failed>>, Shrinks,
         \/ tkey' = tkey
         \/ tkey' = None /\ \A p \in Procs : ~(tid[p] = tkey /\ pc[p] \in OwnsTransition)
  PROVE  PauseInv'
<1>i. TypeInv /\ SingleOwner
  BY Zenon DEF PauseInv, RecordInv, OwnerInv
<1>t. record \in Sandbox \cup {None} /\ sbx \in [Procs -> Sandbox \cup {None}]
  BY <1>i, Zenon DEF TypeInv, TypeOK
<1>1. ASSUME NEW s \in Sandbox, Home(s) PROVE \A n \in Nodes : vm'[n] = s.exec => n = s.node
  <2>1. Same(s, s)
    BY Zenon DEF Same
  <2> QED
    BY <1>1, <2>1, ShrinksHome, Zenon DEF Home
<1>2. (record # None => Home(record))'
  BY <1>1, <1>t, Zenon DEF PauseInv, Home
<1>3. (record # None /\ record.state = "pausing" => PauseUnderway(record.exec))'
  BY Zenon DEF PauseInv, PauseUnderway, Pauses
<1>4. ASSUME NEW p \in Procs PROVE HomeInv(p)' /\ KindInv(p)' /\ SeesPause(p)'
  <2>1. HomeInv(p) /\ KindInv(p) /\ SeesPause(p) /\ p # None
    BY NoneAssumption, Zenon DEF PauseInv
  <2>2. HomeInv(p)'
    BY <1>1, <1>t, <2>1, Zenon DEF HomeInv, Home, Shrinks
  <2>3. KindInv(p)' /\ SeesPause(p)'
    BY <2>1, Zenon DEF KindInv, SeesPause, PauseUnderway, Pauses
  <2> QED
    BY <2>2, <2>3, Zenon
<1>5. ASSUME NEW p \in Procs, Paused(p) PROVE Paused(p)'
  <2>1. Stopped(p)'
    BY <1>5, StaysStopped, Zenon DEF Paused, PauseInv
  <2>2. Resumable'
    BY <1>5, Zenon DEF Paused, Resumable
  <2> QED
    BY <2>1, <2>2, Zenon DEF Paused
<1>6. ASSUME NEW p \in Procs, Joined(p) PROVE Joined(p)'
  <2>1. CASE tkey' = tkey
    BY <1>5, <1>6, <2>1, Zenon DEF Joined, Pauses
  <2>2. CASE tkey' = None /\ \A q \in Procs : ~(tid[q] = tkey /\ pc[q] \in OwnsTransition)
    <3>1. tkey # tid[p]
      BY <1>6, <1>i, <2>2, Zenon DEF Joined, SingleOwner
    <3> QED
      BY <1>5, <1>6, <2>2, <3>1, Zenon DEF Joined
  <2> QED
    BY <2>1, <2>2, Zenon
<1>7. ASSUME NEW p \in Procs PROVE OutcomeInv(p)'
  <2>1. OutcomeInv(p)
    BY Zenon DEF PauseInv
  <2> QED
    BY <1>5, <1>6, <2>1, Zenon DEF OutcomeInv
<1> QED
  BY <1>2, <1>3, <1>4, <1>7, Zenon DEF PauseInv

LEMMA NextPause == ~Slow /\ MaxFaults = 0 /\ PauseInv /\ [Next]_vars => PauseInv'
<1> SUFFICES ASSUME ~Slow, MaxFaults = 0, PauseInv, [Next]_vars PROVE PauseInv'
  BY Zenon
<1> USE DEF redisVars, localVars, lifeVars
<1>r. RecordInv /\ RecordInv'
  BY NextRecordInv, Zenon DEF PauseInv
<1>i. TypeInv /\ TypeInv' /\ TypeOK
  BY <1>r, Zenon DEF RecordInv, OwnerInv, TypeInv
<1>v. vm \in [Nodes -> Execs \cup {None}]
  BY <1>i, Zenon DEF TypeOK
<1>f. ~(faults < MaxFaults)
  BY <1>i DEF TypeOK
<1>1. ASSUME NEW p \in Procs, Step(p) \/ Arrive(p) \/ Evict(p) \/ GiveUp(p) PROVE PauseInv'
  <2>1. Only(p)
    BY <1>1, <1>i, StepOnly, Zenon
  <2>2. Homes /\ Sees /\ \A q \in Procs : HomeInv(q) /\ KindInv(q) /\ OutcomeInv(q)
    BY Zenon DEF PauseInv, Homes, Sees
  <2>3. Homes' /\ Sees'
    BY <1>1, <1>r, <1>i, <2>2, StepHomes, StepSees, Zenon
  <2>4. KeepsPaused /\ \A q \in Procs : KindInv(q)'
    BY <1>1, <1>r, <1>i, <2>2, StepPaused, KindStep, Zenon
  <2>5. \A q \in Procs : OutcomeInv(q)'
    BY <1>1, <1>r, <2>1, <2>2, <2>4, StorageOutcome, RemoveOutcome, OtherOutcomes, Zenon DEF Step
  <2> QED
    BY <1>r, <2>3, <2>4, <2>5, Zenon DEF PauseInv, Homes, Sees
<1>2. ASSUME UNCHANGED vm PROVE Shrinks
  BY <1>2, Zenon DEF Shrinks
<1>3. ASSUME NEW n \in Nodes, Reconcile(n) PROVE PauseInv'
  <2>1. Shrinks
    BY <1>3, <1>2, <1>v, Zenon DEF Reconcile, ReconcileList, ReconcileCheck, BackgroundKill, Shrinks
  <2> QED
    BY <1>3, <1>r, <2>1, EnvironmentStep, Zenon DEF Reconcile, ReconcileList, ReconcileCheck, BackgroundKill
<1>4. CASE Expiry
  <2>1. Shrinks
    BY <1>2, <1>4, Zenon DEF Expiry
  <2> QED
    BY <1>4, <1>r, <2>1, EnvironmentStep, Zenon
       DEF Expiry, LockExpires, TransitionLockExpires, TransitionExpires, ResultExpires
<1>5. CASE Tick
  <2>1. Shrinks
    BY <1>2, <1>5, Zenon DEF Tick
  <2> QED
    BY <1>5, <1>r, <2>1, EnvironmentStep, Zenon DEF Tick
<1>6. CASE UNCHANGED vars
  <2>1. Shrinks
    BY <1>2, <1>6, Zenon DEF vars
  <2> QED
    BY <1>6, <1>r, <2>1, EnvironmentStep, Zenon DEF vars
<1>7. ASSUME NEW p \in Procs, LockTimesOut(p) \/ Crash(p) \/ StoreAddFails(p) PROVE FALSE
  BY <1>7, <1>f, Zenon DEF LockTimesOut, Crash, StoreAddFails
<1> QED
  BY <1>1, <1>3, <1>4, <1>5, <1>6, <1>7, Zenon DEF Next

LEMMA InitPause == Init => PauseInv
<1> SUFFICES ASSUME Init PROVE PauseInv
  BY Zenon
<1>1. RecordInv
  BY InitRecordInv, Zenon
<1>2. /\ \A p \in Procs : pc[p] = "idle" /\ sbx[p] = None
      /\ record # None => record.exec = FirstExec /\ record.node = FirstNode /\ record.state = "running"
      /\ \A n \in Nodes : vm[n] # None => vm[n] = FirstExec /\ n = FirstNode
  BY Zenon DEF Init
<1>3. FirstExec # None /\ FirstExec \notin Reqs /\ None \notin Procs
  BY LifecycleAssumption, NoneAssumption, Zenon
<1>4. record # None => Home(record)
  BY <1>2, <1>3, Zenon DEF Home
<1>5. ASSUME NEW p \in Procs PROVE HomeInv(p) /\ KindInv(p) /\ SeesPause(p) /\ OutcomeInv(p)
  <2>1. HomeInv(p)
    BY <1>2, <1>3, Zenon DEF HomeInv
  <2>2. KindInv(p) /\ SeesPause(p) /\ OutcomeInv(p)
    BY <1>2, Zenon DEF KindInv, SeesPause, OutcomeInv, Resuming
  <2> QED
    BY <2>1, <2>2, Zenon
<1> QED
  BY <1>1, <1>2, <1>4, <1>5, Zenon DEF PauseInv

(* When no process dies and live processes finish within the TTLs of their *)
(* keys, a pause that is reported as successful has stopped its VM, but    *)
(* for one that was started where the sandbox ID was taken, and there is a *)
(* snapshot unless a kill came.  That holds for the process that paused    *)
(* the sandbox and for those that joined it, for any number of requests,   *)
(* eviction loops and nodes and whatever else they do meanwhile.           *)
THEOREM PausesResumable ==
  ASSUME ~Slow, MaxFaults = 0
  PROVE  Spec => []PausedIsResumable
<1>1. PauseInv /\ [Next]_vars => PauseInv'
  BY NextPause, Zenon
<1>2. PauseInv => PausedIsResumable
  BY Zenon DEF PauseInv, OutcomeInv, PausedIsResumable, Runs, Paused, Stopped, Resumable
<1> QED
  BY InitPause, <1>1, <1>2, PTL DEF Spec

(***************************************************************************)
(* The store implements SandboxRecord.                                     *)
(***************************************************************************)

(* What the writers find, beyond RecordInv.  A record that is not the one   *)
(* the holder of the lock has read is that of a start; the owner of a       *)
(* transition finds its target state or a running sandbox; so a restore     *)
(* never writes back a sandbox that is being removed.                       *)
FindsInv(p) ==
  /\ pc[p] \in HoldsLock /\ record.exec # sbx[p].exec => record.state = "running"
  /\ pc[p] \in OwnsTransition /\ record # None
       => record.state \in {"running", TargetState[opts[p].action]}
  /\ pc[p] = "restoreWrite" => sbx[p].state \in {"running", "snapshotting"}

AtomicInv == RecordInv /\ \A p \in Procs : KindInv(p) /\ FindsInv(p)

(* A step does something to the record at once, or nothing. *)
Maps == Atomic!Next \/ UNCHANGED Atomic!vars

(* A step after which the processes find what they rely on, and which is a *)
(* step of SandboxRecord.                                                  *)
Safe == (\A q \in Procs : FindsInv(q)') /\ Maps

LEMMA OthersFind ==
  ASSUME AtomicInv, NEW p \in Procs, Only(p), UNCHANGED record, NEW q \in Procs \ {p}
  PROVE  FindsInv(q)'
<1>1. FindsInv(q) /\ pc'[q] = pc[q] /\ opts'[q] = opts[q] /\ sbx'[q] = sbx[q]
  BY Zenon DEF AtomicInv, Only
<1> QED
  BY <1>1, Zenon DEF FindsInv

LEMMA SnapshotTarget == TargetState["snapshot"] = "snapshotting"
  BY DEF TargetState

(* A step that leaves the record and the ownership of transitions alone. *)
LEMMA QuietStep ==
  ASSUME AtomicInv, NEW p \in Procs, Only(p), UNCHANGED <<record, now>>,
         pc'[p] \in HoldsLock => \/ pc[p] \in HoldsLock \ {"restoreWrite"} /\ sbx'[p] = sbx[p]
                                 \/ record # None /\ sbx'[p] = record,
         pc'[p] \in OwnsTransition <=> pc[p] \in OwnsTransition,
         pc'[p] \in OwnsTransition => opts'[p] = opts[p],
         pc'[p] = "restoreWrite" => pc[p] = "restore"
  PROVE  Safe
<1>1. FindsInv(p)'
  <2>0. FindsInv(p) /\ CopyInv(p)
    BY Zenon DEF AtomicInv, RecordInv
  <2>1. ASSUME pc'[p] \in HoldsLock, record'.exec # sbx'[p].exec PROVE record'.state = "running"
    BY <2>0, <2>1, Zenon DEF FindsInv
  <2>2. ASSUME pc'[p] \in OwnsTransition, record' # None
        PROVE  record'.state \in {"running", TargetState[opts'[p].action]}
    BY <2>0, <2>2, Zenon DEF FindsInv
  <2>3. ASSUME pc'[p] = "restoreWrite" PROVE sbx'[p].state \in {"running", "snapshotting"}
    <3>1. pc[p] = "restore" /\ record # None /\ sbx'[p] = record
      BY <2>3, Zenon DEF HoldsLock
    <3>2. opts[p].action = "snapshot" /\ record.state \in {"running", TargetState[opts[p].action]}
      BY <2>0, <3>1, Zenon DEF CopyInv, FindsInv, OwnsTransition
    <3> QED
      BY <3>1, <3>2, SnapshotTarget, Zenon
  <2> QED
    BY <2>1, <2>2, <2>3, Zenon DEF FindsInv
<1>2. Owners' = Owners
  BY Zenon DEF Owners, Only
<1>3. UNCHANGED Atomic!vars
  BY <1>2, Zenon DEF Atomic!vars
<1> QED
  BY <1>1, <1>3, OthersFind, Zenon DEF Safe, Maps

(* A step that ends the work on a transition. *)
LEMMA EndStep ==
  ASSUME AtomicInv, NEW p \in Procs, Only(p), UNCHANGED <<record, now>>,
         pc[p] \in OwnsTransition, pc'[p] \notin OwnsTransition \cup HoldsLock
  PROVE  Safe
<1>1. FindsInv(p)'
  BY Zenon DEF FindsInv, HoldsLock
<1>2. \A q \in Procs : pc[q] \in OwnsTransition => q = p
  BY Zenon DEF AtomicInv, RecordInv, OwnerInv, SingleOwner
<1>3. Owners # {} /\ Owners' = {}
  BY <1>2, Zenon DEF Owners, Only
<1>4. Atomic!End
  BY <1>3, Zenon DEF Atomic!End
<1> QED
  BY <1>1, <1>4, OthersFind, Zenon DEF Safe, Maps, Atomic!Next

(* A step that stores a running sandbox, or removes the record. *)
LEMMA FindsRunning ==
  ASSUME AtomicInv, NEW p \in Procs, Only(p), pc'[p] \notin HoldsLock,
         record' # None => record'.state = "running",
         record' = None => \A q \in Procs : pc[q] \notin HoldsLock
  PROVE  \A q \in Procs : FindsInv(q)'
<1>1. ASSUME NEW q \in Procs PROVE FindsInv(q)'
  <2>1. q # p => FindsInv(q) /\ pc'[q] = pc[q] /\ sbx'[q] = sbx[q]
    BY Zenon DEF AtomicInv, Only
  <2>2. ASSUME pc'[q] \in HoldsLock, record'.exec # sbx'[q].exec PROVE record'.state = "running"
    BY <2>1, <2>2, Zenon
  <2>3. ASSUME pc'[q] \in OwnsTransition, record' # None
        PROVE  record'.state \in {"running", TargetState[opts'[q].action]}
    BY <2>3, Zenon
  <2>4. ASSUME pc'[q] = "restoreWrite" PROVE sbx'[q].state \in {"running", "snapshotting"}
    BY <2>1, <2>4, Zenon DEF FindsInv, HoldsLock
  <2> QED
    BY <2>2, <2>3, <2>4, Zenon DEF FindsInv
<1> QED
  BY <1>1, Zenon

(* SandboxRecord speaks of states and actions as the store does. *)
LEMMA SameVocabulary ==
  /\ Atomic!Sandbox = Sandbox /\ Atomic!Actions = Actions
  /\ Atomic!TargetState = TargetState /\ Atomic!Effect = Effect
  /\ Atomic!AllowedTransitions = AllowedTransitions
  BY Zenon DEF Atomic!Sandbox, Sandbox, Atomic!States, States, Atomic!Actions, Actions, Atomic!TargetState,
       TargetState, Atomic!Effect, Effect, Atomic!AllowedTransitions, AllowedTransitions

(* The start of a transition. *)
LEMMA TransitionedEnd ==
  ASSUME TypeOK, NEW p \in Procs, sbx[p] \in Sandbox
  PROVE  /\ Effect[opts[p].action] = "expires" => Transitioned(p).end <= now
         /\ IsExpired(sbx[p]) => now > Transitioned(p).end
<1>1. now \in Nat /\ sbx[p].end \in Nat
  BY LifecycleAssumption DEF TypeOK, Sandbox
<1>2. Transitioned(p).end = IF Effect[opts[p].action] = "expires" /\ ~(now > sbx[p].end)
                              THEN now ELSE sbx[p].end
  BY Zenon DEF Transitioned, IsExpired, Sandbox
<1> QED
  BY <1>1, <1>2 DEF IsExpired

LEMMA BeginStep ==
  ASSUME AtomicInv, NEW p \in Procs, Only(p), StartTransition(p), UNCHANGED now
  PROVE  Safe
<1>t. /\ TypeOK /\ pc[p] = "start" /\ lock = p /\ sbx[p] \in Sandbox /\ record # None
      /\ pc \in [Procs -> PCs] /\ opts[p] \in RemoveOpts
  BY Zenon DEF StartTransition, AtomicInv, RecordInv, OwnerInv, TypeInv, TypeOK, HasCopy, HoldsLock, CopyInv
<1>l. \A q \in Procs \ {p} : pc[q] \notin HoldsLock
  BY <1>t, Zenon DEF AtomicInv, RecordInv, OwnerInv
<1>1. CASE pc' = [pc EXCEPT ![p] = AfterError(p, sbx[p].state)] /\ UNCHANGED record
  <2>1. pc'[p] \in {"failed", "finished"}
    BY <1>1, <1>t, Zenon DEF AfterError
  <2> QED
    BY <1>1, <1>t, <2>1, QuietStep, Zenon DEF HoldsLock, OwnsTransition
<1>2. CASE pc' = [pc EXCEPT ![p] = "started"] /\ record' = Transitioned(p) /\ UNCHANGED opts
  <2> DEFINE a == opts[p].action
  <2>1. /\ record' \in Sandbox /\ record' # None
        /\ record'.state = TargetState[a] /\ record'.exec = sbx[p].exec
    BY <1>2, <1>t, TransitionedType, NoneAssumption, Zenon
  <2>2. pc'[p] = "started"
    BY <1>2, <1>t, Zenon
  <2>3. \A q \in Procs : pc[q] \notin OwnsTransition
    BY <1>t, Zenon DEF AtomicInv, RecordInv, OwnerInv, SingleOwner, TypeInv
  <2>4. Owners = {} /\ Owners' = {p}
    BY <2>2, <2>3, Zenon DEF Owners, Only, OwnsTransition
  <2>5. /\ TargetState[a] \in AllowedTransitions[sbx[p].state]
        /\ p \in Evictors => IsExpired(sbx[p])
        /\ record.exec = sbx[p].exec => record = sbx[p]
        /\ record.exec # sbx[p].exec => record.state = "running"
    BY <1>t, Zenon DEF AtomicInv, RecordInv, CopyInv, KindInv, FindsInv, HoldsLock
  <2>6. ASSUME NEW q \in Procs PROVE FindsInv(q)'
    <3>1. CASE q = p
      BY <1>2, <2>1, <2>2, <3>1, Zenon DEF FindsInv, HoldsLock
    <3>2. CASE q # p
      <4>1. pc'[q] \notin HoldsLock \cup OwnsTransition
        BY <1>l, <2>3, <3>2, Zenon DEF Only
      <4> QED
        BY <4>1, Zenon DEF FindsInv, HoldsLock
    <3> QED
      BY <3>1, <3>2, Zenon
  <2>7. ASSUME record.exec = sbx[p].exec PROVE Atomic!Moves(p, a)
    <3>1. record = sbx[p]
      BY <2>5, <2>7, Zenon
    <3>2. record' = [record EXCEPT !.state = TargetState[a],
                                   !.end = IF Effect[a] = "expires" /\ ~(now > record.end)
                                             THEN now ELSE @]
      BY <1>2, <3>1, Zenon DEF Transitioned, IsExpired
    <3> QED
      BY <2>5, <3>1, <3>2, SameVocabulary, Zenon DEF Atomic!Moves, IsExpired
  <2>8. ASSUME record.exec # sbx[p].exec PROVE Atomic!MovesDisplaced(p, a)
    <3>1. /\ Effect[a] = "expires" => record'.end <= now
          /\ p \in Evictors => now > record'.end
      BY <1>2, <1>t, <2>5, TransitionedEnd, Zenon
    <3> QED
      BY <2>1, <2>5, <2>8, <3>1, SameVocabulary, Zenon DEF Atomic!MovesDisplaced
  <2>9. Atomic!Moves(p, a) \/ Atomic!MovesDisplaced(p, a)
    BY <2>7, <2>8, Zenon
  <2>10. a \in Actions
    BY <1>t, Zenon DEF RemoveOpts
  <2> HIDE DEF a
  <2>11. Atomic!Begin
    BY <1>t, <2>4, <2>9, <2>10, SameVocabulary, Zenon DEF Atomic!Begin
  <2> QED
    BY <2>6, <2>11, Zenon DEF Safe, Maps, Atomic!Next
<1> QED
  BY <1>1, <1>2, Zenon DEF StartTransition, Goto

(* The other steps that write the record. *)
LEMMA SameOwners ==
  ASSUME NEW p \in Procs, Only(p), pc'[p] \in OwnsTransition <=> pc[p] \in OwnsTransition
  PROVE  Owners' = Owners
  BY Zenon DEF Owners, Only

(* Another execution that is running takes the place of the stored one. *)
LEMMA StartStep ==
  ASSUME Owners' = Owners, UNCHANGED now, record' \in Sandbox, record'.state = "running",
         record # None => record'.exec # record.exec
  PROVE  Maps
<1>1. record' \in Atomic!Running /\ record' # None
  BY SameVocabulary, NoneAssumption, Zenon DEF Atomic!Running
<1>2. Atomic!Start
  BY <1>1, Zenon DEF Atomic!Start
<1> QED
  BY <1>2, Zenon DEF Maps, Atomic!Next

LEMMA RestoreStep ==
  ASSUME AtomicInv, NEW p \in Procs, Only(p), RestoreWrite(p), UNCHANGED now
  PROVE  Safe
<1>t. /\ pc[p] = "restoreWrite" /\ sbx[p] \in Sandbox /\ record # None
      /\ pc \in [Procs -> PCs] /\ opts[p].action = "snapshot"
  BY Zenon DEF RestoreWrite, AtomicInv, RecordInv, OwnerInv, TypeInv, TypeOK, HasCopy, HoldsLock, CopyInv
<1>1. pc'[p] = "finish"
  BY <1>t, Zenon DEF RestoreWrite, Goto
<1>2. sbx[p].state \in {"running", "snapshotting"} /\ (record.exec = sbx[p].exec => record = sbx[p])
  BY <1>t, Zenon DEF AtomicInv, FindsInv, RecordInv, CopyInv, HoldsLock
<1>3. record' = IF sbx[p].state = "snapshotting" THEN [sbx[p] EXCEPT !.state = "running"] ELSE sbx[p]
  BY <1>t, SnapshotTarget, Zenon DEF RestoreWrite
<1>4. record' \in Sandbox /\ record'.state = "running" /\ record'.exec = sbx[p].exec
  BY <1>t, <1>2, <1>3, Zenon DEF Sandbox, States
<1>5. Owners' = Owners
  BY <1>t, <1>1, SameOwners, Zenon DEF OwnsTransition
<1>6. \A q \in Procs : FindsInv(q)'
  BY <1>1, <1>4, NoneAssumption, FindsRunning, Zenon DEF HoldsLock
<1>7. CASE record.exec # sbx[p].exec
  BY <1>4, <1>5, <1>6, <1>7, StartStep, Zenon DEF Safe
<1>8. CASE record.exec = sbx[p].exec /\ sbx[p].state = "running"
  <2>1. UNCHANGED record
    BY <1>2, <1>3, <1>8, Zenon
  <2>2. UNCHANGED Atomic!vars
    BY <1>5, <2>1, Zenon DEF Atomic!vars
  <2> QED
    BY <1>6, <2>2, Zenon DEF Safe, Maps
<1>9. CASE record.exec = sbx[p].exec /\ sbx[p].state = "snapshotting"
  <2>1. p \in Owners
    BY <1>t, Zenon DEF Owners, OwnsTransition
  <2>2. Atomic!Restore
    BY <1>t, <1>2, <1>3, <1>5, <1>9, <2>1, Zenon DEF Atomic!Restore
  <2> QED
    BY <1>6, <2>2, Zenon DEF Safe, Maps, Atomic!Next
<1> QED
  BY <1>2, <1>7, <1>8, <1>9, Zenon

LEMMA ExtendStep ==
  ASSUME AtomicInv, NEW p \in Procs, Only(p), UpdateWrite(p), UNCHANGED now
  PROVE  Safe
<1>t. /\ pc[p] = "updateWrite" /\ sbx[p] \in Sandbox /\ record # None /\ sbx[p].state = "running"
      /\ pc \in [Procs -> PCs] /\ opts[p] \in RemoveOpts
  BY Zenon DEF UpdateWrite, AtomicInv, RecordInv, OwnerInv, TypeInv, TypeOK, HasCopy, HoldsLock, CopyInv
<1>1. pc'[p] = "done"
  BY <1>t, Zenon DEF UpdateWrite, Goto
<1>2. record.exec = sbx[p].exec => record = sbx[p]
  BY <1>t, Zenon DEF AtomicInv, RecordInv, CopyInv, HoldsLock
<1>3. PICK end \in {opts[p].end, sbx[p].end} : record' = [sbx[p] EXCEPT !.end = end]
  BY Zenon DEF UpdateWrite
<1>4. end \in Nat
  BY <1>t, <1>3, Zenon DEF RemoveOpts, Sandbox
<1>5. record' \in Sandbox /\ record'.state = "running" /\ record'.exec = sbx[p].exec /\ record'.end = end
  BY <1>t, <1>3, <1>4, Zenon DEF Sandbox
<1>6. Owners' = Owners
  BY <1>t, <1>1, SameOwners, Zenon DEF OwnsTransition
<1>7. \A q \in Procs : FindsInv(q)'
  BY <1>1, <1>5, NoneAssumption, FindsRunning, Zenon DEF HoldsLock
<1>8. CASE record.exec # sbx[p].exec
  BY <1>5, <1>6, <1>7, <1>8, StartStep, Zenon DEF Safe
<1>9. CASE record.exec = sbx[p].exec
  <2>1. record.state = "running" /\ record' = [record EXCEPT !.end = record'.end]
    BY <1>t, <1>2, <1>3, <1>5, <1>9, Zenon
  <2>2. record' \in Atomic!Running /\ record' # None
    BY <1>5, SameVocabulary, NoneAssumption, Zenon DEF Atomic!Running
  <2>3. Atomic!Extend
    BY <1>t, <1>6, <2>1, <2>2, Zenon DEF Atomic!Extend
  <2> QED
    BY <1>7, <2>3, Zenon DEF Safe, Maps, Atomic!Next
<1> QED
  BY <1>8, <1>9, Zenon

LEMMA AddStep ==
  ASSUME AtomicInv, NEW p \in Procs, Only(p), StoreAdd(p)
  PROVE  Safe
<1>t. /\ pc[p] = "add" /\ p \in Reqs /\ pc \in [Procs -> PCs]
      /\ sbx[p] \in Sandbox /\ sbx[p].state = "running"
  BY Zenon DEF StoreAdd, AtomicInv, RecordInv, OwnerInv, TypeInv, TypeOK, HasCopy, CopyInv, Resuming
<1>1. pc'[p] = "route" /\ record' = sbx[p] /\ now' = now
  BY <1>t, Zenon DEF StoreAdd, AddRecord, Goto
<1>2. sbx[p].exec = p /\ (record # None => record.exec # p)
  BY <1>t, Zenon DEF AtomicInv, RecordInv, FreshInv, NotAdded, Resuming
<1>3. Owners' = Owners
  BY <1>t, <1>1, SameOwners, Zenon DEF OwnsTransition
<1>4. \A q \in Procs : FindsInv(q)'
  BY <1>1, <1>t, NoneAssumption, FindsRunning, Zenon DEF HoldsLock
<1> QED
  BY <1>t, <1>1, <1>2, <1>3, <1>4, StartStep, Zenon DEF Safe

LEMMA RemoveStepAtomic ==
  ASSUME AtomicInv, NEW p \in Procs, Only(p), StoreRemove(p)
  PROVE  Safe
<1>t. pc[p] \in {"remove", "staleRemove"} /\ pc \in [Procs -> PCs] /\ lock = None
  BY Zenon DEF StoreRemove, RemoveRecord, AtomicInv, RecordInv, OwnerInv, TypeInv, TypeOK
<1>1. /\ pc'[p] = (IF pc[p] = "remove" THEN "release" ELSE "staleRelease")
      /\ record' = None /\ now' = now
  BY <1>t, Zenon DEF StoreRemove, RemoveRecord, Goto
<1>2. \A q \in Procs : pc[q] \notin HoldsLock
  BY <1>t, NoneAssumption, Zenon DEF AtomicInv, RecordInv, OwnerInv
<1>3. Owners' = Owners
  BY <1>t, <1>1, SameOwners, Zenon DEF OwnsTransition
<1>4. \A q \in Procs : FindsInv(q)'
  BY <1>1, <1>2, FindsRunning, Zenon DEF HoldsLock
<1>5. Atomic!Remove
  BY <1>1, <1>3, Zenon DEF Atomic!Remove
<1> QED
  BY <1>4, <1>5, Zenon DEF Safe, Maps, Atomic!Next

(* One step of a process. *)
LEMMA StorageAtomic ==
  ASSUME AtomicInv, NEW p \in Procs, Only(p), StorageStep(p)
  PROVE  Safe
<1>t. pc \in [Procs -> PCs] /\ sbx \in [Procs -> Sandbox \cup {None}] /\ UNCHANGED now
  BY Zenon DEF AtomicInv, RecordInv, OwnerInv, TypeInv, TypeOK, StorageStep
<1> USE DEF Goto, redisVars, HoldsLock, OwnsTransition
<1>1. CASE ObtainForRemoval(p)
  <2>1. /\ pc[p] = "obtain" /\ UNCHANGED record
        /\ pc'[p] \in {"check", "notFound", "failed", "finished"}
        /\ pc'[p] = "check" => record # None /\ sbx'[p] = record
    BY <1>1, <1>t, Zenon DEF ObtainForRemoval, AfterError
  <2> QED
    BY <1>t, <2>1, QuietStep, Zenon
<1>2. CASE CheckTransition(p)
  <2>1. /\ pc[p] = "check" /\ UNCHANGED <<record, sbx>>
        /\ pc'[p] \in {"failed", "join", "retry", "alreadyDone", "start"}
    BY <1>2, <1>t, AfterCheckCases, Zenon DEF CheckTransition
  <2> QED
    BY <1>t, <2>1, QuietStep, Zenon
<1>3. CASE StartTransition(p)
  BY <1>3, <1>t, BeginStep, Zenon
<1>4. CASE WaitForTransition(p) \/ WaitForStateChange(p)
  <2>1. /\ pc[p] \in {"join", "retry", "wait", "waitForStateChange"} /\ UNCHANGED record
        /\ pc'[p] \in {"failed", "finished", "alreadyDone", "obtain", "waited", "wait"}
    BY <1>4, <1>t, Zenon DEF WaitForTransition, WaitForStateChange, AfterWait, AfterError
  <2> QED
    BY <1>t, <2>1, QuietStep, Zenon
<1>5. CASE RestoreRead(p)
  <2>1. /\ pc[p] = "restore" /\ UNCHANGED <<record, opts>>
        /\ pc'[p] \in {"restoreWrite", "finish"}
        /\ pc'[p] = "restoreWrite" => record # None /\ sbx'[p] = record
    BY <1>5, <1>t, Zenon DEF RestoreRead
  <2> QED
    BY <1>t, <2>1, QuietStep, Zenon
<1>6. CASE RestoreWrite(p)
  BY <1>6, <1>t, RestoreStep, Zenon
<1>7. CASE FinishResult(p)
  <2>1. pc[p] = "finish" /\ UNCHANGED <<record, opts>> /\ pc'[p] = "finishDel"
    BY <1>7, <1>t, Zenon DEF FinishResult
  <2> QED
    BY <1>t, <2>1, QuietStep, Zenon
<1>8. CASE FinishDelete(p)
  <2>1. pc[p] = "finishDel" /\ UNCHANGED record /\ pc'[p] = "finished"
    BY <1>8, <1>t, Zenon DEF FinishDelete
  <2> QED
    BY <1>t, <2>1, EndStep, Zenon
<1>9. CASE UpdateRead(p)
  <2>1. /\ pc[p] = "update" /\ UNCHANGED record
        /\ pc'[p] \in {"updateWrite", "failed"}
        /\ pc'[p] = "updateWrite" => record # None /\ sbx'[p] = record
    BY <1>9, <1>t, Zenon DEF UpdateRead
  <2> QED
    BY <1>t, <2>1, QuietStep, Zenon
<1>10. CASE UpdateWrite(p)
  BY <1>10, <1>t, ExtendStep, Zenon
<1> QED
  BY <1>1, <1>2, <1>3, <1>4, <1>5, <1>6, <1>7, <1>8, <1>9, <1>10, Zenon DEF StorageStep

LEMMA RemoveAtomic ==
  ASSUME AtomicInv, NEW p \in Procs, Only(p), RemoveStep(p)
  PROVE  Safe
<1>t. pc \in [Procs -> PCs] /\ opts \in [Procs -> RemoveOpts]
  BY Zenon DEF AtomicInv, RecordInv, OwnerInv, TypeInv, TypeOK
<1> USE DEF Goto, redisVars, HoldsLock, OwnsTransition
<1>1. CASE StoreRemove(p)
  BY <1>1, RemoveStepAtomic, Zenon
<1>2. CASE AlreadyDone(p) \/ NotFound(p) \/ Return(p)
  <2>1. /\ pc[p] \in {"alreadyDone", "notFound", "finished"} /\ UNCHANGED <<record, now>>
        /\ pc'[p] \in {"failed", "staleRemove", "finished", "obtain", "done"}
    BY <1>2, <1>t, Zenon DEF AlreadyDone, NotFound, Return
  <2> QED
    BY <2>1, QuietStep, Zenon
<1>3. CASE Unroute(p) \/ KillOnNode(p) \/ PauseOnNode(p) \/ CheckpointOnNode(p)
  <2>1. /\ pc[p] \in {"started", "node"} /\ UNCHANGED <<record, now, opts>>
        /\ pc'[p] \in {"node", "remove", "restore", "finish"}
    BY <1>3, <1>t, Zenon DEF Unroute, KillOnNode, PauseOnNode, CheckpointOnNode
  <2> QED
    BY <2>1, QuietStep, Zenon
<1>4. CASE ReleaseReservation(p)
  <2>1. /\ \/ pc[p] = "release" /\ pc'[p] = "finish"
           \/ pc[p] = "staleRelease" /\ pc'[p] = "finished"
        /\ UNCHANGED <<record, now, opts>>
    BY <1>4, <1>t, Zenon DEF ReleaseReservation
  <2> QED
    BY <2>1, QuietStep, Zenon
<1> QED
  BY <1>1, <1>2, <1>3, <1>4, Zenon DEF RemoveStep

LEMMA ResumeAtomic ==
  ASSUME AtomicInv, NEW p \in Procs, Only(p), ResumeStep(p) \/ StoreAddFails(p)
  PROVE  Safe
<1>t. pc \in [Procs -> PCs]
  BY Zenon DEF AtomicInv, RecordInv, OwnerInv, TypeInv, TypeOK
<1>1. CASE StoreAdd(p)
  BY <1>1, AddStep, Zenon
<1>2. CASE ~StoreAdd(p)
  <2>1. /\ pc[p] \in Resuming /\ UNCHANGED <<record, now>>
        /\ pc'[p] \in Resuming \cup {"failed", "done"}
    BY <1>2, <1>t, Zenon DEF ResumeStep, ResumeGet, ResumeLookup, Reserve, WaitForStart, Place, Rollback,
         AddRoute, FinishStart, StoreAddFails, Goto, redisVars, Resuming
  <2> QED
    BY <2>1, QuietStep, Zenon DEF Resuming, HoldsLock, OwnsTransition
<1> QED
  BY <1>1, <1>2, Zenon

LEMMA ArrivalAtomic ==
  ASSUME AtomicInv, NEW p \in Procs, Only(p), Arrive(p) \/ Evict(p) \/ GiveUp(p)
  PROVE  Safe
<1>t. pc \in [Procs -> PCs]
  BY Zenon DEF AtomicInv, RecordInv, OwnerInv, TypeInv, TypeOK
<1>1. /\ pc[p] \in {"idle", "failed", "done", "obtain", "join", "retry", "update", "wait", "waitForStart"}
      /\ UNCHANGED <<record, now>>
  BY Zenon DEF Arrive, Evict, GiveUp, redisVars
<1>2. pc'[p] \in {"obtain", "update", "resume", "failed", "finished"}
  BY <1>t, RequestCases, GiveUpCases, Zenon DEF Arrive, Evict, Goto
<1> QED
  BY <1>1, <1>2, QuietStep, Zenon DEF HoldsLock, OwnsTransition

LEMMA CrashAtomic ==
  ASSUME AtomicInv, NEW p \in Procs, Only(p), Crash(p)
  PROVE  Safe
<1>1. pc'[p] \in {"idle", "crashed"} /\ UNCHANGED <<record, now>>
  BY Zenon DEF Crash, Goto, redisVars, AtomicInv, RecordInv, OwnerInv, TypeInv, TypeOK
<1>2. pc'[p] \notin HoldsLock \cup OwnsTransition /\ pc'[p] # "restoreWrite"
  BY <1>1, Zenon DEF HoldsLock, OwnsTransition
<1>3. CASE pc[p] \in OwnsTransition
  BY <1>1, <1>2, <1>3, EndStep, Zenon
<1>4. CASE pc[p] \notin OwnsTransition
  BY <1>1, <1>2, <1>4, QuietStep, Zenon
<1> QED
  BY <1>3, <1>4, Zenon

(* Steps of no process. *)
LEMMA EnvironmentAtomic ==
  ASSUME AtomicInv, UNCHANGED <<record, pc, opts, sbx>>, now' = now \/ now' = now + 1
  PROVE  (\A q \in Procs : KindInv(q)') /\ Safe
<1>1. \A q \in Procs : KindInv(q)' /\ FindsInv(q)'
  BY Zenon DEF AtomicInv, KindInv, FindsInv
<1>2. Owners' = Owners
  BY Zenon DEF Owners
<1>3. ASSUME now' = now PROVE Maps
  BY <1>2, <1>3, Zenon DEF Maps, Atomic!vars
<1>4. ASSUME now' = now + 1 PROVE Maps
  BY <1>2, <1>4, Zenon DEF Maps, Atomic!Next, Atomic!Tick
<1> QED
  BY <1>1, <1>3, <1>4, Zenon DEF Safe

(* A process that fails keeps its kind. *)
LEMMA FaultKind ==
  ASSUME TypeInv, NEW p \in Procs, \A q \in Procs : KindInv(q), Crash(p) \/ StoreAddFails(p)
  PROVE  Only(p) /\ \A q \in Procs : KindInv(q)'
<1>1. /\ Only(p) /\ UNCHANGED opts
  BY OnlyMoves, Zenon DEF Crash, StoreAddFails, Goto, redisVars, TypeInv
<1>2. pc[p] # "idle" /\ pc'[p] \in {"idle", "crashed", "finishStart"} /\ (pc'[p] = "finishStart" => pc[p] = "add")
  BY Zenon DEF Crash, StoreAddFails, Goto, TypeInv, TypeOK
<1>3. KindInv(p)'
  BY <1>1, <1>2, Zenon DEF KindInv, Resuming
<1>4. ASSUME NEW q \in Procs \ {p} PROVE KindInv(q)'
  BY <1>1, Zenon DEF KindInv, Only
<1> QED
  BY <1>1, <1>3, <1>4, Zenon

LEMMA NextAtomic ==
  ASSUME ~Slow, AtomicInv, [Next]_vars
  PROVE  AtomicInv' /\ Maps
<1>r. RecordInv /\ RecordInv' /\ TypeInv /\ TypeOK
  BY NextRecordInv, Zenon DEF AtomicInv, RecordInv, OwnerInv, TypeInv
<1>k. \A q \in Procs : KindInv(q)
  BY Zenon DEF AtomicInv
<1> SUFFICES (\A q \in Procs : KindInv(q)') /\ Safe
  BY <1>r, Zenon DEF AtomicInv, Safe
<1>1. ASSUME NEW p \in Procs, Step(p) \/ Arrive(p) \/ Evict(p) \/ GiveUp(p)
      PROVE  (\A q \in Procs : KindInv(q)') /\ Safe
  <2>1. Only(p)
    BY <1>1, <1>r, StepOnly, Zenon
  <2>2. \A q \in Procs : KindInv(q)'
    BY <1>1, <1>r, <1>k, KindStep, Zenon
  <2> QED
    BY <1>1, <2>1, <2>2, StorageAtomic, RemoveAtomic, ResumeAtomic, ArrivalAtomic, Zenon DEF Step
<1>2. ASSUME NEW p \in Procs, Crash(p) \/ StoreAddFails(p)
      PROVE  (\A q \in Procs : KindInv(q)') /\ Safe
  BY <1>2, <1>r, <1>k, FaultKind, CrashAtomic, ResumeAtomic, Zenon
<1>3. ASSUME NEW p \in Procs, LockTimesOut(p) PROVE FALSE
  BY <1>3, Zenon DEF LockTimesOut
<1>4. ASSUME (\E n \in Nodes : Reconcile(n)) \/ Expiry \/ Tick \/ UNCHANGED vars
      PROVE  (\A q \in Procs : KindInv(q)') /\ Safe
  <2>1. UNCHANGED <<record, pc, opts, sbx>> /\ (now' = now \/ now' = now + 1)
    BY <1>4, Zenon
       DEF Reconcile, ReconcileList, ReconcileCheck, BackgroundKill, Tick, Expiry, LockExpires,
           TransitionLockExpires, TransitionExpires, ResultExpires, vars, redisVars, localVars
  <2> QED
    BY <2>1, EnvironmentAtomic, Zenon
<1> QED
  BY <1>1, <1>2, <1>3, <1>4, Zenon DEF Next

LEMMA InitAtomic == Init => AtomicInv /\ Atomic!Init
<1> SUFFICES ASSUME Init PROVE AtomicInv /\ Atomic!Init
  BY Zenon
<1>1. RecordInv /\ record \in Sandbox \cup {None}
  BY InitRecordInv, Zenon DEF RecordInv, OwnerInv, TypeInv, TypeOK
<1>2. \A p \in Procs : pc[p] = "idle"
  BY Zenon DEF Init
<1>3. \A p \in Procs : KindInv(p) /\ FindsInv(p)
  BY <1>2, Zenon DEF KindInv, FindsInv, Resuming, HoldsLock, OwnsTransition
<1>4. Owners = {}
  BY <1>2, Zenon DEF Owners, OwnsTransition
<1>5. record # None => record.state = "running"
  BY Zenon DEF Init
<1>6. record \in Atomic!Running \cup {None}
  BY <1>1, <1>5, SameVocabulary, Zenon DEF Atomic!Running
<1>7. Atomic!Init
  BY <1>4, <1>6, Zenon DEF Init, Atomic!Init
<1> QED
  BY <1>1, <1>3, <1>7, Zenon DEF AtomicInv

(* When live processes finish within the TTLs of their keys, the store      *)
(* implements SandboxRecord for any number of requests, eviction loops,     *)
(* nodes and crashes: although StartRemoving, Update and the restore are a  *)
(* GET and a later SET, each of them takes effect at once, at the SET.      *)
THEOREM StoreImplements ==
  ASSUME ~Slow
  PROVE  Spec => StoreIsAtomic
<1>1. AtomicInv /\ [Next]_vars => AtomicInv'
  BY NextAtomic, Zenon
<1>2. AtomicInv /\ [Next]_vars => [Atomic!Next]_(Atomic!vars)
  BY NextAtomic, Zenon DEF Maps
<1> QED
  BY InitAtomic, <1>1, <1>2, PTL DEF Spec, StoreIsAtomic, Atomic!Spec
=============================================================================
