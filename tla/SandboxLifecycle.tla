--------------------------- MODULE SandboxLifecycle ---------------------------
(***************************************************************************)
(* The life of one sandbox ID: the API handlers and background loops that  *)
(* start, resume, pause, checkpoint, kill, extend and evict it              *)
(* (packages/api/internal/orchestrator and handlers), over the Redis store *)
(* of SandboxStorage, the start reservation of the sandbox, the routing    *)
(* catalog, the snapshot row and the VMs the nodes run.                    *)
(*                                                                         *)
(* A request is used once; an eviction loop starts over after each         *)
(* eviction.  The execution a request starts is named after the request.   *)
(***************************************************************************)
EXTENDS SandboxStorage, FiniteSets

CONSTANTS Reqs,        \* API requests
          Evictors,    \* eviction loops, one per API pod
          Ops,         \* the operations the requests may ask for
          FirstExec,   \* the execution before the first start
          FirstNode,   \* the node it runs on at the start
          FirstAuto,   \* does it auto-pause when it expires?
          FirstPaused, \* or is it paused at the start?
          FirstSnaps,  \* what the snapshot row may hold then: an execution, or None
          Timeout,     \* the time to live a start or an extension asks for
          MaxTime,     \* bound on the clock
          MaxFaults    \* bound on crashes and failed Adds

VARIABLES pending,  \* is there a start reservation for the sandbox ID?
          route,    \* the execution the routing catalog points to
          snap,     \* the execution the snapshot row holds, or None
          vm,       \* per node, the execution that runs under the sandbox ID
          strays,   \* executions whose node runs them, but not under the ID
          listed,   \* nodes whose listing (in reconciliation) has an old VM
          kills,    \* nodes with a background Delete RPC under way
          faults    \* crashes and failed Adds so far

lifeVars == <<pending, route, snap, vm, strays, listed, kills, faults>>
vars == <<redisVars, localVars, now, lifeVars>>

ASSUME LifecycleAssumption ==
  /\ Procs = Reqs \cup Evictors
  /\ Execs = Reqs \cup {FirstExec}
  /\ Reqs \cap Evictors = {} /\ FirstExec \notin Reqs
  /\ FirstNode \in Nodes /\ FirstAuto \in BOOLEAN
  /\ FirstPaused \in BOOLEAN /\ FirstSnaps \subseteq {FirstExec, None}
  /\ Timeout \in Nat /\ MaxTime \in Nat /\ MaxFaults \in Nat
  /\ Ops \subseteq Operations \ {"evict"}

Opts(op, action) == [op |-> op, action |-> action, pin |-> None, end |-> 0]

Init ==
  /\ record = IF FirstPaused THEN None
              ELSE [exec |-> FirstExec, node |-> FirstNode, state |-> "running",
                    end |-> Timeout, auto |-> FirstAuto]
  /\ indexed = ~FirstPaused
  /\ lock = None /\ tkey = None /\ tlock = None
  /\ failed = {} /\ lastT = 0 /\ now = 0
  /\ pc = [p \in Procs |-> "idle"]
  /\ opts = [p \in Procs |-> Opts("kill", "kill")]
  /\ sbx = [p \in Procs |-> None]
  /\ tid = [p \in Procs |-> None]
  /\ cb = [p \in Procs |-> "none"]
  /\ pending = FALSE
  /\ route = IF FirstPaused THEN None ELSE FirstExec
  /\ snap \in FirstSnaps
  /\ vm = [n \in Nodes |-> IF n = FirstNode /\ ~FirstPaused THEN FirstExec ELSE None]
  /\ strays = {} /\ listed = {} /\ kills = {} /\ faults = 0

(******************************* arrivals **********************************)

Request(op) ==
  CASE op = "kill"       -> <<"obtain", Opts(op, "kill")>>
    [] op = "adminKill"  -> <<"obtain", Opts(op, "kill")>>
    [] op = "pinnedKill" -> <<"obtain", [Opts(op, "kill") EXCEPT !.pin = record.exec]>>
    [] op = "pause"      -> <<"obtain", Opts(op, "pause")>>
    [] op = "checkpoint" -> <<"obtain", Opts(op, "snapshot")>>
    [] op = "extend"     -> <<"update", [Opts(op, "kill") EXCEPT !.end = now + Timeout]>>
    [] op = "resume"     -> <<"resume", Opts(op, "kill")>>

(* adminKill and pinnedKill act on a scan that found the sandbox running. *)
Arrive(p) ==
  /\ p \in Reqs /\ pc[p] = "idle"
  /\ \E op \in Ops :
       /\ op \in {"adminKill", "pinnedKill"} => record # None /\ record.state = "running"
       /\ Goto(p, Request(op)[1])
       /\ opts' = [opts EXCEPT ![p] = Request(op)[2]]
  /\ UNCHANGED <<redisVars, sbx, tid, cb, now, lifeVars>>

(* Mutant: a sandbox stuck in a transition is never looked at again. *)
EvictRunningOnly(p) ==
  /\ p \in Evictors /\ pc[p] \in {"idle", "failed", "done"}
  /\ record # None /\ IsExpired(record) /\ record.state = "running"
  /\ Goto(p, "obtain")
  /\ opts' = [opts EXCEPT ![p] = Opts("evict", IF record.auto THEN "pause" ELSE "kill")]
  /\ UNCHANGED <<redisVars, sbx, tid, cb, now, lifeVars>>

(* The evictor finds the sandbox in ExpiredItems and picks the action from  *)
(* the record it has read.                                                  *)
Evict(p) ==
  /\ p \in Evictors /\ pc[p] \in {"idle", "failed", "done"}
  /\ record # None /\ IsExpired(record)
  /\ record.state = "running" \/ IsStale(record)
  /\ Goto(p, "obtain")
  /\ opts' = [opts EXCEPT ![p] = Opts("evict", IF record.auto THEN "pause" ELSE "kill")]
  /\ UNCHANGED <<redisVars, sbx, tid, cb, now, lifeVars>>

(****************************** RemoveSandbox ******************************)

(* The work was already under way, or the record is stuck in the target     *)
(* state: a checkpoint reports a conflict, a removal succeeds, cleaning up  *)
(* a record that expired long ago.                                          *)
AlreadyDone(p) ==
  /\ pc[p] = "alreadyDone"
  /\ Goto(p, IF opts[p].action = "snapshot" THEN "failed"
             ELSE IF IsStale(sbx[p]) THEN "staleRemove" ELSE "finished")
  /\ cb' = [cb EXCEPT ![p] = "none"]
  /\ UNCHANGED <<redisVars, opts, sbx, tid, now, lifeVars>>

(* The kill handler drops the snapshot row of a sandbox that is not stored. *)
NotFound(p) ==
  /\ pc[p] = "notFound"
  /\ snap' = IF opts[p].op = "kill" THEN None ELSE snap
  /\ Goto(p, "failed")
  /\ UNCHANGED <<redisVars, opts, sbx, tid, cb, now, pending, route, vm, strays, listed, kills, faults>>

(* removeSandboxFromNode: drop the route of this execution (the node may    *)
(* also be unknown to this pod, which fails the removal at once) ...        *)
Unroute(p) ==
  /\ pc[p] = "started" /\ opts[p].action # "snapshot"
  /\ \/ /\ route' = IF route = sbx[p].exec THEN None ELSE route
        /\ Goto(p, "node")
        /\ UNCHANGED cb
     \/ /\ cb' = [cb EXCEPT ![p] = "error"]
        /\ Goto(p, "remove")
        /\ UNCHANGED route
  /\ UNCHANGED <<redisVars, opts, sbx, tid, now, pending, snap, vm, strays, listed, kills, faults>>

(* ... then ask the node, which knows VMs by sandbox ID, to kill the VM ... *)
KillOnNode(p) ==
  /\ pc[p] = "node" /\ opts[p].action = "kill"
  /\ \E err \in {"none", "error"}, done \in BOOLEAN :
       /\ err = "none" => done
       /\ cb' = [cb EXCEPT ![p] = err]
       /\ vm' = IF done THEN [vm EXCEPT ![sbx[p].node] = None] ELSE vm
  /\ Goto(p, "remove")
  /\ UNCHANGED <<redisVars, opts, sbx, tid, now, pending, route, snap, strays, listed, kills, faults>>

(* ... or to pause it: snapshot and stop it, refuse and leave it running,   *)
(* or stop it and fail.                                                     *)
PauseOnNode(p) ==
  LET n == sbx[p].node
  IN  /\ pc[p] = "node" /\ opts[p].action = "pause"
      /\ \/ /\ vm[n] # None
            /\ vm' = [vm EXCEPT ![n] = None]
            /\ snap' = vm[n]
            /\ UNCHANGED cb
         \/ /\ cb' = [cb EXCEPT ![p] = "error"]
            /\ \/ UNCHANGED vm
               \/ vm' = [vm EXCEPT ![n] = None]
            /\ UNCHANGED snap
      /\ Goto(p, "remove")
      /\ UNCHANGED <<redisVars, opts, sbx, tid, now, pending, route, strays, listed, kills, faults>>

(* Store.Remove: storage.Remove, then reservations.Release. *)
StoreRemove(p) ==
  /\ pc[p] \in {"remove", "staleRemove"}
  /\ RemoveRecord(p)
  /\ Goto(p, IF pc[p] = "remove" THEN "release" ELSE "staleRelease")
  /\ UNCHANGED <<opts, sbx, tid, cb, now, lifeVars>>

ReleaseReservation(p) ==
  /\ pc[p] \in {"release", "staleRelease"}
  /\ pending' = FALSE
  /\ Goto(p, IF pc[p] = "release" THEN "finish" ELSE "finished")
  /\ UNCHANGED <<redisVars, opts, sbx, tid, cb, now, route, snap, vm, strays, listed, kills, faults>>

(* After the callback: a failed checkpoint goes on to kill the sandbox, the *)
(* kill handler drops the snapshot row, the others return.                  *)
Return(p) ==
  /\ pc[p] = "finished"
  /\ IF opts[p].action = "snapshot" /\ cb[p] = "error"
       THEN /\ Goto(p, "obtain")
            /\ opts' = [opts EXCEPT ![p].action = "kill"]
            /\ cb' = [cb EXCEPT ![p] = "none"]
            /\ UNCHANGED snap
       ELSE /\ Goto(p, IF cb[p] = "none" THEN "done" ELSE "failed")
            /\ snap' = IF opts[p].op = "kill" /\ cb[p] = "none" THEN None ELSE snap
            /\ UNCHANGED <<opts, cb>>
  /\ UNCHANGED <<redisVars, sbx, tid, now, pending, route, vm, strays, listed, kills, faults>>

(**************************** CheckpointSandbox ****************************)

(* The node checkpoints the VM in place, or rejects the call: the record is *)
(* restored.  A caller that went away does not learn what happened and      *)
(* restores too.  A failed checkpoint has stopped the VM, unless the call   *)
(* did not reach the node.                                                  *)
CheckpointOnNode(p) ==
  LET n == sbx[p].node
  IN  /\ pc[p] = "started" /\ opts[p].action = "snapshot"
      /\ \/ /\ vm[n] # None /\ snap' = vm[n]
            /\ UNCHANGED <<vm, cb>>
            /\ Goto(p, "restore")
         \/ /\ UNCHANGED <<vm, cb, snap>>
            /\ Goto(p, "restore")
         \/ /\ vm' = [vm EXCEPT ![n] = None]
            /\ Goto(p, "restore")
            /\ UNCHANGED <<cb, snap>>
         \/ /\ UNCHANGED vm \/ vm' = [vm EXCEPT ![n] = None]
            /\ cb' = [cb EXCEPT ![p] = "error"]
            /\ Goto(p, "finish")
            /\ UNCHANGED snap
      /\ UNCHANGED <<redisVars, opts, sbx, tid, now, pending, route, strays, listed, kills, faults>>

(********************************** resume *********************************)

(* The resume handler: GetSandbox; a sandbox being paused is waited for, any *)
(* other stored one is refused.                                              *)
ResumeGet(p) ==
  /\ pc[p] = "resume"
  /\ Goto(p, IF record = None THEN "waited"
             ELSE IF record.state = "pausing" THEN "waitForStateChange" ELSE "failed")
  /\ UNCHANGED <<redisVars, opts, sbx, tid, cb, now, lifeVars>>

(* There must be a snapshot row to resume from. *)
ResumeLookup(p) ==
  /\ pc[p] = "waited"
  /\ Goto(p, IF snap = None THEN "failed" ELSE "reserve")
  /\ UNCHANGED <<redisVars, opts, sbx, tid, cb, now, lifeVars>>

(* Starts that hold the reservation of the sandbox ID. *)
Starting == {p \in Reqs : pc[p] \in {"place", "add", "route", "finishStart"}}

(* reserveScript.  A reservation older than staleTTL is purged first: one a *)
(* dead start left behind or, when Slow, any.  A stored or pending sandbox  *)
(* is answered with the other start's; the team may be at its limit.        *)
Reserve(p) ==
  /\ pc[p] = "reserve"
  /\ \E stale \in BOOLEAN :
       /\ stale => pending /\ (Slow \/ Starting = {})
       /\ \/ /\ indexed
             /\ pending' = (pending /\ ~stale)
             /\ Goto(p, "done")
          \/ /\ ~indexed /\ pending /\ ~stale
             /\ Goto(p, "waitForStart")
             /\ UNCHANGED pending
          \/ /\ ~indexed /\ (pending => stale)
             /\ \/ pending' = TRUE /\ Goto(p, "place")
                \/ pending' = FALSE /\ Goto(p, "failed")
  /\ UNCHANGED <<redisVars, opts, sbx, tid, cb, now, route, snap, vm, strays, listed, kills, faults>>

(* tryReadResult: over, with a sandbox or an error, when the reservation is *)
(* gone.                                                                    *)
WaitForStart(p) ==
  /\ pc[p] = "waitForStart"
  /\ ~pending
  /\ Goto(p, "done")
  /\ UNCHANGED <<redisVars, opts, sbx, tid, cb, now, lifeVars>>

(* Fetch the snapshot again and place the VM on a node, whatever runs there *)
(* already: the node starts the VM and registers it unless the sandbox ID   *)
(* is taken (MarkRunning, see NodeServer), and reports success either way.  *)
(* A create call can be lost after the node acted.                          *)
Place(p) ==
  /\ pc[p] = "place"
  /\ \/ \E n \in Nodes, auto \in BOOLEAN :
          /\ snap # None
          /\ vm' = [vm EXCEPT ![n] = IF vm[n] = None THEN p ELSE vm[n]]
          /\ strays' = IF vm[n] = None THEN strays ELSE strays \cup {p}
          /\ \/ /\ sbx' = [sbx EXCEPT ![p] = [exec |-> p, node |-> n, state |-> "running",
                                               end |-> now + Timeout, auto |-> auto]]
                /\ Goto(p, "add")
             \/ /\ Goto(p, "finishStart")
                /\ UNCHANGED sbx
     \/ /\ Goto(p, "finishStart")
        /\ UNCHANGED <<vm, strays, sbx>>
  /\ UNCHANGED <<redisVars, opts, tid, cb, now, pending, route, snap, listed, kills, faults>>

(* The node did not honour a filesystem boot: the VM is killed at once. *)
Rollback(p) ==
  /\ pc[p] = "add"
  /\ vm' = [vm EXCEPT ![sbx[p].node] = None]
  /\ Goto(p, "finishStart")
  /\ UNCHANGED <<redisVars, opts, sbx, tid, cb, now, pending, route, snap, strays, listed, kills, faults>>

(* Store.Add: write the record ... *)
StoreAdd(p) ==
  /\ pc[p] = "add"
  /\ AddRecord(p)
  /\ Goto(p, "route")
  /\ UNCHANGED <<opts, sbx, tid, cb, now, lifeVars>>

(* ... or fail to; a goroutine then kills the VM while the start returns. *)
StoreAddFails(p) ==
  /\ pc[p] = "add" /\ faults < MaxFaults
  /\ faults' = faults + 1
  /\ kills' = kills \cup {sbx[p].node}
  /\ Goto(p, "finishStart")
  /\ UNCHANGED <<redisVars, opts, sbx, tid, cb, now, pending, route, snap, vm, strays, listed>>

(* ... and publish the route, whatever the catalog holds. *)
AddRoute(p) ==
  /\ pc[p] = "route"
  /\ route' = p
  /\ Goto(p, "finishStart")
  /\ UNCHANGED <<redisVars, opts, sbx, tid, cb, now, pending, snap, vm, strays, listed, kills, faults>>

(* finishStartScript, with the sandbox or the error the start ended in. *)
FinishStart(p) ==
  /\ pc[p] = "finishStart"
  /\ pending' = FALSE
  /\ Goto(p, "done")
  /\ UNCHANGED <<redisVars, opts, sbx, tid, cb, now, route, snap, vm, strays, listed, kills, faults>>

(***************************** reconciliation ******************************)

(* Node.Sync lists the VMs of a node; those younger than orphanGracePeriod  *)
(* are left out.  With Slow = FALSE a start ends within that period.        *)
ReconcileList(n) ==
  /\ vm[n] # None
  /\ Slow \/ vm[n] \notin Starting
  /\ listed' = listed \cup {n}
  /\ UNCHANGED <<redisVars, localVars, now, pending, route, snap, vm, strays, kills, faults>>

(* Storage.Reconcile: a listed VM is an orphan if nothing is stored under   *)
(* its sandbox ID.                                                          *)
ReconcileCheck(n) ==
  /\ n \in listed
  /\ listed' = listed \ {n}
  /\ kills' = IF record = None THEN kills \cup {n} ELSE kills
  /\ UNCHANGED <<redisVars, localVars, now, pending, route, snap, vm, strays, faults>>

(* killSandboxOnNode, by sandbox ID. *)
BackgroundKill(n) ==
  /\ n \in kills
  /\ kills' = kills \ {n}
  /\ vm' = [vm EXCEPT ![n] = None]
  /\ UNCHANGED <<redisVars, localVars, now, pending, route, snap, strays, listed, faults>>

(********************************* faults **********************************)

(* The kill that follows a failed checkpoint outlives its request. *)
Detached(p) == opts[p].op = "checkpoint" /\ opts[p].action = "kill"

(* A process waiting for a lock, a transition or another start returns an   *)
(* error when its context ends; one that waits for a transition has a copy  *)
(* of the record, and a kill that has found it in Killing succeeds.         *)
GiveUp(p) ==
  /\ pc[p] \in {"obtain", "join", "retry", "update", "wait", "waitForStart"}
  /\ pc[p] \in {"join", "retry"} => ~Detached(p)
  /\ Goto(p, IF pc[p] \in {"join", "retry"} THEN AfterError(p, sbx[p].state) ELSE "failed")
  /\ UNCHANGED <<redisVars, opts, sbx, tid, cb, now, lifeVars>>

(* A removal or a callback runs detached from the request; it gives up only *)
(* after lockTimeout, and its caller carries on.                            *)
LockTimesOut(p) ==
  /\ Slow
  /\ \/ pc[p] = "remove" /\ Goto(p, "release") /\ UNCHANGED cb
     \/ pc[p] = "staleRemove" /\ Goto(p, "staleRelease") /\ UNCHANGED cb
     \/ pc[p] = "restore" /\ Goto(p, "finish") /\ cb' = [cb EXCEPT ![p] = "restoreError"]
     \/ pc[p] = "finish" /\ Goto(p, "finished") /\ UNCHANGED cb
  /\ UNCHANGED <<redisVars, opts, sbx, tid, now, lifeVars>>

(* An API pod dies; its eviction loop starts again with the next one. *)
Crash(p) ==
  /\ pc[p] \notin {"idle", "failed", "done", "crashed"}
  /\ faults < MaxFaults
  /\ faults' = faults + 1
  /\ Goto(p, IF p \in Evictors THEN "idle" ELSE "crashed")
  /\ UNCHANGED <<redisVars, opts, sbx, tid, cb, now, pending, route, snap, vm, strays, listed, kills>>

Tick ==
  /\ now < MaxTime
  /\ now' = now + 1
  /\ UNCHANGED <<redisVars, localVars, lifeVars>>

(***************************** specification *******************************)

StorageStep(p) ==
  /\ \/ ObtainForRemoval(p) \/ CheckTransition(p) \/ StartTransition(p)
     \/ WaitForTransition(p) \/ WaitForStateChange(p)
     \/ RestoreRead(p) \/ RestoreWrite(p) \/ FinishResult(p) \/ FinishDelete(p)
     \/ UpdateRead(p) \/ UpdateWrite(p)
  /\ UNCHANGED <<now, lifeVars>>

RemoveStep(p) ==
  \/ AlreadyDone(p) \/ NotFound(p) \/ Unroute(p) \/ KillOnNode(p) \/ PauseOnNode(p)
  \/ StoreRemove(p) \/ ReleaseReservation(p) \/ CheckpointOnNode(p) \/ Return(p)

ResumeStep(p) ==
  \/ ResumeGet(p) \/ ResumeLookup(p) \/ Reserve(p) \/ WaitForStart(p) \/ Place(p)
  \/ Rollback(p) \/ StoreAdd(p) \/ AddRoute(p) \/ FinishStart(p)

Step(p) == StorageStep(p) \/ RemoveStep(p) \/ ResumeStep(p)

Expiry ==
  /\ LockExpires \/ TransitionLockExpires \/ TransitionExpires \/ ResultExpires
  /\ UNCHANGED <<localVars, now, lifeVars>>

Reconcile(n) == ReconcileList(n) \/ ReconcileCheck(n) \/ BackgroundKill(n)

Next ==
  \/ \E p \in Procs : \/ Step(p) \/ Arrive(p) \/ Evict(p)
                      \/ GiveUp(p) \/ LockTimesOut(p) \/ Crash(p) \/ StoreAddFails(p)
  \/ \E n \in Nodes : Reconcile(n)
  \/ Expiry
  \/ Tick

Spec == Init /\ [][Next]_vars

(* A process that can go on does.  Steps that take a lock get strong        *)
(* fairness: Obtain polls (and is woken by every release) while the others  *)
(* hold the lock for two Redis calls and the evictor sleeps between sweeps. *)
(* A TTL, the node sync and the clock are timers.  Requests need not come,  *)
(* no caller needs to give up, nothing needs to fail.                       *)
TakeLock(p) ==
  \/ (ObtainForRemoval(p) \/ RestoreRead(p) \/ FinishResult(p) \/ UpdateRead(p))
       /\ UNCHANGED <<now, lifeVars>>
  \/ StoreRemove(p)

Expires(A) == A /\ UNCHANGED <<localVars, now, lifeVars>>

Fairness ==
  /\ \A p \in Procs : WF_vars(Step(p)) /\ SF_vars(TakeLock(p)) /\ WF_vars(Evict(p))
  /\ WF_vars(Expires(LockExpires)) /\ WF_vars(Expires(TransitionLockExpires))
  /\ WF_vars(Expires(TransitionExpires))
  /\ \A n \in Nodes : /\ WF_vars(ReconcileList(n)) /\ WF_vars(ReconcileCheck(n))
                       /\ WF_vars(BackgroundKill(n))
  /\ WF_vars(Tick)

FairSpec == Spec /\ Fairness

(******************************* invariants ********************************)

PCs == {"idle", "obtain", "check", "start", "started", "join", "retry", "wait",
        "waitForStateChange", "waited", "alreadyDone", "notFound", "node", "remove",
        "release", "staleRemove", "staleRelease", "restore", "restoreWrite", "finish",
        "finishDel", "finished", "update", "updateWrite", "resume", "reserve",
        "waitForStart", "place", "add", "route", "finishStart", "failed", "done", "crashed"}

(* Type invariant. *)
TypeOK ==
  /\ record \in Sandbox \cup {None} /\ indexed \in BOOLEAN
  /\ lock \in Procs \cup {None} /\ tlock \in Procs \cup {None}
  /\ lastT \in Nat /\ tkey \in (1 .. lastT) \cup {None} /\ failed \subseteq 1 .. lastT
  /\ now \in 0 .. MaxTime /\ faults \in 0 .. MaxFaults
  /\ pc \in [Procs -> PCs] /\ opts \in [Procs -> RemoveOpts]
  /\ sbx \in [Procs -> Sandbox \cup {None}]
  /\ tid \in [Procs -> (1 .. lastT) \cup {None}]
  /\ cb \in [Procs -> {"none", "error", "restoreError"}]
  /\ pending \in BOOLEAN /\ route \in Execs \cup {None} /\ snap \in Execs \cup {None}
  /\ vm \in [Nodes -> Execs \cup {None}] /\ strays \subseteq Execs
  /\ listed \subseteq Nodes /\ kills \subseteq Nodes

(* At most one process works on a transition of the sandbox, from the start *)
(* script to the end of its completion callback, and the transition key     *)
(* names that transition all the while.  So the callback's DEL, which does  *)
(* not look at the key, never ends another process's transition.            *)
SingleOwner ==
  \A p \in Procs : pc[p] \in OwnsTransition =>
    /\ tkey = tid[p]
    /\ \A q \in Procs : pc[q] \in OwnsTransition => q = p

(* The team index and the record agree: neither the start of a transition,  *)
(* nor an extension, nor the restore after a checkpoint, all of which SET   *)
(* the record without looking, brings back one that a removal has deleted.  *)
IndexAgrees == indexed <=> record # None

(* A sandbox that is being removed has an end time in the past, whatever    *)
(* extensions, checkpoints and evictions race with the removal, so that the *)
(* expiration index will show it to the evictor if the removal is lost.     *)
RemovingIsExpired ==
  record # None /\ record.state \in {"pausing", "killing"} => record.end <= now

(* Does the VM of an execution run, under the sandbox ID or beside it? *)
Runs(x) == x \in strays \/ \E n \in Nodes : vm[n] = x

(* A pause reported as successful, by the process that did it or by one     *)
(* that joined it, has stopped the VM of the execution the process had      *)
(* read, unless that VM was started on a node where the sandbox ID was      *)
(* taken; and there is a snapshot to resume from unless a kill came.        *)
PausedIsResumable ==
  \A p \in Procs : pc[p] = "done" /\ opts[p].action = "pause" =>
    /\ Runs(sbx[p].exec) => sbx[p].exec \in strays
    /\ snap # None \/ \E q \in Procs : opts[q].op = "kill" /\ pc[q] \in {"done", "failed"}

(* A kill reported as successful has stopped the VM of the execution that   *)
(* the process had read.                                                    *)
KilledIsStopped ==
  \A p \in Procs : pc[p] = "done" /\ opts[p].op = "kill" => ~Runs(sbx[p].exec)

(* The VM of a stored execution runs under the sandbox ID, so that a        *)
(* removal, which asks the node by that ID, reaches it.                     *)
NoStray == record # None => record.exec \notin strays

(* Two processes never start the same sandbox ID at the same time. *)
OneStart == \A p, q \in Starting : p = q

(**************************** action properties ****************************)

(* While it is stored, an execution changes state only along the            *)
(* AllowedTransitions: no write of a record read earlier takes a sandbox    *)
(* out of Killing, or from Pausing back to Running.                         *)
RecordMoves ==
  [][record # None /\ record' # None /\ record'.exec = record.exec /\ record'.state # record.state
       => record'.state \in AllowedTransitions[record.state]]_vars

(* An eviction never takes down an execution whose end time, as stored at   *)
(* that moment, has not passed: an extension that was acknowledged wins.    *)
EvictOnlyExpired ==
  [][\A p \in Procs : /\ opts[p].op = "evict" /\ pc[p] = "start" /\ pc'[p] = "started"
                      /\ record # None /\ record.exec = sbx[p].exec
                      => IsExpired(record)]_vars

(* A removal pinned to an execution never starts a transition of another    *)
(* one, even when locks expire and starts Add records without the lock.     *)
PinHolds ==
  [][\A p \in Procs : opts[p].pin # None /\ pc[p] = "start" /\ pc'[p] = "started"
       => record # None /\ record.exec = opts[p].pin /\ record'.exec = opts[p].pin]_vars

(* Reconciliation does not kill the VM of a start that is under way. *)
StartsSurvive ==
  [][\A p \in Reqs, n \in Nodes :
       pc[p] \in {"add", "route", "finishStart"} /\ pc'[p] = pc[p] /\ vm[n] = p
         /\ kills # kills' => vm'[n] = p]_vars

(******************************* refinement ********************************)

Owners == {p \in Procs : pc[p] \in OwnsTransition}

Atomic == INSTANCE SandboxRecord WITH stored <- record, owners <- Owners

(* With one lock, a transition key and scripts, the store makes each of its *)
(* operations on the record atomic: whatever the requests, eviction loops   *)
(* and crashes interleave with between a GET and the SET that follows it,   *)
(* they implement SandboxRecord.                                            *)
StoreIsAtomic == Atomic!Spec

(******************************** liveness *********************************)

(* Every request is answered, although the one it waits for may have died:  *)
(* the locks and the transition key of a dead process expire.  Only a       *)
(* request that waits for a start whose process died is not covered.        *)
Answered ==
  \A p \in Reqs : pc[p] # "idle" ~> \/ pc[p] \in {"done", "failed", "crashed"}
                                    \/ pc[p] = "waitForStart" /\ Starting = {}

(* A request that waits for another start stops waiting. *)
WaitersReleased == \A p \in Reqs : pc[p] = "waitForStart" ~> pc[p] # "waitForStart"

(* A VM whose execution is not the stored one is killed, or gets stored. *)
OrphansKilled ==
  \A n \in Nodes, x \in Execs :
    vm[n] = x /\ (record = None \/ record.exec # x) ~>
      vm[n] # x \/ (record # None /\ record.exec = x)

(* Once a sandbox is past its end for good, its record goes and so do the   *)
(* VMs under its ID: the evictor and the reconciliation finish what failed  *)
(* or dead removals left.  Nothing lists or stops the strays.               *)
EventuallyGone == <>[](record = None /\ \A n \in Nodes : vm[n] = None)
=============================================================================
