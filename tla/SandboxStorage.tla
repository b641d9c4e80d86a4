---------------------------- MODULE SandboxStorage ----------------------------
(***************************************************************************)
(* The Redis backed sandbox store of the API                               *)
(* (packages/api/internal/sandbox/storage/redis), for one sandbox ID.      *)
(*                                                                         *)
(* Every API pod works on the same Redis keys: the record, its membership  *)
(* in the team index, the distributed lock of the record, the transition   *)
(* key with its own lock, and one result key per transition.  A process is *)
(* one API request, or the eviction loop of one pod; its local variables   *)
(* are the Go locals that live across Redis calls.  One action is one      *)
(* Redis call (a Lua script is one call), together with the Go code that   *)
(* decides on its answer.                                                  *)
(*                                                                         *)
(* Keys with a TTL may vanish.  With Slow = FALSE every live process ends  *)
(* its work within the TTLs, so only what a dead process left behind       *)
(* expires (the comment on transitionKeyTTL states this intention); with   *)
(* Slow = TRUE a key may expire under a live process.                      *)
(***************************************************************************)
EXTENDS Naturals, SandboxStates

CONSTANTS Procs,        \* API requests and eviction loops
          Execs,        \* execution IDs, one per VM ever started
          Nodes,        \* orchestrator nodes
          None,         \* an absent key, lock holder or value
          StaleCutoff,  \* sandboxtypes.StaleCutoff, in ticks of the clock
          Slow          \* may live processes outlive the TTLs of their keys?

VARIABLES record,   \* the stored sandbox, or None
          indexed,  \* is the sandbox ID in the team index?
          lock,     \* the process holding the lock of the record
          tkey,     \* transition key: the ID of the transition in flight
          tlock,    \* the process holding the lock of the transition key
          failed,   \* transitions whose result key holds an error message
          lastT,    \* the last transition ID handed out
          now,      \* wall clock
          pc,       \* where each process is
          opts,     \* the operation it serves and its parameters
          sbx,      \* its copy of the record
          tid,      \* the transition it owns or waits for
          cb        \* the error its completion callback will be given

redisVars == <<record, indexed, lock, tkey, tlock, failed, lastT>>
localVars == <<pc, opts, sbx, tid, cb>>

Sandbox == [exec : Execs, node : Nodes, state : States, end : Nat, auto : BOOLEAN]

Operations == {"kill", "adminKill", "pinnedKill", "pause", "checkpoint", "extend", "resume", "evict"}

(* RemoveOpts (Eviction is op = "evict", ExpectExecutionID is pin) and, for *)
(* an extension, the new end time.                                          *)
RemoveOpts == [op : Operations, action : Actions, pin : Execs \cup {None}, end : Nat]

ASSUME NoneAssumption == /\ None \notin Procs
                         /\ None \notin Execs
                         /\ None \notin Nat
                         /\ None \notin Sandbox

ASSUME SlowAssumption == Slow \in BOOLEAN /\ StaleCutoff \in Nat

(* Between Obtain and Release of the record's lock. *)
HoldsLock == {"check", "start", "restoreWrite", "updateWrite"}

(* Between the start of a transition and the end of its callback. *)
OwnsTransition == {"started", "node", "remove", "release",
                   "restore", "restoreWrite", "finish", "finishDel"}

IsExpired(s) == now > s.end

IsStale(s) == now > s.end + StaleCutoff

Goto(p, l) == pc' = [pc EXCEPT ![p] = l]

(* redislock releases a lock only while it still belongs to the caller. *)
ReleaseLock(p) == lock' = IF lock = p THEN None ELSE lock

(*************************** StartRemoving *********************************)

(* How RemoveSandbox reports an error of StartRemoving, given the state the  *)
(* error came with: a kill of a sandbox in Killing counts as a success.      *)
AfterError(p, state) ==
  IF opts[p].action = "kill" /\ opts[p].op # "evict" /\ state = "killing"
    THEN "finished" ELSE "failed"

(* Obtain the lock, GET the record, compare it with the caller's pin. *)
ObtainForRemoval(p) ==
  /\ pc[p] = "obtain"
  /\ lock = None
  /\ IF record # None /\ (opts[p].pin = None \/ opts[p].pin = record.exec)
       THEN /\ lock' = p
            /\ sbx' = [sbx EXCEPT ![p] = record]
            /\ Goto(p, "check")
       ELSE /\ Goto(p, IF record = None THEN "notFound" ELSE AfterError(p, record.state))
            /\ UNCHANGED <<lock, sbx>>
  /\ UNCHANGED <<record, indexed, tkey, tlock, failed, lastT, opts, tid, cb>>

(* Mutant: no look at the end time under the lock. *)
RefuseEvictionNoRecheck(p) == opts[p].op = "evict" /\ tkey # None

(* An eviction gives way to a transition in flight and to an extension. *)
RefuseEviction(p) == opts[p].op = "evict" /\ (tkey # None \/ ~IsExpired(sbx[p]))

(* Mutant: a transition in flight to another state is not waited for. *)
AfterCheckNoWait(p) ==
  LET target == TargetState[opts[p].action]
  IN  IF sbx[p].state = target THEN (IF tkey # None THEN "join" ELSE "alreadyDone")
      ELSE IF target \in AllowedTransitions[sbx[p].state] THEN "start" ELSE "failed"

(* GET the transition key: refuse, wait, report the work as done, or go on. *)
AfterCheck(p) ==
  LET target  == TargetState[opts[p].action]
      same    == sbx[p].state = target
      allowed == target \in AllowedTransitions[sbx[p].state]
  IN  IF RefuseEviction(p) \/ ~(same \/ allowed) THEN "failed"
      ELSE IF tkey # None THEN (IF same THEN "join" ELSE "retry")
      ELSE IF same THEN "alreadyDone" ELSE "start"

CheckTransition(p) ==
  /\ pc[p] = "check"
  /\ Goto(p, AfterCheck(p))
  /\ IF AfterCheck(p) = "start" THEN UNCHANGED lock ELSE ReleaseLock(p)
  /\ tid' = [tid EXCEPT ![p] = IF AfterCheck(p) \in {"join", "retry"} THEN tkey ELSE None]
  /\ UNCHANGED <<record, indexed, tkey, tlock, failed, lastT, opts, sbx, cb>>

(* Mutants: the name of the action is stored; the end time is left alone. *)
TransitionedToAction(p) == [sbx[p] EXCEPT !.state = opts[p].action]

TransitionedKeepEnd(p) == [sbx[p] EXCEPT !.state = TargetState[opts[p].action]]

(* The record StartRemoving writes: computed from the copy it has read. *)
Transitioned(p) ==
  [sbx[p] EXCEPT !.state = TargetState[opts[p].action],
                 !.end   = IF Effect[opts[p].action] = "expires" /\ ~IsExpired(sbx[p])
                             THEN now ELSE @]

(* Mutant: the pin is compared in StartRemoving only, not in the script. *)
StartTransitionUnpinned(p) ==
  /\ pc[p] = "start"
  /\ record' = Transitioned(p)
  /\ sbx' = [sbx EXCEPT ![p] = Transitioned(p)]
  /\ lastT' = lastT + 1
  /\ tkey' = lastT + 1
  /\ tid' = [tid EXCEPT ![p] = lastT + 1]
  /\ cb' = [cb EXCEPT ![p] = "none"]
  /\ Goto(p, "started")
  /\ ReleaseLock(p)
  /\ UNCHANGED <<indexed, tlock, failed, opts>>

(* startTransitionScript, and the release of the lock. *)
StartTransition(p) ==
  /\ pc[p] = "start"
  /\ IF opts[p].pin = None \/ (record # None /\ record.exec = opts[p].pin)
       THEN /\ record' = Transitioned(p)
            /\ sbx' = [sbx EXCEPT ![p] = Transitioned(p)]
            /\ lastT' = lastT + 1
            /\ tkey' = lastT + 1
            /\ tid' = [tid EXCEPT ![p] = lastT + 1]
            /\ cb' = [cb EXCEPT ![p] = "none"]
            /\ Goto(p, "started")
       ELSE /\ Goto(p, AfterError(p, sbx[p].state))
            /\ UNCHANGED <<record, sbx, lastT, tkey, tid, cb>>
  /\ ReleaseLock(p)
  /\ UNCHANGED <<indexed, tlock, failed, opts>>

(* Mutant: the result of the transition is not looked at. *)
AfterWaitNoResult(p) ==
  CASE pc[p] = "join"  -> "alreadyDone"
    [] pc[p] = "retry" -> "obtain"
    [] pc[p] = "wait"  -> "waited"

(* waitForTransition and checkTransitionResult, on the fallback ticker: a   *)
(* missing result counts as success.                                        *)
AfterWait(p) ==
  IF tid[p] \in failed THEN (IF pc[p] = "wait" THEN "failed" ELSE AfterError(p, sbx[p].state))
  ELSE CASE pc[p] = "join"  -> "alreadyDone"
         [] pc[p] = "retry" -> "obtain"
         [] pc[p] = "wait"  -> "waited"

WaitForTransition(p) ==
  /\ pc[p] \in {"join", "retry", "wait"}
  /\ tkey # tid[p]
  /\ Goto(p, AfterWait(p))
  /\ UNCHANGED <<redisVars, opts, sbx, tid, cb>>

(* WaitForStateChange: GET the transition key first. *)
WaitForStateChange(p) ==
  /\ pc[p] = "waitForStateChange"
  /\ tid' = [tid EXCEPT ![p] = tkey]
  /\ Goto(p, IF tkey = None THEN "waited" ELSE "wait")
  /\ UNCHANGED <<redisVars, opts, sbx, cb>>

(************************ the completion callback **************************)

(* restoreToRunning is an Update: obtain the lock and GET the record ... *)
RestoreRead(p) ==
  /\ pc[p] = "restore"
  /\ lock = None
  /\ IF record # None
       THEN /\ lock' = p
            /\ sbx' = [sbx EXCEPT ![p] = record]
            /\ Goto(p, "restoreWrite")
            /\ UNCHANGED cb
       ELSE /\ cb' = [cb EXCEPT ![p] = "restoreError"]
            /\ Goto(p, "finish")
            /\ UNCHANGED <<lock, sbx>>
  /\ UNCHANGED <<record, indexed, tkey, tlock, failed, lastT, opts, tid>>

(* ... then SET it, as it was read unless it is still in the transient state. *)
RestoreWrite(p) ==
  /\ pc[p] = "restoreWrite"
  /\ record' = IF sbx[p].state = TargetState[opts[p].action]
                 THEN [sbx[p] EXCEPT !.state = "running"] ELSE sbx[p]
  /\ ReleaseLock(p)
  /\ Goto(p, "finish")
  /\ UNCHANGED <<indexed, tkey, tlock, failed, lastT, opts, sbx, tid, cb>>

(* Obtain the transition key's lock and SET the result key. *)
ResultIsError(p) == \/ cb[p] = "restoreError"
                    \/ cb[p] = "error" /\ Effect[opts[p].action] = "expires"

FinishResult(p) ==
  /\ pc[p] = "finish"
  /\ tlock = None
  /\ tlock' = p
  /\ failed' = IF ResultIsError(p) THEN failed \cup {tid[p]} ELSE failed \ {tid[p]}
  /\ Goto(p, "finishDel")
  /\ UNCHANGED <<record, indexed, lock, tkey, lastT, opts, sbx, tid, cb>>

(* DEL the transition key, whichever transition it names, and notify. *)
FinishDelete(p) ==
  /\ pc[p] = "finishDel"
  /\ tkey' = None
  /\ tlock' = IF tlock = p THEN None ELSE tlock
  /\ Goto(p, "finished")
  /\ UNCHANGED <<record, indexed, lock, failed, lastT, opts, sbx, tid, cb>>

(*************************** Add, Remove, Update ***************************)

(* addSandboxScript: lockless, whatever is stored. *)
AddRecord(p) ==
  /\ record' = sbx[p]
  /\ indexed' = TRUE
  /\ UNCHANGED <<lock, tkey, tlock, failed, lastT>>

(* removeSandboxScript under the lock: whichever execution is stored. *)
RemoveRecord(p) ==
  /\ lock = None
  /\ record' = None
  /\ indexed' = FALSE
  /\ UNCHANGED <<lock, tkey, tlock, failed, lastT>>

(* Mutant: the record is read without the lock. *)
UpdateReadNoLock(p) ==
  /\ pc[p] = "update"
  /\ IF record # None /\ record.state = "running"
       THEN sbx' = [sbx EXCEPT ![p] = record] /\ Goto(p, "updateWrite")
       ELSE Goto(p, "failed") /\ UNCHANGED sbx
  /\ UNCHANGED <<record, indexed, lock, tkey, tlock, failed, lastT, opts, tid, cb>>

(* Update with the updateFunc of KeepAliveFor: obtain the lock, GET ... *)
UpdateRead(p) ==
  /\ pc[p] = "update"
  /\ lock = None
  /\ IF record # None /\ record.state = "running"
       THEN /\ lock' = p
            /\ sbx' = [sbx EXCEPT ![p] = record]
            /\ Goto(p, "updateWrite")
       ELSE /\ Goto(p, "failed")
            /\ UNCHANGED <<lock, sbx>>
  /\ UNCHANGED <<record, indexed, tkey, tlock, failed, lastT, opts, tid, cb>>

(* ... and SET, with the new end time or, when it would shorten the life of *)
(* the sandbox and the caller did not allow that, with the old one.         *)
UpdateWrite(p) ==
  /\ pc[p] = "updateWrite"
  /\ \E end \in {opts[p].end} \cup (IF opts[p].end < sbx[p].end THEN {sbx[p].end} ELSE {}) :
       record' = [sbx[p] EXCEPT !.end = end]
  /\ ReleaseLock(p)
  /\ Goto(p, "done")
  /\ UNCHANGED <<indexed, tkey, tlock, failed, lastT, opts, sbx, tid, cb>>

(******************************** TTLs *************************************)

(* A holder that is no longer in its critical section died in it. *)
LockExpires ==
  /\ lock # None
  /\ Slow \/ pc[lock] \notin HoldsLock
  /\ lock' = None
  /\ UNCHANGED <<record, indexed, tkey, tlock, failed, lastT>>

TransitionLockExpires ==
  /\ tlock # None
  /\ Slow \/ pc[tlock] # "finishDel"
  /\ tlock' = None
  /\ UNCHANGED <<record, indexed, lock, tkey, failed, lastT>>

(* Mutant: the transition key is set without a TTL. *)
TransitionNeverExpires == FALSE /\ UNCHANGED redisVars

TransitionExpires ==
  /\ tkey # None
  /\ Slow \/ \A p \in Procs : ~(tid[p] = tkey /\ pc[p] \in OwnsTransition)
  /\ tkey' = None
  /\ UNCHANGED <<record, indexed, lock, tlock, failed, lastT>>

(* The result key outlives its transition by transitionResultKeyTTL. *)
ResultExpires ==
  /\ Slow
  /\ \E t \in failed : failed' = failed \ {t}
  /\ UNCHANGED <<record, indexed, lock, tkey, tlock, lastT>>
=============================================================================
