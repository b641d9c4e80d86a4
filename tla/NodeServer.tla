----------------------------- MODULE NodeServer -----------------------------
(***************************************************************************)
(* The sandbox RPCs of an orchestrator node                                *)
(* (packages/orchestrator/pkg/server/sandboxes.go) over the registry of    *)
(* sandboxes and the semaphore of starts, with the goroutine that waits    *)
(* for each VM to exit and cleans up after it.                             *)
(*                                                                         *)
(* A handler goes through one request after the other; several run at      *)
(* once.  Whether an external step (template, boot, snapshot, upload,      *)
(* envd upgrade) succeeds is left open.  A VM may crash at any time after  *)
(* its boot.  Metrics, events, stop reasons and health checks are left     *)
(* out: they change nothing that the registry or the VMs depend on.        *)
(***************************************************************************)
EXTENDS AdjustableSemaphore, SandboxMap

CONSTANTS MaxRunning,  \* MaxSandboxesPerNode
          NoIP

ASSUME NodeAssumption ==
  /\ MaxBoots \in Nat /\ MaxRunning \in Nat
  /\ NoIP \notin IPs /\ "none" \notin SandboxIDs

Reqs == Callers

VARIABLES req,       \* the handlers
          boots,     \* lifecycles so far
          sandbox,   \* the sandbox ID of each lifecycle
          vm,        \* the Firecracker process of each lifecycle
          stopping,  \* the lifecycles Stop was called for
          closing,   \* how far Close has come
          inPlace,   \* inPlaceCheckpointInFlight
          ip,        \* the address of a lifecycle's network slot
          returning  \* the slot on its way back to the pool

vmVars == <<boots, sandbox, vm, stopping, closing, inPlace, ip, returning>>
vars == <<semVars, mapVars, req, vmVars>>

StartOps == {"create", "resume"}
LookupOps == {"delete", "pause", "checkpoint", "inPlace"}
PermitOps == StartOps \cup {"checkpoint", "inPlace"}

Idle == [pc |-> "idle", op |-> "none", s |-> "none", old |-> NoLifecycle, new |-> NoLifecycle]

Labels ==
  {"idle", "acquire", "mark", "stop", "begin", "snapshot", "export", "lost",
   "boot", "booting", "upgrade", "insert", "track", "upload", "return"}

Requests ==
  [pc : Labels, op : StartOps \cup LookupOps \cup {"none"}, s : SandboxIDs \cup {"none"},
   old : Lifecycles \cup {NoLifecycle}, new : Lifecycles \cup {NoLifecycle}]

(* Type invariant of the registry, the semaphore, the handlers and the VMs. *)
TypeOK ==
  /\ SemTypeOK /\ MapTypeOK
  /\ req \in [Reqs -> Requests]
  /\ boots \in 0 .. MaxBoots
  /\ sandbox \in [Lifecycles -> SandboxIDs \cup {"none"}]
  /\ vm \in [Lifecycles -> {"none", "booting", "running", "exited"}]
  /\ stopping \subseteq Lifecycles /\ inPlace \subseteq Lifecycles
  /\ closing \in [Lifecycles -> {"open", "evicted", "done"}]
  /\ ip \in [Lifecycles -> IPs \cup {NoIP}]
  /\ returning \in [Lifecycles -> {"no", "delayed", "notified"}]

Init ==
  /\ SemInit /\ MapInit
  /\ req = [r \in Reqs |-> Idle]
  /\ boots = 0
  /\ sandbox = [l \in Lifecycles |-> "none"]
  /\ vm = [l \in Lifecycles |-> "none"]
  /\ stopping = {} /\ inPlace = {}
  /\ closing = [l \in Lifecycles |-> "open"]
  /\ ip = [l \in Lifecycles |-> NoIP]
  /\ returning = [l \in Lifecycles |-> "no"]

Goto(r, label) == req' = [req EXCEPT ![r].pc = label]

(* Mutant: a way out before the deferred Release. *)
ReturnEarly(r) == req' = [req EXCEPT ![r] = Idle]

(* The handler returns; one that has a permit gives it back first. *)
Return(r) ==
  IF req[r].op \in PermitOps THEN Goto(r, "return") ELSE req' = [req EXCEPT ![r] = Idle]

GiveBack(r) ==
  /\ req[r].pc = "return"
  /\ Release(r)
  /\ req' = [req EXCEPT ![r] = Idle]
  /\ UNCHANGED <<mapVars, vmVars>>

(* Only the first call does something, and only while the VM runs. *)
Stop(l) == stopping' = IF vm[l] = "running" THEN stopping \cup {l} ELSE stopping

(***************************************************************************)
(* The beginning of the handlers.  Create does not ask whether the sandbox *)
(* ID is live on the node already, or being started.                       *)
(***************************************************************************)
Create(r, s, o) ==
  /\ req[r] = Idle
  /\ Count < MaxRunning
  /\ req' = [req EXCEPT ![r] = [Idle EXCEPT !.pc = "acquire", !.op = o, !.s = s]]
  /\ UNCHANGED <<semVars, mapVars, vmVars>>

(* Delete, Pause and Checkpoint look the sandbox up first. *)
Get(r, s, o) ==
  /\ req[r] = Idle
  /\ live[s] # NoLifecycle
  /\ req' = [req EXCEPT ![r] =
       [Idle EXCEPT !.pc = IF o \in PermitOps THEN "acquire" ELSE "mark",
                    !.op = o, !.s = s, !.old = live[s]]]
  /\ UNCHANGED <<semVars, mapVars, vmVars>>

(***************************************************************************)
(* The permit: a create does not wait for one, a resume and a checkpoint   *)
(* wait until acquireTimeout.                                              *)
(***************************************************************************)
AfterPermit(o) == CASE o \in StartOps -> "boot"
                    [] o = "checkpoint" -> "mark"
                    [] o = "inPlace" -> "begin"

Permit(r) ==
  /\ req[r].pc = "acquire"
  /\ IF req[r].op = "create" THEN TryAcquire(r) ELSE Acquire(r) \/ Wake(r)
  /\ CASE sem'[r] = "held" -> Goto(r, AfterPermit(req[r].op))
       [] sem'[r] = "out" -> req' = [req EXCEPT ![r] = Idle]
       [] OTHER -> UNCHANGED req
  /\ UNCHANGED <<mapVars, vmVars>>

Sleep(r) == CondWait(r) /\ UNCHANGED <<mapVars, req, vmVars>>

TimesOut(r) == CtxEnds(r) /\ UNCHANGED <<mapVars, req, vmVars>>

RefreshLimit(n) == SetLimit(n) /\ UNCHANGED <<mapVars, req, vmVars>>

(***************************************************************************)
(* Delete, Pause and a checkpoint with a fresh resume take the sandbox out *)
(* of the live map, which fails if somebody else did so since the lookup.  *)
(* Pause kills a sandbox that cannot be persisted.                         *)
(***************************************************************************)
MarkOld(r) ==
  /\ req[r].pc = "mark"
  /\ MarkStopping(req[r].s, req[r].old)
  /\ IF ~Marked(req[r].s, req[r].old)
     THEN Return(r)
     ELSE \/ req[r].op \in {"delete", "pause"} /\ Goto(r, "stop")
          \/ req[r].op \in {"pause", "checkpoint"} /\ Goto(r, "snapshot")
  /\ UNCHANGED <<semVars, lifecycles, network, boots, sandbox, vm, stopping,
                 closing, inPlace, ip, returning>>

StopOld(r) ==
  /\ req[r].pc = "stop"
  /\ Stop(req[r].old)
  /\ Return(r)
  /\ UNCHANGED <<semVars, mapVars, boots, sandbox, vm, closing, inPlace,
                 ip, returning>>

(***************************************************************************)
(* The snapshot of a sandbox taken out: it fails early, or leaves the      *)
(* export of the disk to the background, or closes the sandbox on the way  *)
(* and waits for that.  Whatever comes of it, the old VM is stopped when   *)
(* the handler returns.                                                    *)
(***************************************************************************)
Snapshot(r) ==
  /\ req[r].pc = "snapshot" /\ req[r].op # "inPlace"
  /\ \/ Goto(r, "stop") /\ UNCHANGED stopping
     \/ Goto(r, "export") /\ Stop(req[r].old)
  /\ UNCHANGED <<semVars, mapVars, boots, sandbox, vm, closing, inPlace,
                 ip, returning>>

Exported(r) ==
  /\ req[r].pc = "export" /\ closing[req[r].old] = "done"
  /\ \/ Goto(r, "stop")
     \/ req[r].op = "checkpoint" /\ Goto(r, "boot")
  /\ UNCHANGED <<semVars, mapVars, vmVars>>

(***************************************************************************)
(* A checkpoint in place leaves the sandbox live.  The VM runs on, whether *)
(* or not there is a snapshot, unless it cannot be resumed: then the       *)
(* sandbox is closed before the handler returns.                           *)
(***************************************************************************)
(* Mutant: the marker is set, but not looked at. *)
BeginAlways(r) ==
  /\ req[r].pc = "begin"
  /\ Goto(r, "snapshot") /\ inPlace' = inPlace \cup {req[r].old}
  /\ UNCHANGED <<semVars, mapVars, boots, sandbox, vm, stopping, closing, ip, returning>>

BeginInPlace(r) ==
  /\ req[r].pc = "begin"
  /\ IF req[r].old \in inPlace
     THEN Return(r) /\ UNCHANGED inPlace
     ELSE Goto(r, "snapshot") /\ inPlace' = inPlace \cup {req[r].old}
  /\ UNCHANGED <<semVars, mapVars, boots, sandbox, vm, stopping, closing,
                 ip, returning>>

EndInPlace(r) == inPlace' = inPlace \ {req[r].old} /\ Return(r)

InPlace(r) ==
  /\ req[r].pc = "snapshot" /\ req[r].op = "inPlace"
  /\ \/ EndInPlace(r) /\ UNCHANGED stopping
     \/ Stop(req[r].old) /\ Goto(r, "lost") /\ UNCHANGED inPlace
  /\ UNCHANGED <<semVars, mapVars, boots, sandbox, vm, closing, ip, returning>>

Lost(r) ==
  /\ req[r].pc = "lost" /\ closing[req[r].old] = "done"
  /\ EndInPlace(r)
  /\ UNCHANGED <<semVars, mapVars, boots, sandbox, vm, stopping, closing,
                 ip, returning>>

(***************************************************************************)
(* A boot takes a network slot, registers the new lifecycle under its      *)
(* address and starts the VM; a boot that fails runs the cleanup of what   *)
(* it has.  Without a slot, or without a template, there is nothing to     *)
(* clean up.                                                               *)
(***************************************************************************)
(* Mutant: a slot may be used again before the map is told. *)
FreeEarly == IPs \ {ip[l] : l \in {k \in Lifecycles : returning[k] = "no"}}

FreeIPs == IPs \ {ip[l] : l \in Lifecycles}

(* A checkpoint that fails from here on still stops the old VM. *)
Fail(r) == IF req[r].op = "checkpoint" THEN Goto(r, "stop") ELSE Return(r)

NoResources(r) ==
  /\ req[r].pc = "boot"
  /\ Fail(r)
  /\ UNCHANGED <<semVars, mapVars, vmVars>>

Boot(r) ==
  /\ req[r].pc = "boot" /\ boots < MaxBoots
  /\ LET l == boots + 1 IN
     \E a \in FreeIPs :
       /\ boots' = l
       /\ req' = [req EXCEPT ![r].pc = "booting", ![r].new = l]
       /\ sandbox' = [sandbox EXCEPT ![l] = req[r].s]
       /\ vm' = [vm EXCEPT ![l] = "booting"]
       /\ ip' = [ip EXCEPT ![l] = a]
       /\ AssignNetwork(a, l)
  /\ UNCHANGED <<semVars, live, lifecycles, stopping, closing, inPlace, returning>>

BootFails(r) ==
  /\ req[r].pc = "booting"
  /\ vm' = [vm EXCEPT ![req[r].new] = "exited"]
  /\ closing' = [closing EXCEPT ![req[r].new] = "done"]
  /\ returning' = [returning EXCEPT ![req[r].new] = "delayed"]
  /\ MarkStopping(req[r].s, req[r].new)
  /\ Fail(r)
  /\ UNCHANGED <<semVars, lifecycles, network, boots, sandbox, stopping, inPlace, ip>>

(* From here setupSandboxLifecycle waits for the VM to exit. *)
Booted(r) ==
  /\ req[r].pc = "booting"
  /\ vm' = [vm EXCEPT ![req[r].new] = "running"]
  /\ Goto(r, IF req[r].op = "create" THEN "insert" ELSE "upgrade")
  /\ UNCHANGED <<semVars, mapVars, boots, sandbox, stopping, closing,
                 inPlace, ip, returning>>

(* Tears a sandbox down that was booted by this handler. *)
Discard(r) ==
  /\ MarkStopping(req[r].s, req[r].new)
  /\ Stop(req[r].new)
  /\ Fail(r)

(* maybeUpgradeEnvd fails only if the new envd is left uninitialized. *)
Upgrade(r) ==
  /\ req[r].pc = "upgrade"
  /\ \/ Discard(r)
     \/ Goto(r, "insert") /\ UNCHANGED <<live, stopping>>
  /\ UNCHANGED <<semVars, lifecycles, network, boots, sandbox, vm, closing,
                 inPlace, ip, returning>>

(***************************************************************************)
(* markSandboxLive.                                                        *)
(***************************************************************************)
AfterLive(r) == IF req[r].op = "checkpoint" THEN Goto(r, "upload") ELSE Return(r)

MarkLive(r) ==
  /\ req[r].pc = "insert"
  /\ InsertIfAbsent(req[r].s, req[r].new)
  /\ IF live[req[r].s] = NoLifecycle THEN Goto(r, "track") ELSE AfterLive(r)
  /\ UNCHANGED <<semVars, lifecycles, network, vmVars>>

Track(r) ==
  /\ req[r].pc = "track"
  /\ TrackLifecycle(req[r].new)
  /\ AfterLive(r)
  /\ UNCHANGED <<semVars, live, network, vmVars>>

(* runCheckpointUpload; a sandbox whose snapshot is not stored is torn     *)
(* down.                                                                   *)
Upload(r) ==
  /\ req[r].pc = "upload"
  /\ \/ Discard(r)
     \/ Goto(r, "stop") /\ UNCHANGED <<live, stopping>>
  /\ UNCHANGED <<semVars, lifecycles, network, boots, sandbox, vm, closing,
                 inPlace, ip, returning>>

(***************************************************************************)
(* The VM and what follows its exit.                                       *)
(***************************************************************************)
Exit(l) ==
  /\ vm[l] = "running"
  /\ vm' = [vm EXCEPT ![l] = "exited"]
  /\ stopping' = stopping \ {l}
  /\ UNCHANGED <<semVars, mapVars, req, boots, sandbox, closing,
                 inPlace, ip, returning>>

Killed(l) == l \in stopping /\ Exit(l)

Crash(l) == l \notin stopping /\ Exit(l)

(* Close runs the cleanup once: MarkStopping, later the network slot.      *)
Cleanup(l) ==
  /\ vm[l] = "exited" /\ closing[l] = "open"
  /\ MarkStopping(sandbox[l], l)
  /\ closing' = [closing EXCEPT ![l] = "evicted"]
  /\ returning' = [returning EXCEPT ![l] = "delayed"]
  /\ UNCHANGED <<semVars, lifecycles, network, req, boots, sandbox, vm, stopping,
                 inPlace, ip>>

Close(l) ==
  /\ closing[l] = "evicted"
  /\ MarkStopped(l)
  /\ closing' = [closing EXCEPT ![l] = "done"]
  /\ UNCHANGED <<semVars, live, network, req, boots, sandbox, vm, stopping,
                 inPlace, ip, returning>>

(* returnSlot tells the map right before the slot may be used again. *)
Notify(l) ==
  /\ returning[l] = "delayed"
  /\ NetworkReleased(ip[l])
  /\ returning' = [returning EXCEPT ![l] = "notified"]
  /\ UNCHANGED <<semVars, live, lifecycles, req, boots, sandbox, vm, stopping,
                 closing, inPlace, ip>>

Recycle(l) ==
  /\ returning[l] = "notified"
  /\ ip' = [ip EXCEPT ![l] = NoIP]
  /\ returning' = [returning EXCEPT ![l] = "no"]
  /\ UNCHANGED <<semVars, mapVars, req, boots, sandbox, vm, stopping,
                 closing, inPlace>>

Handler(r) ==
  \/ MarkOld(r) \/ StopOld(r) \/ Snapshot(r) \/ Exported(r)
  \/ BeginInPlace(r) \/ InPlace(r) \/ Lost(r)
  \/ NoResources(r) \/ Boot(r) \/ BootFails(r) \/ Booted(r)
  \/ Upgrade(r) \/ MarkLive(r) \/ Track(r) \/ Upload(r)

Request(r) ==
  \E s \in SandboxIDs : \/ \E o \in StartOps : Create(r, s, o)
                        \/ \E o \in LookupOps : Get(r, s, o)

Teardown(l) == Killed(l) \/ Cleanup(l) \/ Close(l) \/ Notify(l) \/ Recycle(l)

Next ==
  \/ \E r \in Reqs : \/ Request(r) \/ Permit(r) \/ Sleep(r) \/ TimesOut(r)
                     \/ GiveBack(r) \/ Handler(r)
  \/ \E n \in Limits : RefreshLimit(n)
  \/ \E l \in Lifecycles : Teardown(l) \/ Crash(l)

Spec == Init /\ [][Next]_vars

(***************************************************************************)
(* Handlers run on; the context of a waiter ends with acquireTimeout, a    *)
(* boot and a snapshot with the timeout of the request.  The mutex is one  *)
(* that does not starve its waiters, hence strong fairness for the steps   *)
(* that take it.  A VM that was told to stop exits, and the goroutines     *)
(* behind it run on.                                                       *)
(***************************************************************************)
Fairness ==
  /\ \A r \in Reqs : /\ SF_vars(Permit(r)) /\ SF_vars(GiveBack(r))
                     /\ WF_vars(Sleep(r)) /\ WF_vars(TimesOut(r)) /\ WF_vars(Handler(r))
  /\ \A l \in Lifecycles : WF_vars(Teardown(l))

FairSpec == Spec /\ Fairness

(***************************************************************************)
(* Properties.                                                             *)
(***************************************************************************)

(* The counter of the semaphore is the number of handlers that hold a      *)
(* permit, and each of those is one that gives it back on its way out: the *)
(* deferred Release of Create and Checkpoint neither panics nor forgets a  *)
(* permit, whatever way they return and however the limit moves.           *)
PermitsCounted ==
  /\ used = Cardinality(Holders)
  /\ \A r \in Reqs : sem[r] = "held" <=> /\ req[r].op \in PermitOps
                                         /\ req[r].pc # "acquire"

Counting == INSTANCE CountingSemaphore WITH holders <- Holders, capacity <- limit

(* The semaphore with its mutex, condition variable and context callbacks  *)
(* gives out permits as a counting semaphore with a movable limit does.    *)
CountsPermits == Counting!Spec

(* The handlers that have taken lifecycle l out of the live map, or are    *)
(* about to put it in.                                                     *)
Minds(r, l) ==
  \/ /\ req[r].old = l /\ req[r].op # "inPlace"
     /\ \/ req[r].pc \in {"stop", "snapshot", "export"}
        \/ req[r].op = "checkpoint" /\ req[r].pc \notin {"acquire", "mark", "return"}
  \/ req[r].new = l /\ req[r].pc \in {"booting", "upgrade", "insert"}

(* Somebody can still stop the VM: it is in the live map, on its way in or *)
(* out in the hands of a handler, or was told to stop.                     *)
Reached(l) ==
  \/ live[sandbox[l]] = l
  \/ l \in stopping
  \/ \E r \in Reqs : Minds(r, l)

(* MarkRunning finds another lifecycle under the sandbox ID. *)
FindsTaken(r, l) ==
  req[r].pc = "insert" /\ req[r].new = l /\ live[req[r].s] \notin {NoLifecycle, l}

(* There is one way to a VM that runs with nobody left to stop it: its     *)
(* MarkRunning finds the sandbox ID taken by another lifecycle.  Pause,    *)
(* Delete, Checkpoint, failed boots and the cleanup of another lifecycle   *)
(* of the same sandbox never take a VM out of the map and leave it running,*)
(* however many starts of the sandbox overlap.                             *)
NoOrphan ==
  [][\A l \in Lifecycles :
       vm'[l] = "running" /\ (vm[l] = "running" => Reached(l)) /\ ~Reached(l)'
         => \E r \in Reqs : FindsTaken(r, l)]_vars

(* GetByHostPort never takes the traffic of one sandbox for another's: an  *)
(* address is registered for the lifecycle whose network slot it is, from  *)
(* before its VM runs until the VM is gone, although slots are reused and  *)
(* NetworkReleased removes whoever is registered.                          *)
AddressOwner ==
  /\ \A a \in IPs : network[a] # NoLifecycle => ip[network[a]] = a
  /\ \A l \in Lifecycles :
       vm[l] \in {"booting", "running"} => ip[l] \in IPs /\ network[ip[l]] = l

(* Two handlers snapshot the same VM only if one checkpoints it in place   *)
(* and the other has taken it out of the live map: the marker excludes the *)
(* other checkpoints in place, MarkStopping excludes the others.           *)
SnapshotExclusive ==
  \A r, q \in Reqs :
    /\ r # q /\ req[r].old = req[q].old
    /\ req[r].pc \in {"snapshot", "export"} /\ req[q].pc \in {"snapshot", "export"}
    => (req[r].op = "inPlace") # (req[q].op = "inPlace")

(* Every request is answered, although handlers wait for permits, for      *)
(* wake-ups that may be lost to a context that ends just before the wait,  *)
(* and for the cleanup of a VM.                                            *)
HandlersReturn == \A r \in Reqs : req[r].pc # "idle" ~> req[r].pc = "idle"

(* A lifecycle that is closed is in neither map. *)
ClosedIsGone ==
  \A l \in Lifecycles : closing[l] = "done" => l \notin lifecycles /\ live[sandbox[l]] # l
=============================================================================
