----------------------------- MODULE NetworkPool -----------------------------
(***************************************************************************)
(* The pool of network slots of an orchestrator node                       *)
(* (packages/orchestrator/pkg/sandbox/network: Pool, StorageLocal and the  *)
(* namespaces CreateNetwork and RemoveNetwork work on) and the Cleanup     *)
(* that gives a sandbox's slot back, from the start of the orchestrator,   *)
(* after startup reclaim, to the end of Pool.Close.                        *)
(*                                                                         *)
(* The goroutines are Populate, Close, and one per sandbox that takes a    *)
(* slot with Get and gives it back with ReturnAsync, over and over, while  *)
(* the handler that waits for the slot may fail for another reason and run *)
(* the sandbox's Cleanup.  The goroutine that ReturnAsync spawns goes on   *)
(* under the sandbox's name.  A step is a select, a critical section, or a *)
(* call that changes a namespace; p's slot is the *Slot its locals point   *)
(* to, 0 if none.                                                          *)
(*                                                                         *)
(* A channel is the set of the slots in it: nothing here depends on the    *)
(* order in which they come out.  Firewall and DSCP configuration of a     *)
(* slot is abstracted to its success or failure.                           *)
(***************************************************************************)
EXTENDS Naturals, FiniteSets

CONSTANTS Sandboxes,  \* sandboxes that ask for slots
          SlotsSize,  \* vrtSlotsSize
          Foreign,    \* slots whose namespace startup reclaim could not remove
          NewCap,     \* capacity of newSlots
          ReusedCap,  \* capacity of reusedSlots
          MaxFaults   \* bound on failing system calls

VARIABLES ns,         \* slots whose namespace exists
          acquired,   \* StorageLocal.acquiredNs
          leaked,     \* StorageLocal.leakedNs
          newSlots,   \* the channel Populate fills
          newClosed,  \* has Populate closed it?
          reused,     \* reusedSlots
          done,       \* is the done channel closed?
          closed,     \* Pool.closed
          returns,    \* the returns counted in returnsWG
          cleanup,    \* how far each sandbox's Cleanup.Run has come
          pc,         \* where each goroutine is
          slot,       \* the slot it has in hand, or 0
          faults      \* faults so far

storageVars == <<acquired, leaked>>
poolVars == <<newSlots, newClosed, reused, done, closed, returns>>
vars == <<ns, storageVars, poolVars, cleanup, pc, slot, faults>>

Slots == 1 .. SlotsSize

Goroutines == Sandboxes \cup {"populate", "close"}

ASSUME PoolAssumption ==
  /\ {"populate", "close"} \cap Sandboxes = {}
  /\ SlotsSize \in Nat /\ Foreign \subseteq Slots
  /\ NewCap \in Nat \ {0} /\ ReusedCap \in Nat /\ MaxFaults \in Nat

Goto(p, l) == pc' = [pc EXCEPT ![p] = l]

Take(p, i) == slot' = [slot EXCEPT ![p] = i]

Fault == faults < MaxFaults /\ faults' = faults + 1

Init ==
  /\ ns = Foreign
  /\ acquired = {} /\ leaked = {}
  /\ newSlots = {} /\ newClosed = FALSE /\ reused = {}
  /\ done = FALSE /\ closed = FALSE /\ returns = {}
  /\ pc = [p \in Goroutines |-> IF p = "populate" THEN "loop"
                                ELSE IF p = "close" THEN "open" ELSE "idle"]
  /\ cleanup = [s \in Sandboxes |-> "no"]
  /\ slot = [p \in Goroutines |-> 0]
  /\ faults = 0

(****************************** StorageLocal *******************************)

(* Mutant: the scan begins with the slot of the host. *)
CleanFromHost == (0 .. SlotsSize) \ (Foreign \cup acquired \cup ns)

(* Slots the scan of Acquire does not skip.  Only the namespace of a slot   *)
(* that is acquired changes, so the scan, which holds acquiredNsMu, sees    *)
(* all of them at one moment.                                               *)
Clean == Slots \ (Foreign \cup acquired \cup ns)

Lowest(S) == {i \in S : \A j \in S : i <= j}

(* Mutant: only clean slots are handed out. *)
AcquirableClean == Lowest(Clean)

(* Acquire: the first clean slot; failing that, a leaked one. *)
Acquirable == IF Clean # {} THEN Lowest(Clean) ELSE leaked

(* Mutant: the slot stays in the set of the leaked ones. *)
AllocateKeepLeaked(i) ==
  /\ acquired' = acquired \cup {i}
  /\ UNCHANGED leaked

allocate(i) ==
  /\ acquired' = acquired \cup {i}
  /\ leaked' = leaked \ {i}

(* Mutant: a namespace that could not be looked at is forgotten. *)
RecordLeakKnown(i) ==
  \/ leaked' = (IF i \in ns THEN leaked \cup {i} ELSE leaked) /\ UNCHANGED faults
  \/ Fault /\ UNCHANGED leaked

(* Release looks whether the namespace is still there, which may fail. *)
recordLeak(i) ==
  \/ leaked' = (IF i \in ns THEN leaked \cup {i} ELSE leaked) /\ UNCHANGED faults
  \/ Fault /\ leaked' = leaked \cup {i}

(* Release, and the end of whatever the goroutine was doing: Populate looks *)
(* at done again, Close drains on, and a return that Close waits for counts *)
(* itself out.                                                              *)
Release(p) ==
  /\ pc[p] = "release"
  /\ acquired' = acquired \ {slot[p]}
  /\ recordLeak(slot[p])
  /\ Take(p, 0)
  /\ returns' = returns \ {p}
  /\ Goto(p, IF p = "populate" THEN "loop" ELSE IF p = "close" THEN "drain" ELSE "idle")
  /\ UNCHANGED <<cleanup, ns, newSlots, newClosed, reused, done, closed>>

(* RemoveNetwork, the first half of cleanup.  When a part of the teardown   *)
(* fails the namespace stays, as the anchor for the next attempt.           *)
RemoveNetwork(p) ==
  /\ pc[p] = "remove"
  /\ \/ ns' = ns \ {slot[p]} /\ UNCHANGED faults
     \/ Fault /\ UNCHANGED ns
  /\ Goto(p, "release")
  /\ UNCHANGED <<cleanup, storageVars, poolVars, slot>>

(******************************** Populate *********************************)

PopulateAcquire ==
  /\ pc["populate"] = "loop"
  /\ ~done
  /\ \E i \in Acquirable : allocate(i) /\ Take("populate", i)
  /\ Goto("populate", "create")
  /\ UNCHANGED <<cleanup, ns, poolVars, faults>>

(* CreateNetwork: a namespace that is still there is torn down first, and a *)
(* failure tears down what was built, each of which may itself fail.        *)
CreateNetwork ==
  /\ pc["populate"] = "create"
  /\ \/ /\ ns' = ns \cup {slot["populate"]}
        /\ Goto("populate", "offer")
        /\ UNCHANGED faults
     \/ /\ Fault
        /\ ns' \in {ns \cup {slot["populate"]}, ns \ {slot["populate"]}}
        /\ Goto("populate", "release")
  /\ UNCHANGED <<cleanup, storageVars, poolVars, slot>>

PopulateOffer ==
  /\ pc["populate"] = "offer"
  /\ \/ /\ Cardinality(newSlots) < NewCap
        /\ newSlots' = newSlots \cup {slot["populate"]}
        /\ Take("populate", 0)
        /\ Goto("populate", "loop")
     \/ /\ done
        /\ Goto("populate", "remove")
        /\ UNCHANGED <<newSlots, slot>>
  /\ UNCHANGED <<cleanup, ns, storageVars, newClosed, reused, done, closed, returns, faults>>

(* Mutant: Populate returns and leaves newSlots open. *)
PopulateExitOpen ==
  /\ pc["populate"] = "loop"
  /\ done
  /\ Goto("populate", "exited")
  /\ UNCHANGED <<cleanup, ns, storageVars, poolVars, slot, faults>>

PopulateExit ==
  /\ pc["populate"] = "loop"
  /\ done
  /\ newClosed' = TRUE
  /\ Goto("populate", "exited")
  /\ UNCHANGED <<cleanup, ns, storageVars, newSlots, reused, done, closed, returns, slot, faults>>

(********************************** Get ************************************)

(* The first select of Get, for a new sandbox with its own Cleanup: a       *)
(* reused slot if there is one.  ErrClosed is no step: the sandbox stays    *)
(* where it is.                                                             *)
GetReused(s) ==
  /\ pc[s] = "idle"
  /\ \/ \E i \in reused : reused' = reused \ {i} /\ Take(s, i) /\ Goto(s, "configure")
     \/ reused = {} /\ ~done /\ Goto(s, "waiting") /\ UNCHANGED <<reused, slot>>
  /\ cleanup' = [cleanup EXCEPT ![s] = "no"]
  /\ UNCHANGED <<ns, storageVars, newSlots, newClosed, done, closed, returns, faults>>

(* The second one: a receive from newSlots.  Once that is closed and empty  *)
(* it yields nil, which configureSlot dereferences.                         *)
GetNew(s) ==
  /\ pc[s] = "waiting"
  /\ \/ \E i \in newSlots : newSlots' = newSlots \ {i} /\ Take(s, i) /\ Goto(s, "configure")
     \/ newClosed /\ newSlots = {} /\ Goto(s, "nil") /\ UNCHANGED <<newSlots, slot>>
  /\ UNCHANGED <<cleanup, ns, storageVars, newClosed, reused, done, closed, returns, faults>>

(* ... or ErrClosed. *)
GetClosed(s) ==
  /\ pc[s] = "waiting"
  /\ done
  /\ Goto(s, "idle")
  /\ UNCHANGED <<cleanup, ns, storageVars, poolVars, slot, faults>>

(* ... or the request is cancelled. *)
GetCancelled(s) ==
  /\ pc[s] = "waiting"
  /\ Goto(s, "idle")
  /\ UNCHANGED <<cleanup, ns, storageVars, poolVars, slot, faults>>

(* tryTrackReturn: a return that begins before closed is set is counted. *)
ReturnAsync(s) ==
  /\ returns' = IF closed THEN returns ELSE returns \cup {s}
  /\ Goto(s, "delay")

configureSlot(s) ==
  /\ pc[s] = "configure"
  /\ \/ Goto(s, "add") /\ UNCHANGED <<returns, faults>>
     \/ Fault /\ ReturnAsync(s)
  /\ UNCHANGED <<cleanup, ns, storageVars, newSlots, newClosed, reused, done, closed, slot>>

(********************************* Cleanup *********************************)

(* Cleanup.Add for the function that returns the slot: run it at once when  *)
(* hasRun is set ...                                                        *)
Add(s) ==
  /\ pc[s] = "add"
  /\ \/ cleanup[s] # "no" /\ ReturnAsync(s)
     \/ cleanup[s] = "no" /\ Goto(s, "append") /\ UNCHANGED returns
  /\ UNCHANGED <<cleanup, ns, storageVars, newSlots, newClosed, reused, done, closed, slot, faults>>

(* ... or append it to the list, under the mutex, where it stays for good   *)
(* if Run has gone through the list in between.                             *)
AddAppend(s) ==
  /\ pc[s] = "append"
  /\ Goto(s, IF cleanup[s] = "ran" THEN "stranded" ELSE "using")
  /\ UNCHANGED <<cleanup, ns, storageVars, poolVars, slot, faults>>

(* The sandbox ends, or its creation fails while Get is still at work:      *)
(* Cleanup.Run sets hasRun ...                                              *)
CleanupRun(s) ==
  /\ pc[s] # "idle"
  /\ cleanup[s] = "no"
  /\ cleanup' = [cleanup EXCEPT ![s] = "hasRun"]
  /\ UNCHANGED <<ns, storageVars, poolVars, pc, slot, faults>>

(* ... and runs what is on the list, under the mutex. *)
CleanupList(s) ==
  /\ cleanup[s] = "hasRun"
  /\ cleanup' = [cleanup EXCEPT ![s] = "ran"]
  /\ \/ pc[s] = "using" /\ ReturnAsync(s)
     \/ pc[s] # "using" /\ UNCHANGED <<returns, pc>>
  /\ UNCHANGED <<ns, storageVars, newSlots, newClosed, reused, done, closed, slot, faults>>

(******************************* ReturnAsync *******************************)

(* The select of returnSlot: the delay is over, or the pool is closing. *)
returnSlot(s) ==
  /\ pc[s] = "delay"
  /\ \/ Goto(s, "recycle")
     \/ done /\ Goto(s, "remove")
  /\ UNCHANGED <<cleanup, ns, storageVars, poolVars, slot, faults>>

(* The first half of recycle: reset the slot. *)
recycle(s) ==
  /\ pc[s] = "recycle"
  /\ \/ Goto(s, "reuse") /\ UNCHANGED faults
     \/ Fault /\ Goto(s, "remove")
  /\ UNCHANGED <<cleanup, ns, storageVars, poolVars, slot>>

(* Mutant: tryReuse does not look at closed. *)
SendableClosed == Cardinality(reused) < ReusedCap

(* May tryReuse send to reusedSlots? *)
Sendable == ~closed /\ Cardinality(reused) < ReusedCap

(* The second half: tryReuse, under the read lock.  When done is closed as  *)
(* well, its select may choose either.                                      *)
tryReuse(s) ==
  /\ pc[s] = "reuse"
  /\ \/ /\ Sendable
        /\ reused' = reused \cup {slot[s]}
        /\ Take(s, 0)
        /\ returns' = returns \ {s}
        /\ Goto(s, "idle")
     \/ /\ done \/ ~Sendable
        /\ Goto(s, "remove")
        /\ UNCHANGED <<reused, slot, returns>>
  /\ UNCHANGED <<cleanup, ns, storageVars, newSlots, newClosed, done, closed, faults>>

(********************************** Close **********************************)

CloseDone ==
  /\ pc["close"] = "open"
  /\ done' = TRUE
  /\ Goto("close", "lock")
  /\ UNCHANGED <<cleanup, ns, storageVars, newSlots, newClosed, reused, closed, returns, slot, faults>>

CloseLock ==
  /\ pc["close"] = "lock"
  /\ closed' = TRUE
  /\ Goto("close", "wait")
  /\ UNCHANGED <<cleanup, ns, storageVars, newSlots, newClosed, reused, done, returns, slot, faults>>

CloseWait ==
  /\ pc["close"] = "wait"
  /\ returns = {}
  /\ Goto("close", "drain")
  /\ UNCHANGED <<cleanup, ns, storageVars, poolVars, slot, faults>>

(* newSlots until it is closed and empty, then reusedSlots until it is empty. *)
CloseDrain ==
  /\ pc["close"] = "drain"
  /\ \/ \E i \in newSlots : /\ newSlots' = newSlots \ {i} /\ UNCHANGED reused
                            /\ Take("close", i) /\ Goto("close", "remove")
     \/ /\ newClosed /\ newSlots = {}
        /\ \/ \E i \in reused : /\ reused' = reused \ {i} /\ UNCHANGED newSlots
                                /\ Take("close", i) /\ Goto("close", "remove")
           \/ reused = {} /\ Goto("close", "closed") /\ UNCHANGED <<newSlots, reused, slot>>
  /\ UNCHANGED <<cleanup, ns, storageVars, newClosed, done, closed, returns, faults>>

(****************************** specification ******************************)

cleanupSlot(p) == RemoveNetwork(p) \/ Release(p)

Populate == PopulateAcquire \/ CreateNetwork \/ PopulateOffer \/ PopulateExit

Return(s) == returnSlot(s) \/ recycle(s) \/ tryReuse(s)

Close == CloseLock \/ CloseWait \/ CloseDrain

Next ==
  \/ \E p \in Goroutines : cleanupSlot(p)
  \/ Populate \/ CloseDone \/ Close
  \/ \E s \in Sandboxes : \/ GetReused(s) \/ GetNew(s) \/ GetClosed(s) \/ GetCancelled(s)
                          \/ configureSlot(s) \/ Add(s) \/ AddAppend(s)
                          \/ CleanupRun(s) \/ CleanupList(s) \/ Return(s)

Spec == Init /\ [][Next]_vars

(* Goroutines run on, and sandboxes end (each has an end time).  Nobody has *)
(* to close the pool or to ask it for a slot.                               *)
Fairness ==
  /\ WF_vars(Populate \/ cleanupSlot("populate"))
  /\ WF_vars(Close \/ cleanupSlot("close"))
  /\ \A s \in Sandboxes :
       /\ WF_vars(GetNew(s) \/ GetClosed(s))
       /\ WF_vars(configureSlot(s) \/ Add(s) \/ AddAppend(s) \/ Return(s) \/ cleanupSlot(s))
       /\ WF_vars((pc[s] = "using" /\ CleanupRun(s)) \/ CleanupList(s))

FairSpec == Spec /\ Fairness

(******************************* properties ********************************)

PCs == {"idle", "waiting", "nil", "configure", "add", "append", "using", "stranded", "delay", "recycle", "reuse",
        "loop", "create", "offer", "exited", "open", "lock", "wait", "drain", "closed",
        "remove", "release"}

(* Type invariant. *)
TypeOK ==
  /\ ns \subseteq Slots /\ acquired \subseteq Slots /\ leaked \subseteq Slots
  /\ newSlots \subseteq Slots /\ reused \subseteq Slots
  /\ newClosed \in BOOLEAN /\ done \in BOOLEAN /\ closed \in BOOLEAN
  /\ returns \subseteq Sandboxes
  /\ cleanup \in [Sandboxes -> {"no", "hasRun", "ran"}]
  /\ pc \in [Goroutines -> PCs]
  /\ slot \in [Goroutines -> 0 .. SlotsSize]
  /\ faults \in 0 .. MaxFaults

Held == {slot[p] : p \in Goroutines} \ {0}

(* Every slot that is marked as acquired has exactly one owner - a channel  *)
(* or a goroutine - and nothing else is owned: no two sandboxes get the     *)
(* same network, and none is lost, whatever fails and while the pool closes. *)
OneOwner ==
  /\ acquired = newSlots \cup reused \cup Held
  /\ newSlots \cap reused = {} /\ (newSlots \cup reused) \cap Held = {}
  /\ \A p, q \in Goroutines : slot[p] = slot[q] /\ slot[p] # 0 => p = q

(* A namespace outlives its slot only as one that Release has recorded, so  *)
(* that Acquire can hand it out again and CreateNetwork can finish the      *)
(* teardown: "transient failures heal in-process instead of draining the    *)
(* pool until restart".                                                     *)
LeaksRecorded == ns \subseteq Foreign \cup acquired \cup leaked

(* When Close returns, both channels are empty, Populate is gone and no     *)
(* return that was counted is in flight: what is still acquired is in the   *)
(* hands of a sandbox, which will clean it up inline.                       *)
CloseDrains ==
  pc["close"] = "closed" =>
    /\ newSlots = {} /\ reused = {} /\ returns = {}
    /\ pc["populate"] = "exited"
    /\ acquired = {slot[s] : s \in Sandboxes} \ {0}

(* From Get until the slot is reused or torn down. *)
InUse == {"configure", "add", "append", "using", "stranded", "delay", "recycle", "reuse"}

Live == {s \in Sandboxes : pc[s] \in InUse}

Leases == INSTANCE SlotLeases WITH up <- ns, leased <- acquired,
                                   held <- [s \in Sandboxes |-> slot[s]], live <- Live

(* The pool leases slots: Get hands out, from either channel, only slots    *)
(* that nobody has and whose namespace exists, and no teardown, by Populate, *)
(* Close or the return of another sandbox, takes down a network in use.     *)
LeasesSlots == Leases!Spec

(* Closing the pool ends, and once the sandboxes have ended every slot is   *)
(* released, but for those whose return never made it into the Cleanup.     *)
ShutdownReleases ==
  done ~> /\ pc["close"] = "closed"
          /\ acquired = {slot[s] : s \in {x \in Sandboxes : pc[x] = "stranded"}}

(* While sandboxes wait for a slot the pool keeps coming up with new ones,  *)
(* although slots leak and Get does not look at the reused ones again.  (A  *)
(* channel serves its receivers in their order.)                            *)
PoolRefills ==
  (\E s \in Sandboxes : pc[s] = "waiting")
    ~> (newSlots # {} \/ \A s \in Sandboxes : pc[s] # "waiting")

(* Get on a pool that is being closed reports ErrClosed, "cannot read from  *)
(* a closed pool"; it does not go on with a slot that is nil.               *)
GetsASlot == \A s \in Sandboxes : pc[s] # "nil"

(* A function that is added to a Cleanup that has run is run: the slot of a *)
(* sandbox whose creation failed always goes back to the pool.              *)
CleanupComplete == \A s \in Sandboxes : pc[s] # "stranded"
==============================================================================
