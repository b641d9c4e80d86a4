-------------------------- MODULE NetworkPoolProofs --------------------------
(***************************************************************************)
(* NetworkPool, for every number of sandboxes, slots, channel capacities   *)
(* and failures: no slot has two owners or none, no leaked namespace is    *)
(* forgotten, Close returns with the pool drained, and the pool implements *)
(* SlotLeases.                                                             *)
(***************************************************************************)
EXTENDS NetworkPool, TLAPS

(* Where each kind of goroutine can be. *)
SandboxPCs == {"idle", "waiting", "nil", "configure", "add", "append", "using", "stranded",
               "delay", "recycle", "reuse", "remove", "release"}

PopulatePCs == {"loop", "create", "offer", "remove", "release", "exited"}

ClosePCs == {"open", "lock", "wait", "drain", "remove", "release", "closed"}

Roles ==
  /\ \A s \in Sandboxes : pc[s] \in SandboxPCs
  /\ pc["populate"] \in PopulatePCs
  /\ pc["close"] \in ClosePCs

(* Where a goroutine has a slot in hand. *)
Holding == {"configure", "add", "append", "using", "stranded", "delay", "recycle", "reuse",
            "create", "offer", "remove", "release"}

Holders == \A p \in Goroutines : slot[p] # 0 <=> pc[p] \in Holding

(* OneOwner, slot by slot. *)
Owners ==
  /\ \A i \in acquired : i \in newSlots \/ i \in reused \/ \E p \in Goroutines : slot[p] = i
  /\ newSlots \subseteq acquired /\ reused \subseteq acquired
  /\ newSlots \cap reused = {}
  /\ \A p \in Goroutines :
       slot[p] # 0 => slot[p] \in acquired /\ slot[p] \notin newSlots /\ slot[p] \notin reused
  /\ \A p, q \in Goroutines : slot[p] = slot[q] /\ slot[p] # 0 => p = q

(* A slot that Acquire may hand out is free. *)
Free == leaked \cap acquired = {}

(* How far Close is tells what the pool can still do. *)
Closing ==
  /\ closed <=> pc["close"] \notin {"open", "lock"}
  /\ pc["close"] \in {"drain", "remove", "release", "closed"} => returns = {}
  /\ newClosed <=> pc["populate"] = "exited"
  /\ pc["close"] = "closed" => newClosed /\ newSlots = {} /\ reused = {}

PoolInv == TypeOK /\ Roles /\ Holders /\ Owners /\ Free /\ LeaksRecorded /\ Closing

USE DEF Goto, Take, Fault

LEMMA GoroutineFacts ==
  /\ "populate" \in Goroutines /\ "close" \in Goroutines
  /\ Sandboxes \subseteq Goroutines
  /\ "populate" \notin Sandboxes /\ "close" \notin Sandboxes
  /\ \A p \in Goroutines : p = "populate" \/ p = "close" \/ p \in Sandboxes
  BY PoolAssumption, Zenon DEF Goroutines

LEMMA InitPool == Init => PoolInv
<1> SUFFICES ASSUME Init PROVE PoolInv
  BY Zenon
<1> USE PoolAssumption, GoroutineFacts
<1>1. TypeOK
  <2>1. pc \in [Goroutines -> PCs]
    BY Zenon DEF Init, PCs
  <2>2. slot \in [Goroutines -> 0 .. SlotsSize]
    BY DEF Init
  <2>3. newClosed \in BOOLEAN /\ done \in BOOLEAN /\ closed \in BOOLEAN
    BY Zenon DEF Init
  <2>4. cleanup \in [Sandboxes -> {"no", "hasRun", "ran"}] /\ faults \in 0 .. MaxFaults
    BY DEF Init
  <2>5. QED
    BY <2>1, <2>2, <2>3, <2>4, Zenon DEF Init, TypeOK, Slots
<1>2. Roles /\ Holders
  BY Zenon DEF Init, Roles, Holders, SandboxPCs, PopulatePCs, ClosePCs, Holding
<1>3. Owners /\ Free /\ LeaksRecorded
  BY Zenon DEF Init, Owners, Free, LeaksRecorded
<1>4. Closing
  <2>1. pc["close"] = "open" /\ pc["populate"] = "loop"
    BY Zenon DEF Init
  <2>2. closed = FALSE /\ newClosed = FALSE
    BY Zenon DEF Init
  <2>3. QED
    BY <2>1, <2>2, Zenon DEF Closing
<1>5. QED
  BY <1>1, <1>2, <1>3, <1>4, Zenon DEF PoolInv

(* Every action keeps the types and the places of the goroutines, and a     *)
(* goroutine has a slot in hand exactly where it should.                    *)
LEMMA StepType ==
  ASSUME TypeOK, Roles, Holders, [Next]_vars
  PROVE  TypeOK' /\ Roles' /\ Holders'
<1> USE PoolAssumption, GoroutineFacts
<1> USE DEF TypeOK, Roles, Holders, SandboxPCs, PopulatePCs, ClosePCs, Holding, PCs,
            storageVars, poolVars
<1>1. ASSUME NEW p \in Goroutines, RemoveNetwork(p) PROVE TypeOK' /\ Roles' /\ Holders'
  BY <1>1 DEF RemoveNetwork
<1>2. ASSUME NEW p \in Goroutines, Release(p) PROVE TypeOK' /\ Roles' /\ Holders'
  <2>1. slot[p] \in Slots
    BY <1>2 DEF Release, recordLeak, Slots
  <2>2. pc' \in [Goroutines -> PCs]
    BY <1>2, Zenon DEF Release, recordLeak, Slots
  <2>3. slot' \in [Goroutines -> 0 .. SlotsSize]
    BY <1>2 DEF Release, recordLeak, Slots
  <2>4. faults' \in 0 .. MaxFaults
    BY <1>2 DEF Release, recordLeak, Slots
  <2>5. Roles'
    BY <1>2 DEF Release, recordLeak, Slots
  <2>6. Holders'
    BY <1>2, Zenon DEF Release, recordLeak, Slots
  <2>7. QED
    BY <1>2, <2>1, <2>2, <2>3, <2>4, <2>5, <2>6, Zenon DEF Release, recordLeak, Slots
<1>3. ASSUME PopulateAcquire PROVE TypeOK' /\ Roles' /\ Holders'
  BY <1>3 DEF PopulateAcquire, Acquirable, Clean, Lowest, allocate, Slots
<1>4. ASSUME CreateNetwork PROVE TypeOK' /\ Roles' /\ Holders'
  <2>1. slot["populate"] \in Slots
    BY <1>4 DEF CreateNetwork, Slots
  <2>2. pc' \in [Goroutines -> PCs]
    BY <1>4 DEF CreateNetwork, Slots
  <2>3. slot' \in [Goroutines -> 0 .. SlotsSize]
    BY <1>4, Zenon DEF CreateNetwork, Slots
  <2>4. faults' \in 0 .. MaxFaults
    BY <1>4 DEF CreateNetwork, Slots
  <2>5. Roles'
    BY <1>4 DEF CreateNetwork, Slots
  <2>6. Holders'
    BY <1>4 DEF CreateNetwork, Slots
  <2>7. QED
    BY <1>4, <2>1, <2>2, <2>3, <2>4, <2>5, <2>6, ZenonT(30) DEF CreateNetwork, Slots
<1>5. ASSUME PopulateOffer PROVE TypeOK' /\ Roles' /\ Holders'
  <2>1. slot["populate"] \in Slots
    BY <1>5 DEF PopulateOffer, Slots
  <2>2. pc' \in [Goroutines -> PCs]
    BY <1>5 DEF PopulateOffer, Slots
  <2>3. slot' \in [Goroutines -> 0 .. SlotsSize]
    BY <1>5 DEF PopulateOffer, Slots
  <2>4. faults' \in 0 .. MaxFaults
    BY <1>5, Zenon DEF PopulateOffer, Slots
  <2>5. Roles'
    BY <1>5 DEF PopulateOffer, Slots
  <2>6. Holders'
    BY <1>5 DEF PopulateOffer, Slots
  <2>7. QED
    BY <1>5, <2>1, <2>2, <2>3, <2>4, <2>5, <2>6, Zenon DEF PopulateOffer, Slots
<1>6. ASSUME PopulateExit PROVE TypeOK' /\ Roles' /\ Holders'
  BY <1>6 DEF PopulateExit
<1>7. ASSUME CloseDone PROVE TypeOK' /\ Roles' /\ Holders'
  BY <1>7 DEF CloseDone
<1>8. ASSUME CloseLock PROVE TypeOK' /\ Roles' /\ Holders'
  BY <1>8 DEF CloseLock
<1>9. ASSUME CloseWait PROVE TypeOK' /\ Roles' /\ Holders'
  BY <1>9 DEF CloseWait
<1>10. ASSUME CloseDrain PROVE TypeOK' /\ Roles' /\ Holders'
  <2>1. pc' \in [Goroutines -> PCs]
    BY <1>10 DEF CloseDrain, Slots
  <2>2. slot' \in [Goroutines -> 0 .. SlotsSize]
    BY <1>10 DEF CloseDrain, Slots
  <2>3. faults' \in 0 .. MaxFaults
    BY <1>10, Zenon DEF CloseDrain, Slots
  <2>4. Roles'
    BY <1>10 DEF CloseDrain, Slots
  <2>5. Holders'
    BY <1>10 DEF CloseDrain, Slots
  <2>6. QED
    BY <1>10, <2>1, <2>2, <2>3, <2>4, <2>5, Zenon DEF CloseDrain, Slots
<1>11. ASSUME NEW s \in Sandboxes, GetReused(s) PROVE TypeOK' /\ Roles' /\ Holders'
  <2>1. pc' \in [Goroutines -> PCs]
    BY <1>11 DEF GetReused, Slots
  <2>2. slot' \in [Goroutines -> 0 .. SlotsSize]
    BY <1>11 DEF GetReused, Slots
  <2>3. faults' \in 0 .. MaxFaults
    BY <1>11, Zenon DEF GetReused, Slots
  <2>4. Roles'
    BY <1>11 DEF GetReused, Slots
  <2>5. Holders'
    BY <1>11 DEF GetReused, Slots
  <2>6. QED
    BY <1>11, <2>1, <2>2, <2>3, <2>4, <2>5, Zenon DEF GetReused, Slots
<1>12. ASSUME NEW s \in Sandboxes, GetNew(s) PROVE TypeOK' /\ Roles' /\ Holders'
  <2>1. pc' \in [Goroutines -> PCs]
    BY <1>12 DEF GetNew, Slots
  <2>2. slot' \in [Goroutines -> 0 .. SlotsSize]
    BY <1>12 DEF GetNew, Slots
  <2>3. faults' \in 0 .. MaxFaults
    BY <1>12, Zenon DEF GetNew, Slots
  <2>4. Roles'
    BY <1>12 DEF GetNew, Slots
  <2>5. Holders'
    BY <1>12 DEF GetNew, Slots
  <2>6. QED
    BY <1>12, <2>1, <2>2, <2>3, <2>4, <2>5, Zenon DEF GetNew, Slots
<1>13. ASSUME NEW s \in Sandboxes, GetClosed(s) PROVE TypeOK' /\ Roles' /\ Holders'
  BY <1>13 DEF GetClosed
<1>14. ASSUME NEW s \in Sandboxes, GetCancelled(s) PROVE TypeOK' /\ Roles' /\ Holders'
  BY <1>14 DEF GetCancelled
<1>15. ASSUME NEW s \in Sandboxes, configureSlot(s) PROVE TypeOK' /\ Roles' /\ Holders'
  BY <1>15 DEF configureSlot, ReturnAsync
<1>16. ASSUME NEW s \in Sandboxes, Add(s) PROVE TypeOK' /\ Roles' /\ Holders'
  BY <1>16 DEF Add, ReturnAsync
<1>17. ASSUME NEW s \in Sandboxes, AddAppend(s) PROVE TypeOK' /\ Roles' /\ Holders'
  BY <1>17 DEF AddAppend
<1>18. ASSUME NEW s \in Sandboxes, CleanupRun(s) PROVE TypeOK' /\ Roles' /\ Holders'
  BY <1>18 DEF CleanupRun
<1>19. ASSUME NEW s \in Sandboxes, CleanupList(s) PROVE TypeOK' /\ Roles' /\ Holders'
  BY <1>19 DEF CleanupList, ReturnAsync
<1>20. ASSUME NEW s \in Sandboxes, returnSlot(s) PROVE TypeOK' /\ Roles' /\ Holders'
  BY <1>20 DEF returnSlot
<1>21. ASSUME NEW s \in Sandboxes, recycle(s) PROVE TypeOK' /\ Roles' /\ Holders'
  BY <1>21 DEF recycle
<1>22. ASSUME NEW s \in Sandboxes, tryReuse(s) PROVE TypeOK' /\ Roles' /\ Holders'
  <2>1. slot[s] \in Slots
    BY <1>22 DEF tryReuse, Sendable, Slots
  <2>2. pc' \in [Goroutines -> PCs]
    BY <1>22, Zenon DEF tryReuse, Sendable, Slots
  <2>3. slot' \in [Goroutines -> 0 .. SlotsSize]
    BY <1>22 DEF tryReuse, Sendable, Slots
  <2>4. faults' \in 0 .. MaxFaults
    BY <1>22, Zenon DEF tryReuse, Sendable, Slots
  <2>5. Roles'
    BY <1>22 DEF tryReuse, Sendable, Slots
  <2>6. Holders'
    BY <1>22 DEF tryReuse, Sendable, Slots
  <2>7. QED
    BY <1>22, <2>1, <2>2, <2>3, <2>4, <2>5, <2>6, ZenonT(40) DEF tryReuse, Sendable, Slots
<1>23. CASE UNCHANGED vars
  BY <1>23 DEF vars
<1>24. QED
  BY <1>1, <1>2, <1>3, <1>4, <1>5, <1>6, <1>7, <1>8, <1>9, <1>10, <1>11, <1>12, <1>13, <1>14, <1>15, <1>16, <1>17, <1>18, <1>19, <1>20, <1>21, <1>22, <1>23, Zenon
  DEF Next, cleanupSlot, Populate, Close, Return

(* A receive: the slot passes from a channel to a goroutine without one. *)
LEMMA Receive ==
  ASSUME TypeOK, Owners, NEW p \in Goroutines, slot[p] = 0, NEW i \in Slots,
         \/ i \in newSlots /\ newSlots' = newSlots \ {i} /\ reused' = reused
         \/ i \in reused /\ reused' = reused \ {i} /\ newSlots' = newSlots,
         slot' = [slot EXCEPT ![p] = i], acquired' = acquired
  PROVE  Owners'
<1> USE PoolAssumption DEF TypeOK, Slots
<1>1. i # 0 /\ i \in acquired /\ slot'[p] = i
  BY DEF Owners
<1>2. \A q \in Goroutines : q # p => slot'[q] = slot[q] /\ slot[q] # i
  BY <1>1 DEF Owners
<1>3. i \notin newSlots' /\ i \notin reused'
  BY Zenon DEF Owners
<1>4. \A j \in acquired' : j \in newSlots' \/ j \in reused' \/ \E q \in Goroutines : slot'[q] = j
  <2> TAKE j \in acquired'
  <2>1. CASE j = i
    BY <1>1, <2>1, Zenon
  <2>2. CASE j # i
    <3>1. j # 0
      BY DEF Owners
    <3>2. j \in newSlots \/ j \in reused \/ \E q \in Goroutines : q # p /\ slot[q] = j
      BY <3>1, Zenon DEF Owners
    <3>3. QED
      BY <1>2, <2>2, <3>2, Zenon
  <2>3. QED
    BY <2>1, <2>2, Zenon
<1>5. newSlots' \subseteq acquired' /\ reused' \subseteq acquired' /\ newSlots' \cap reused' = {}
  BY Zenon DEF Owners
<1>6. \A q \in Goroutines :
        slot'[q] # 0 => slot'[q] \in acquired' /\ slot'[q] \notin newSlots' /\ slot'[q] \notin reused'
  BY <1>1, <1>2, <1>3 DEF Owners
<1>7. \A q, r \in Goroutines : slot'[q] = slot'[r] /\ slot'[q] # 0 => q = r
  BY <1>1, <1>2 DEF Owners
<1>8. QED
  BY <1>4, <1>5, <1>6, <1>7, Zenon DEF Owners

(* A send: the slot passes from the goroutine that has it to a channel. *)
LEMMA Send ==
  ASSUME TypeOK, Owners, NEW p \in Goroutines, slot[p] # 0,
         \/ newSlots' = newSlots \cup {slot[p]} /\ reused' = reused
         \/ reused' = reused \cup {slot[p]} /\ newSlots' = newSlots,
         slot' = [slot EXCEPT ![p] = 0], acquired' = acquired
  PROVE  Owners'
<1> USE DEF TypeOK
<1>1. slot'[p] = 0 /\ \A q \in Goroutines : q # p => slot'[q] = slot[q] /\ slot'[q] # slot[p]
  BY Zenon DEF Owners
<1>2. \A j \in acquired' : j \in newSlots' \/ j \in reused' \/ \E q \in Goroutines : slot'[q] = j
  BY <1>1, Zenon DEF Owners
<1>3. newSlots' \subseteq acquired' /\ reused' \subseteq acquired' /\ newSlots' \cap reused' = {}
  BY DEF Owners
<1>4. \A q \in Goroutines :
        slot'[q] # 0 => slot'[q] \in acquired' /\ slot'[q] \notin newSlots' /\ slot'[q] \notin reused'
  BY <1>1, Zenon DEF Owners
<1>5. \A q, r \in Goroutines : slot'[q] = slot'[r] /\ slot'[q] # 0 => q = r
  BY <1>1 DEF Owners
<1>6. QED
  BY <1>2, <1>3, <1>4, <1>5, Zenon DEF Owners

(* Every action keeps one owner per acquired slot and a record of every     *)
(* namespace left behind: a slot changes hands in one step, Acquire only    *)
(* hands out what nobody owns, and Release writes a leak down before the    *)
(* slot can be acquired again.                                              *)
LEMMA StepOwners ==
  ASSUME TypeOK, Roles, Holders, Owners, Free, LeaksRecorded, [Next]_vars
  PROVE  Owners' /\ Free' /\ LeaksRecorded'
<1> USE PoolAssumption, GoroutineFacts
<1> USE DEF TypeOK, Roles, Holders, Owners, Free, LeaksRecorded, SandboxPCs, PopulatePCs,
            ClosePCs, Holding, storageVars, poolVars
<1>1. ASSUME NEW p \in Goroutines, RemoveNetwork(p) PROVE Owners' /\ Free' /\ LeaksRecorded'
  BY <1>1, Zenon DEF RemoveNetwork
<1>2. ASSUME NEW p \in Goroutines, Release(p) PROVE Owners' /\ Free' /\ LeaksRecorded'
  <2>1. Owners'
    BY <1>2 DEF Release, recordLeak, Slots
  <2>2. Free'
    BY <1>2, Zenon DEF Release, recordLeak, Slots
  <2>3. LeaksRecorded'
    BY <1>2 DEF Release, recordLeak, Slots
  <2>4. QED
    BY <1>2, <2>1, <2>2, <2>3, Zenon DEF Release, recordLeak, Slots
<1>3. ASSUME PopulateAcquire PROVE Owners' /\ Free' /\ LeaksRecorded'
  <2>1. Owners'
    BY <1>3 DEF PopulateAcquire, Acquirable, Clean, Lowest, allocate, Slots
  <2>2. Free'
    BY <1>3, Zenon DEF PopulateAcquire, Acquirable, Clean, Lowest, allocate, Slots
  <2>3. LeaksRecorded'
    BY <1>3 DEF PopulateAcquire, Acquirable, Clean, Lowest, allocate, Slots
  <2>4. QED
    BY <1>3, <2>1, <2>2, <2>3, Zenon DEF PopulateAcquire, Acquirable, Clean, Lowest, allocate, Slots
<1>4. ASSUME CreateNetwork PROVE Owners' /\ Free' /\ LeaksRecorded'
  <2>1. Owners'
    BY <1>4, Zenon DEF CreateNetwork, Slots
  <2>2. Free'
    BY <1>4, Zenon DEF CreateNetwork, Slots
  <2>3. LeaksRecorded'
    <3>1. slot["populate"] \in acquired
      BY <1>4, Zenon DEF CreateNetwork
    <3>2. ns' \subseteq ns \cup {slot["populate"]}
      BY <1>4 DEF CreateNetwork
    <3>3. QED
      BY <1>4, <3>1, <3>2 DEF CreateNetwork
  <2>4. QED
    BY <1>4, <2>1, <2>2, <2>3, Zenon DEF CreateNetwork, Slots
<1>5. ASSUME PopulateOffer PROVE Owners' /\ Free' /\ LeaksRecorded'
  <2>1. Owners'
    <3>1. slot["populate"] # 0
      BY <1>5, Zenon DEF PopulateOffer
    <3>2. CASE done /\ UNCHANGED <<newSlots, slot>>
      BY <1>5, <3>2, Zenon DEF PopulateOffer
    <3>3. CASE newSlots' = newSlots \cup {slot["populate"]} /\ Take("populate", 0)
      BY <1>5, <3>1, <3>3, Send, Zenon DEF PopulateOffer
    <3>4. QED
      BY <1>5, <3>2, <3>3, Zenon DEF PopulateOffer
  <2>2. Free'
    BY <1>5, Zenon DEF PopulateOffer, Slots
  <2>3. LeaksRecorded'
    BY <1>5, Zenon DEF PopulateOffer, Slots
  <2>4. QED
    BY <1>5, <2>1, <2>2, <2>3, Zenon DEF PopulateOffer, Slots
<1>6. ASSUME PopulateExit PROVE Owners' /\ Free' /\ LeaksRecorded'
  BY <1>6, Zenon DEF PopulateExit
<1>7. ASSUME CloseDone PROVE Owners' /\ Free' /\ LeaksRecorded'
  BY <1>7, Zenon DEF CloseDone
<1>8. ASSUME CloseLock PROVE Owners' /\ Free' /\ LeaksRecorded'
  BY <1>8, Zenon DEF CloseLock
<1>9. ASSUME CloseWait PROVE Owners' /\ Free' /\ LeaksRecorded'
  BY <1>9, Zenon DEF CloseWait
<1>10. ASSUME CloseDrain PROVE Owners' /\ Free' /\ LeaksRecorded'
  <2>1. Owners'
    <3>1. slot["close"] = 0
      BY <1>10, Zenon DEF CloseDrain
    <3>2. CASE UNCHANGED <<newSlots, reused, slot>>
      BY <1>10, <3>2, Zenon DEF CloseDrain
    <3>3. ASSUME NEW i \in newSlots, newSlots' = newSlots \ {i}, UNCHANGED reused, Take("close", i)
          PROVE  Owners'
      BY <1>10, <3>1, <3>3, Receive, Zenon DEF CloseDrain
    <3>4. ASSUME NEW i \in reused, reused' = reused \ {i}, UNCHANGED newSlots, Take("close", i)
          PROVE  Owners'
      BY <1>10, <3>1, <3>4, Receive, Zenon DEF CloseDrain
    <3>5. QED
      BY <1>10, <3>2, <3>3, <3>4, Zenon DEF CloseDrain
  <2>2. Free'
    BY <1>10, Zenon DEF CloseDrain, Slots
  <2>3. LeaksRecorded'
    BY <1>10, Zenon DEF CloseDrain, Slots
  <2>4. QED
    BY <1>10, <2>1, <2>2, <2>3, Zenon DEF CloseDrain, Slots
<1>11. ASSUME NEW s \in Sandboxes, GetReused(s) PROVE Owners' /\ Free' /\ LeaksRecorded'
  <2>1. Owners'
    <3>1. slot[s] = 0
      BY <1>11, Zenon DEF GetReused
    <3>2. CASE UNCHANGED <<reused, slot>>
      BY <1>11, <3>2, Zenon DEF GetReused
    <3>3. ASSUME NEW i \in reused, reused' = reused \ {i}, Take(s, i)
          PROVE  Owners'
      BY <1>11, <3>1, <3>3, Receive, Zenon DEF GetReused
    <3>4. QED
      BY <1>11, <3>2, <3>3, Zenon DEF GetReused
  <2>2. Free'
    BY <1>11, Zenon DEF GetReused, Slots
  <2>3. LeaksRecorded'
    BY <1>11, Zenon DEF GetReused, Slots
  <2>4. QED
    BY <1>11, <2>1, <2>2, <2>3, Zenon DEF GetReused, Slots
<1>12. ASSUME NEW s \in Sandboxes, GetNew(s) PROVE Owners' /\ Free' /\ LeaksRecorded'
  <2>1. Owners'
    <3>1. slot[s] = 0
      BY <1>12, Zenon DEF GetNew
    <3>2. CASE UNCHANGED <<newSlots, slot>>
      BY <1>12, <3>2, Zenon DEF GetNew
    <3>3. ASSUME NEW i \in newSlots, newSlots' = newSlots \ {i}, Take(s, i)
          PROVE  Owners'
      BY <1>12, <3>1, <3>3, Receive, Zenon DEF GetNew
    <3>4. QED
      BY <1>12, <3>2, <3>3, Zenon DEF GetNew
  <2>2. Free'
    BY <1>12, Zenon DEF GetNew, Slots
  <2>3. LeaksRecorded'
    BY <1>12, Zenon DEF GetNew, Slots
  <2>4. QED
    BY <1>12, <2>1, <2>2, <2>3, Zenon DEF GetNew, Slots
<1>13. ASSUME NEW s \in Sandboxes, GetClosed(s) PROVE Owners' /\ Free' /\ LeaksRecorded'
  BY <1>13, Zenon DEF GetClosed
<1>14. ASSUME NEW s \in Sandboxes, GetCancelled(s) PROVE Owners' /\ Free' /\ LeaksRecorded'
  BY <1>14, Zenon DEF GetCancelled
<1>15. ASSUME NEW s \in Sandboxes, configureSlot(s) PROVE Owners' /\ Free' /\ LeaksRecorded'
  BY <1>15, Zenon DEF configureSlot, ReturnAsync
<1>16. ASSUME NEW s \in Sandboxes, Add(s) PROVE Owners' /\ Free' /\ LeaksRecorded'
  BY <1>16, Zenon DEF Add, ReturnAsync
<1>17. ASSUME NEW s \in Sandboxes, AddAppend(s) PROVE Owners' /\ Free' /\ LeaksRecorded'
  BY <1>17, Zenon DEF AddAppend
<1>18. ASSUME NEW s \in Sandboxes, CleanupRun(s) PROVE Owners' /\ Free' /\ LeaksRecorded'
  BY <1>18, Zenon DEF CleanupRun
<1>19. ASSUME NEW s \in Sandboxes, CleanupList(s) PROVE Owners' /\ Free' /\ LeaksRecorded'
  BY <1>19, Zenon DEF CleanupList, ReturnAsync
<1>20. ASSUME NEW s \in Sandboxes, returnSlot(s) PROVE Owners' /\ Free' /\ LeaksRecorded'
  BY <1>20, Zenon DEF returnSlot
<1>21. ASSUME NEW s \in Sandboxes, recycle(s) PROVE Owners' /\ Free' /\ LeaksRecorded'
  BY <1>21, Zenon DEF recycle
<1>22. ASSUME NEW s \in Sandboxes, tryReuse(s) PROVE Owners' /\ Free' /\ LeaksRecorded'
  <2>1. Owners'
    <3>1. slot[s] # 0
      BY <1>22, Zenon DEF tryReuse
    <3>2. CASE UNCHANGED <<reused, slot>>
      BY <1>22, <3>2, Zenon DEF tryReuse
    <3>3. CASE reused' = reused \cup {slot[s]} /\ Take(s, 0)
      BY <1>22, <3>1, <3>3, Send, Zenon DEF tryReuse
    <3>4. QED
      BY <1>22, <3>2, <3>3, Zenon DEF tryReuse
  <2>2. Free'
    BY <1>22, Zenon DEF tryReuse, Sendable, Slots
  <2>3. LeaksRecorded'
    BY <1>22, Zenon DEF tryReuse, Sendable, Slots
  <2>4. QED
    BY <1>22, <2>1, <2>2, <2>3, Zenon DEF tryReuse, Sendable, Slots
<1>23. CASE UNCHANGED vars
  BY <1>23, Zenon DEF vars
<1>24. QED
  BY <1>1, <1>2, <1>3, <1>4, <1>5, <1>6, <1>7, <1>8, <1>9, <1>10, <1>11, <1>12, <1>13, <1>14, <1>15, <1>16, <1>17, <1>18, <1>19, <1>20, <1>21, <1>22, <1>23, Zenon
  DEF Next, cleanupSlot, Populate, Close, Return

(* Every action keeps what Close has achieved so far: once closed is set no *)
(* return is counted and nothing is sent to reusedSlots, and once Populate  *)
(* has exited nothing is sent to newSlots.                                  *)
LEMMA StepClosing ==
  ASSUME TypeOK, Roles, Holders, Closing, [Next]_vars
  PROVE  Closing'
<1> USE PoolAssumption, GoroutineFacts
<1> USE DEF TypeOK, Roles, Closing, SandboxPCs, PopulatePCs, ClosePCs, storageVars, poolVars
<1>1. ASSUME NEW p \in Goroutines, RemoveNetwork(p) PROVE Closing'
  BY <1>1, Zenon DEF RemoveNetwork
<1>2. ASSUME NEW p \in Goroutines, Release(p) PROVE Closing'
  BY <1>2, Zenon DEF Release, recordLeak, Slots
<1>3. ASSUME PopulateAcquire PROVE Closing'
  BY <1>3, Zenon DEF PopulateAcquire, Acquirable, Clean, Lowest, allocate, Slots
<1>4. ASSUME CreateNetwork PROVE Closing'
  BY <1>4 DEF CreateNetwork, Slots
<1>5. ASSUME PopulateOffer PROVE Closing'
  BY <1>5 DEF PopulateOffer, Slots
<1>6. ASSUME PopulateExit PROVE Closing'
  BY <1>6, Zenon DEF PopulateExit
<1>7. ASSUME CloseDone PROVE Closing'
  BY <1>7, Zenon DEF CloseDone
<1>8. ASSUME CloseLock PROVE Closing'
  BY <1>8, Zenon DEF CloseLock
<1>9. ASSUME CloseWait PROVE Closing'
  BY <1>9, Zenon DEF CloseWait
<1>10. ASSUME CloseDrain PROVE Closing'
  BY <1>10, ZenonT(30) DEF CloseDrain, Slots
<1>11. ASSUME NEW s \in Sandboxes, GetReused(s) PROVE Closing'
  BY <1>11, ZenonT(30) DEF GetReused, Slots
<1>12. ASSUME NEW s \in Sandboxes, GetNew(s) PROVE Closing'
  BY <1>12, ZenonT(30) DEF GetNew, Slots
<1>13. ASSUME NEW s \in Sandboxes, GetClosed(s) PROVE Closing'
  BY <1>13, Zenon DEF GetClosed
<1>14. ASSUME NEW s \in Sandboxes, GetCancelled(s) PROVE Closing'
  BY <1>14, Zenon DEF GetCancelled
<1>15. ASSUME NEW s \in Sandboxes, configureSlot(s) PROVE Closing'
  BY <1>15 DEF configureSlot, ReturnAsync
<1>16. ASSUME NEW s \in Sandboxes, Add(s) PROVE Closing'
  BY <1>16 DEF Add, ReturnAsync
<1>17. ASSUME NEW s \in Sandboxes, AddAppend(s) PROVE Closing'
  BY <1>17, Zenon DEF AddAppend
<1>18. ASSUME NEW s \in Sandboxes, CleanupRun(s) PROVE Closing'
  BY <1>18, Zenon DEF CleanupRun
<1>19. ASSUME NEW s \in Sandboxes, CleanupList(s) PROVE Closing'
  BY <1>19, Zenon DEF CleanupList, ReturnAsync
<1>20. ASSUME NEW s \in Sandboxes, returnSlot(s) PROVE Closing'
  BY <1>20 DEF returnSlot
<1>21. ASSUME NEW s \in Sandboxes, recycle(s) PROVE Closing'
  BY <1>21 DEF recycle
<1>22. ASSUME NEW s \in Sandboxes, tryReuse(s) PROVE Closing'
  BY <1>22, ZenonT(30) DEF tryReuse, Sendable, Slots
<1>23. CASE UNCHANGED vars
  BY <1>23, Zenon DEF vars
<1>24. QED
  BY <1>1, <1>2, <1>3, <1>4, <1>5, <1>6, <1>7, <1>8, <1>9, <1>10, <1>11, <1>12, <1>13, <1>14, <1>15, <1>16, <1>17, <1>18, <1>19, <1>20, <1>21, <1>22, <1>23, Zenon
  DEF Next, cleanupSlot, Populate, Close, Return

LEMMA PoolInvariant == Spec => []PoolInv
<1>1. Init => PoolInv
  BY InitPool, Zenon
<1>2. PoolInv /\ [Next]_vars => PoolInv'
  BY StepType, StepOwners, StepClosing, Zenon DEF PoolInv
<1>3. QED
  BY <1>1, <1>2, PTL DEF Spec

(* Every variable of the storage, the pool and its goroutines keeps its     *)
(* type, whatever the number of slots and of sandboxes.                     *)
THEOREM PoolTypeCorrect == Spec => []TypeOK
<1>1. PoolInv => TypeOK
  BY Zenon DEF PoolInv
<1>2. QED
  BY <1>1, PoolInvariant, PTL

(* For every size of the pool, no slot is ever in two hands or in none:     *)
(* what StorageLocal has marked as acquired is in one of the channels or    *)
(* with one goroutine of Get, ReturnAsync, Populate or Close.               *)
THEOREM SlotsOwned == Spec => []OneOwner
<1>1. PoolInv => OneOwner
  <2> SUFFICES ASSUME PoolInv PROVE OneOwner
    BY Zenon
  <2>1. \A i \in acquired : i # 0
    BY PoolAssumption DEF PoolInv, TypeOK, Slots
  <2>2. acquired \subseteq newSlots \cup reused \cup Held
    BY <2>1, Zenon DEF PoolInv, Owners, Held
  <2>3. Held \subseteq acquired /\ (newSlots \cup reused) \cap Held = {}
    BY Zenon DEF PoolInv, Owners, Held
  <2>4. newSlots \cup reused \subseteq acquired /\ newSlots \cap reused = {}
    BY Zenon DEF PoolInv, Owners
  <2>5. \A p, q \in Goroutines : slot[p] = slot[q] /\ slot[p] # 0 => p = q
    BY Zenon DEF PoolInv, Owners
  <2>6. acquired = newSlots \cup reused \cup Held
    BY <2>2, <2>3, <2>4, Zenon
  <2>7. QED
    BY <2>3, <2>4, <2>5, <2>6, Zenon DEF OneOwner
<1>2. QED
  BY <1>1, PoolInvariant, PTL

(* Whatever teardown fails, in whatever order, Release keeps a record of    *)
(* every namespace that this storage created and still exists.              *)
THEOREM NoLeakForgotten == Spec => []LeaksRecorded
<1>1. PoolInv => LeaksRecorded
  BY Zenon DEF PoolInv
<1>2. QED
  BY <1>1, PoolInvariant, PTL

(* Close returns with both channels empty, Populate gone and every counted  *)
(* return finished, however Get and ReturnAsync race with it.               *)
THEOREM CloseIsClean == Spec => []CloseDrains
<1>1. PoolInv => CloseDrains
  <2> SUFFICES ASSUME PoolInv, pc["close"] = "closed" PROVE CloseDrains
    BY Zenon DEF CloseDrains
  <2>1. newSlots = {} /\ reused = {} /\ returns = {} /\ pc["populate"] = "exited"
    BY Zenon DEF PoolInv, Closing
  <2>2. slot["close"] = 0 /\ slot["populate"] = 0
    BY <2>1, GoroutineFacts, Zenon DEF PoolInv, Holders, Holding
  <2>3. acquired = {slot[s] : s \in Sandboxes} \ {0}
    <3>1. \A i \in acquired : i # 0 /\ \E s \in Sandboxes : slot[s] = i
      BY <2>1, <2>2, GoroutineFacts, PoolAssumption DEF PoolInv, Owners, TypeOK, Slots
    <3>2. \A s \in Sandboxes : slot[s] # 0 => slot[s] \in acquired
      BY GoroutineFacts, Zenon DEF PoolInv, Owners
    <3>3. QED
      BY <3>1, <3>2, Zenon
  <2>4. QED
    BY <2>1, <2>3, Zenon DEF CloseDrains
<1>2. QED
  BY <1>1, PoolInvariant, PTL

(************************ The pool leases its slots ************************)

(* What the channels, Populate and the sandboxes may rely on: every slot    *)
(* that is on offer or in use has its namespace, and none is one that       *)
(* startup reclaim gave up on.                                              *)
Ready ==
  /\ Foreign \cap acquired = {} /\ Foreign \cap leaked = {}
  /\ newSlots \subseteq ns /\ reused \subseteq ns
  /\ pc["populate"] = "offer" => slot["populate"] \in ns
  /\ \A s \in Sandboxes : pc[s] \in InUse => slot[s] \in ns

LEMMA InitReady == Init => Ready /\ Leases!Init
<1> SUFFICES ASSUME Init PROVE Ready /\ Leases!Init
  BY Zenon
<1> USE GoroutineFacts
<1>1. pc["populate"] = "loop" /\ \A s \in Sandboxes : pc[s] = "idle" /\ slot[s] = 0
  BY Zenon DEF Init
<1>2. Live = {}
  BY <1>1, Zenon DEF Live, InUse
<1>3. QED
  BY <1>1, <1>2, Zenon DEF Init, Ready, InUse, Leases!Init

(* A namespace changes only in the hands of a goroutine that is building or *)
(* tearing it down, and then nobody else relies on it.                      *)
LEMMA Alone ==
  ASSUME PoolInv, Ready, NEW p \in Goroutines, pc[p] \in {"create", "remove"},
         ns \ {slot[p]} \subseteq ns', UNCHANGED <<newSlots, reused, slot, acquired, leaked>>,
         NEW l, l \in {"offer", "release"}, Goto(p, l), l = "offer" => slot[p] \in ns'
  PROVE  /\ Ready'
         /\ slot[p] \in acquired /\ \A s \in Live : slot[s] # slot[p]
         /\ Live' = Live
<1> USE GoroutineFacts
<1> USE DEF PoolInv, TypeOK, Holders, Holding, Owners, Ready, InUse
<1>1. slot[p] # 0 /\ slot[p] \in acquired /\ slot[p] \notin newSlots /\ slot[p] \notin reused
  BY Zenon
<1>2. \A q \in Goroutines : q # p => slot[q] # slot[p]
  BY <1>1, Zenon
<1>3. pc'[p] = l /\ \A q \in Goroutines : q # p => pc'[q] = pc[q]
  BY Zenon
<1>4. newSlots' \subseteq ns' /\ reused' \subseteq ns'
  BY <1>1, Zenon
<1>5. pc'["populate"] = "offer" => slot'["populate"] \in ns'
  BY <1>2, <1>3, Zenon
<1>6. \A s \in Sandboxes : pc'[s] \in InUse => s # p /\ pc[s] \in InUse
  BY <1>3, Zenon
<1>7. \A s \in Sandboxes : pc'[s] \in InUse => slot'[s] \in ns'
  BY <1>2, <1>6, Zenon
<1>8. \A s \in Sandboxes : pc[s] \in InUse => s # p /\ pc'[s] \in InUse
  BY <1>3, Zenon
<1>9. Live' = Live
  BY <1>6, <1>8, Zenon DEF Live
<1>10. \A s \in Live : slot[s] # slot[p]
  BY <1>2, <1>8, Zenon DEF Live
<1>11. QED
  BY <1>1, <1>4, <1>5, <1>7, <1>9, <1>10, Zenon

(* What a goroutine that moves on leaves as it was. *)
LEMMA Others ==
  ASSUME TypeOK, NEW p \in Goroutines, NEW l, Goto(p, l)
  PROVE  /\ pc'[p] = l /\ \A q \in Goroutines : q # p => pc'[q] = pc[q]
         /\ \A s \in Sandboxes : s # p => (s \in Live' <=> s \in Live)
         /\ p \in Sandboxes => (p \in Live' <=> l \in InUse)
<1>1. pc'[p] = l /\ \A q \in Goroutines : q # p => pc'[q] = pc[q]
  BY Zenon DEF TypeOK
<1>2. QED
  BY <1>1, GoroutineFacts, Zenon DEF Live

(* A step that moves a goroutine on and no slot: seen from outside nothing  *)
(* happens, unless a sandbox lets its slot go.                              *)
LEMMA MoveOn ==
  ASSUME TypeOK, Ready, NEW p \in Goroutines, NEW l, Goto(p, l), l # "offer",
         UNCHANGED <<ns, acquired, leaked, newSlots, reused, slot>>,
         p \in Sandboxes => (l \in InUse => pc[p] \in InUse)
  PROVE  Ready' /\ [Leases!Next]_(Leases!vars)
<1> USE GoroutineFacts
<1>1. pc'[p] = l /\ \A q \in Goroutines : q # p => pc'[q] = pc[q]
  BY Others, Zenon
<1>2. \A s \in Sandboxes : pc'[s] \in InUse => pc[s] \in InUse
  BY <1>1, Zenon
<1>3. pc'["populate"] = "offer" => pc["populate"] = "offer"
  BY <1>1, Zenon
<1>4. Ready'
  BY <1>2, <1>3, Zenon DEF Ready
<1>5. UNCHANGED <<ns, acquired, [s \in Sandboxes |-> slot[s]]>>
  BY Zenon
<1>6. CASE p \in Sandboxes /\ pc[p] \in InUse /\ l \notin InUse
  <2>1. p \in Live /\ Live' = Live \ {p}
    BY <1>6, Others, Zenon DEF Live
  <2>2. Leases!LetGo(p)
    BY <1>5, <2>1, Zenon DEF Leases!LetGo
  <2>3. QED
    BY <1>4, <1>6, <2>2, Zenon DEF Leases!Next
<1>7. CASE ~(p \in Sandboxes /\ pc[p] \in InUse /\ l \notin InUse)
  <2>1. Live' = Live
    BY <1>1, <1>2, <1>7, Zenon DEF Live
  <2>2. QED
    BY <1>4, <1>5, <2>1, Zenon DEF Leases!vars
<1>8. QED
  BY <1>6, <1>7, Zenon

(* A goroutine that has a slot with a namespace where it needs one. *)
LEMMA ReadyKept ==
  ASSUME Ready, NEW p \in Goroutines, UNCHANGED <<ns, acquired, leaked>>,
         newSlots' \subseteq ns', reused' \subseteq ns',
         \A q \in Goroutines : q # p => pc'[q] = pc[q] /\ slot'[q] = slot[q],
         pc'[p] \in InUse \cup {"offer"} => slot'[p] \in ns'
  PROVE  Ready'
<1> USE GoroutineFacts
<1>1. pc'["populate"] = "offer" => slot'["populate"] \in ns'
  BY Zenon DEF Ready
<1>2. \A s \in Sandboxes : pc'[s] \in InUse => slot'[s] \in ns'
  BY Zenon DEF Ready
<1>3. QED
  BY <1>1, <1>2, Zenon DEF Ready

LEMMA HeldExcept ==
  ASSUME TypeOK, NEW p \in Sandboxes, NEW i, Take(p, i)
  PROVE  [s \in Sandboxes |-> slot'[s]] = [[s \in Sandboxes |-> slot[s]] EXCEPT ![p] = i]
<1> DEFINE f == [s \in Sandboxes |-> slot'[s]]
           g == [[s \in Sandboxes |-> slot[s]] EXCEPT ![p] = i]
<1>1. \A s \in Sandboxes : slot'[s] = IF s = p THEN i ELSE slot[s]
  BY GoroutineFacts, Zenon DEF TypeOK
<1>2. g = [s \in Sandboxes |-> IF s = p THEN i ELSE slot[s]]
  BY Zenon
<1>3. QED
  BY <1>1, <1>2, Zenon

(* A receive by a sandbox is a grant. *)
LEMMA GrantStep ==
  ASSUME PoolInv, Ready, NEW p \in Sandboxes, pc[p] \in {"idle", "waiting"}, Goto(p, "configure"),
         NEW i \in Slots, Take(p, i), UNCHANGED <<ns, acquired, leaked>>,
         \/ i \in newSlots /\ newSlots' = newSlots \ {i} /\ reused' = reused
         \/ i \in reused /\ reused' = reused \ {i} /\ newSlots' = newSlots
  PROVE  Ready' /\ [Leases!Next]_(Leases!vars)
<1> USE GoroutineFacts
<1>1. /\ pc'[p] = "configure" /\ \A q \in Goroutines : q # p => pc'[q] = pc[q]
      /\ Live' = Live \cup {p}
  <2>1. "configure" \in InUse /\ TypeOK
    BY Zenon DEF PoolInv, InUse
  <2>2. pc'[p] = "configure" /\ \A q \in Goroutines : q # p => pc'[q] = pc[q]
    BY <2>1, Others, Zenon
  <2>3. p \in Live' /\ \A s \in Sandboxes : s # p => (s \in Live' <=> s \in Live)
    BY <2>1, Others, Zenon
  <2>4. Live' \subseteq Sandboxes /\ Live \subseteq Sandboxes
    BY Zenon DEF Live
  <2>5. QED
    BY <2>2, <2>3, <2>4, Zenon
<1>2. slot'[p] = i /\ \A q \in Goroutines : q # p => slot'[q] = slot[q]
  BY Zenon DEF PoolInv, TypeOK
<1>3. slot[p] = 0
  BY Zenon DEF PoolInv, Holders, Holding
<1>4. i \in acquired /\ i \in ns /\ i # 0
  BY PoolAssumption DEF PoolInv, Owners, Ready, Slots
<1>5. \A q \in Goroutines : slot[q] # i
  BY <1>4, Zenon DEF PoolInv, Owners
<1>6. Ready'
  <2>1. newSlots' \subseteq ns' /\ reused' \subseteq ns'
    BY Zenon DEF Ready
  <2>2. \A q \in Goroutines : q # p => pc'[q] = pc[q] /\ slot'[q] = slot[q]
    BY <1>1, <1>2, Zenon
  <2>3. p \in Goroutines /\ slot'[p] \in ns'
    BY <1>2, <1>4
  <2>4. QED
    BY <2>1, <2>2, <2>3, ReadyKept, Zenon
<1>7. [s \in Sandboxes |-> slot'[s]] = [[s \in Sandboxes |-> slot[s]] EXCEPT ![p] = i]
  <2>1. TypeOK
    BY Zenon DEF PoolInv
  <2>2. QED
    BY <2>1, HeldExcept, Zenon
<1>8. Leases!Grant(p, i)
  <2>1. [s \in Sandboxes |-> slot[s]][p] = 0
    BY <1>3, Zenon
  <2>2. \A t \in Sandboxes : [s \in Sandboxes |-> slot[s]][t] # i
    BY <1>5, Zenon
  <2>3. QED
    BY <1>1, <1>4, <1>7, <2>1, <2>2, Zenon DEF Leases!Grant
<1>9. QED
  BY <1>6, <1>8, Zenon DEF Leases!Next

(* A receive by Close, and a send by Populate, stay within the pool. *)
LEMMA PoolStep ==
  ASSUME TypeOK, Ready, NEW p \in {"populate", "close"}, NEW l, Goto(p, l), l # "offer",
         NEW i, Take(p, i), UNCHANGED <<ns, acquired, leaked>>,
         newSlots' \subseteq ns', reused' \subseteq ns'
  PROVE  Ready' /\ [Leases!Next]_(Leases!vars)
<1> USE GoroutineFacts
<1>1. p \in Goroutines /\ p \notin Sandboxes
  BY Zenon
<1>2. pc'[p] = l /\ \A q \in Goroutines : q # p => pc'[q] = pc[q]
  BY <1>1, Others, Zenon
<1>3. \A q \in Goroutines : q # p => slot'[q] = slot[q]
  BY Zenon DEF TypeOK
<1>4. \A s \in Sandboxes : s \in Goroutines /\ pc'[s] = pc[s] /\ slot'[s] = slot[s]
  BY <1>1, <1>2, <1>3, Zenon
<1>5. Ready'
  <2>1. \A s \in Sandboxes : pc'[s] \in InUse => slot'[s] \in ns'
    <3> SUFFICES ASSUME NEW s \in Sandboxes, pc'[s] \in InUse PROVE slot'[s] \in ns'
      BY Zenon
    <3>1. pc'[s] = pc[s] /\ slot'[s] = slot[s] /\ ns' = ns
      BY <1>4, Zenon
    <3>2. slot[s] \in ns
      BY <3>1, Zenon DEF Ready
    <3>3. QED
      BY <3>1, <3>2
  <2>2. pc'["populate"] = "offer" => slot'["populate"] \in ns'
    <3>1. CASE p = "populate"
      BY <1>2, <3>1, Zenon
    <3>2. CASE p # "populate"
      BY <1>2, <1>3, <3>2 DEF Ready
    <3>3. QED
      BY <3>1, <3>2, Zenon
  <2>3. QED
    BY <2>1, <2>2, Zenon DEF Ready
<1>6. Live' = Live
  BY <1>4, Zenon DEF Live
<1>7. [s \in Sandboxes |-> slot'[s]] = [s \in Sandboxes |-> slot[s]]
  BY <1>4, Zenon
<1>8. QED
  BY <1>5, <1>6, <1>7, Zenon DEF Leases!vars

(* A send by a sandbox gives the slot back. *)
LEMMA GiveBackStep ==
  ASSUME PoolInv, Ready, NEW p \in Sandboxes, pc[p] = "reuse", Goto(p, "idle"),
         Take(p, 0), UNCHANGED <<ns, acquired, leaked, newSlots>>,
         reused' = reused \cup {slot[p]}
  PROVE  Ready' /\ [Leases!Next]_(Leases!vars)
<1> USE GoroutineFacts
<1>1. TypeOK /\ p \in Goroutines
  BY Zenon DEF PoolInv
<1>2. pc'[p] = "idle" /\ \A q \in Goroutines : q # p => pc'[q] = pc[q]
  BY <1>1, Others, Zenon
<1>3. \A q \in Goroutines : q # p => slot'[q] = slot[q]
  BY <1>1, Zenon DEF TypeOK
<1>4. "reuse" \in InUse /\ "idle" \notin InUse \cup {"offer"}
  BY Zenon DEF InUse
<1>5. Ready'
  <2>1. newSlots' \subseteq ns' /\ reused' \subseteq ns'
    BY <1>4, Zenon DEF Ready
  <2>2. \A q \in Goroutines : q # p => pc'[q] = pc[q] /\ slot'[q] = slot[q]
    BY <1>2, <1>3, Zenon
  <2>3. pc'[p] \notin InUse \cup {"offer"}
    BY <1>2, <1>4, Zenon
  <2>4. QED
    BY <1>1, <2>1, <2>2, <2>3, ReadyKept, Zenon
<1>6. p \in Live /\ Live' = Live \ {p}
  BY <1>2, <1>4, Zenon DEF Live
<1>7. [s \in Sandboxes |-> slot'[s]] = [[s \in Sandboxes |-> slot[s]] EXCEPT ![p] = 0]
  BY <1>1, HeldExcept, Zenon
<1>8. Leases!GiveBack(p)
  BY <1>6, <1>7, Zenon DEF Leases!GiveBack
<1>9. QED
  BY <1>5, <1>8, Zenon DEF Leases!Next

(* CreateNetwork and RemoveNetwork change a namespace nobody relies on. *)
LEMMA ChangeStep ==
  ASSUME PoolInv, Ready, NEW p \in Goroutines,
         RemoveNetwork(p) \/ (CreateNetwork /\ p = "populate")
  PROVE  Ready' /\ [Leases!Next]_(Leases!vars)
<1> USE GoroutineFacts
<1>1. ns' = ns \/ ns' = ns \cup {slot[p]} \/ ns' = ns \ {slot[p]}
  BY Zenon DEF CreateNetwork, RemoveNetwork
<1>2. /\ pc[p] \in {"create", "remove"} /\ ns \ {slot[p]} \subseteq ns'
      /\ UNCHANGED <<newSlots, reused, slot, acquired, leaked>>
  <2>1. ns \ {slot[p]} \subseteq ns'
    BY <1>1, Zenon
  <2>2. QED
    BY <2>1, Zenon DEF CreateNetwork, RemoveNetwork, storageVars, poolVars
<1>3. Goto(p, "release") \/ (Goto(p, "offer") /\ slot[p] \in ns')
  BY Zenon DEF CreateNetwork, RemoveNetwork
<1>4. Ready' /\ slot[p] \in acquired /\ (\A s \in Live : slot[s] # slot[p]) /\ Live' = Live
  <2>1. CASE Goto(p, "release")
    BY <1>2, <2>1, Alone, Zenon
  <2>2. CASE Goto(p, "offer") /\ slot[p] \in ns'
    BY <1>2, <2>2, Alone, Zenon
  <2>3. QED
    BY <1>3, <2>1, <2>2, Zenon
<1>5. slot[p] \in Slots
  BY <1>4, Zenon DEF PoolInv, TypeOK
<1>6. [s \in Sandboxes |-> slot'[s]] = [s \in Sandboxes |-> slot[s]] /\ acquired' = acquired
  BY <1>2, Zenon
<1>7. CASE ns' = ns
  BY <1>4, <1>6, <1>7, Zenon DEF Leases!vars
<1>8. CASE ns' \in {ns \cup {slot[p]}, ns \ {slot[p]}}
  <2>1. \A s \in Live : [t \in Sandboxes |-> slot[t]][s] # slot[p]
    BY <1>4, Zenon DEF Live
  <2>2. Leases!Change(slot[p])
    BY <1>4, <1>6, <1>8, <2>1, Zenon DEF Leases!Change
  <2>3. QED
    BY <1>4, <1>5, <2>2, Zenon DEF Leases!Next
<1>9. QED
  BY <1>1, <1>7, <1>8, Zenon

(* Acquire: a slot with a namespace only when no other is left. *)
LEMMA AcquireStep ==
  ASSUME PoolInv, Ready, PopulateAcquire
  PROVE  Ready' /\ [Leases!Next]_(Leases!vars)
<1> USE GoroutineFacts
<1>1. TypeOK
  BY Zenon DEF PoolInv
<1>2. PICK i \in Acquirable : allocate(i) /\ Take("populate", i)
  BY Zenon DEF PopulateAcquire
<1>3. i \in Slots \ (Foreign \cup acquired)
  <2>1. CASE Clean # {}
    BY <1>2, <2>1, Zenon DEF Acquirable, Lowest, Clean
  <2>2. CASE Clean = {}
    BY <1>2, <2>2, Zenon DEF Acquirable, PoolInv, TypeOK, Free, Ready
  <2>3. QED
    BY <2>1, <2>2, Zenon
<1>4. i \in ns => Slots \subseteq Foreign \cup acquired \cup ns
  <2>1. CASE Clean # {}
    BY <1>2, <2>1, Zenon DEF Acquirable, Lowest, Clean
  <2>2. CASE Clean = {}
    BY <2>2, Zenon DEF Clean
  <2>3. QED
    BY <2>1, <2>2, Zenon
<1>5. pc'["populate"] = "create" /\ \A q \in Goroutines : q # "populate" => pc'[q] = pc[q]
  BY <1>1, Others, Zenon DEF PopulateAcquire
<1>6. \A q \in Goroutines : q # "populate" => slot'[q] = slot[q]
  BY <1>1, <1>2, Zenon DEF TypeOK
<1>7. \A s \in Sandboxes : pc'[s] = pc[s] /\ slot'[s] = slot[s]
  BY <1>5, <1>6, Zenon
<1>8. UNCHANGED <<ns, newSlots, reused>>
  BY Zenon DEF PopulateAcquire, poolVars
<1>9. acquired' = acquired \cup {i} /\ leaked' = leaked \ {i}
  BY <1>2, Zenon DEF allocate
<1>10. Ready'
  <2>1. Foreign \cap acquired' = {} /\ Foreign \cap leaked' = {}
    BY <1>3, <1>9, Zenon DEF Ready
  <2>2. \A s \in Sandboxes : pc'[s] \in InUse => slot'[s] \in ns'
    BY <1>7, <1>8 DEF Ready
  <2>3. QED
    BY <1>5, <1>8, <2>1, <2>2, Zenon DEF Ready
<1>11. Live' = Live
  BY <1>7, Zenon DEF Live
<1>12. [s \in Sandboxes |-> slot'[s]] = [s \in Sandboxes |-> slot[s]]
  BY <1>7, Zenon
<1>13. Leases!Acquire(i)
  BY <1>3, <1>4, <1>8, <1>9, <1>11, <1>12, Zenon DEF Leases!Acquire
<1>14. QED
  BY <1>3, <1>10, <1>13, Zenon DEF Leases!Next

(* Release: the sandbox, if it is one, has let the slot go before. *)
LEMMA ReleaseStep ==
  ASSUME PoolInv, Ready, NEW p \in Goroutines, Release(p)
  PROVE  Ready' /\ [Leases!Next]_(Leases!vars)
<1> USE GoroutineFacts
<1>1. TypeOK /\ pc[p] = "release" /\ Take(p, 0)
  BY Zenon DEF PoolInv, Release
<1>2. slot[p] # 0 /\ slot[p] \in acquired
  BY <1>1, Zenon DEF PoolInv, Holders, Holding, Owners
<1>3. slot[p] \in Slots
  BY <1>1, <1>2, Zenon DEF TypeOK
<1>4. \A q \in Goroutines : q # p => slot[q] # slot[p]
  BY <1>2, Zenon DEF PoolInv, Owners
<1>5. PICK l \in {"loop", "drain", "idle"} : Goto(p, l)
  BY Zenon DEF Release
<1>6. l \notin InUse \cup {"offer"} /\ "release" \notin InUse
  BY <1>5, Zenon DEF InUse
<1>7. pc'[p] = l /\ \A q \in Goroutines : q # p => pc'[q] = pc[q]
  BY <1>1, <1>5, Others, Zenon
<1>8. slot'[p] = 0 /\ \A q \in Goroutines : q # p => slot'[q] = slot[q]
  BY <1>1, Zenon DEF TypeOK
<1>9. /\ UNCHANGED <<ns, newSlots, reused>> /\ acquired' = acquired \ {slot[p]}
      /\ leaked' = leaked \/ leaked' = leaked \cup {slot[p]}
  BY Zenon DEF Release, recordLeak
<1>10. Ready'
  <2>1. Foreign \cap acquired' = {} /\ Foreign \cap leaked' = {}
    BY <1>2, <1>9, Zenon DEF Ready
  <2>2. pc'["populate"] = "offer" => slot'["populate"] \in ns'
    BY <1>6, <1>7, <1>8, <1>9 DEF Ready
  <2>3. \A s \in Sandboxes : pc'[s] \in InUse => slot'[s] \in ns'
    BY <1>6, <1>7, <1>8, <1>9 DEF Ready
  <2>4. QED
    BY <1>9, <2>1, <2>2, <2>3, Zenon DEF Ready
<1>11. \A s \in Live : [t \in Sandboxes |-> slot[t]][s] # slot[p]
  BY <1>1, <1>4, <1>6, Zenon DEF Live
<1>12. Live' = Live
  BY <1>1, <1>6, <1>7, Zenon DEF Live
<1>13. [s \in Sandboxes |-> slot'[s]]
         = [s \in Sandboxes |-> IF [t \in Sandboxes |-> slot[t]][s] = slot[p]
                                THEN 0 ELSE [t \in Sandboxes |-> slot[t]][s]]
  <2>1. \A s \in Sandboxes : slot'[s] = IF slot[s] = slot[p] THEN 0 ELSE slot[s]
    BY <1>4, <1>8, Zenon
  <2>2. QED
    BY <2>1, Zenon
<1>14. \E i \in Slots : Leases!Release(i)
  <2>1. PICK i \in Slots : i = slot[p]
    BY <1>3, Zenon
  <2>2. Leases!Release(i)
    BY <1>2, <1>9, <1>11, <1>12, <1>13, <2>1, Zenon DEF Leases!Release
  <2>3. QED
    BY <2>2, Zenon
<1>15. QED
  BY <1>10, <1>14, Zenon DEF Leases!Next

(* Every step of the pool is a step of the leases, or invisible. *)
LEMMA StepLeases ==
  ASSUME PoolInv, Ready, [Next]_vars
  PROVE  Ready' /\ [Leases!Next]_(Leases!vars)
<1> USE PoolAssumption, GoroutineFacts
<1> DEFINE Goal == Ready' /\ [Leases!Next]_(Leases!vars)
<1>0. TypeOK /\ "remove" \notin InUse /\ "idle" \notin InUse /\ "waiting" \notin InUse /\ "nil" \notin InUse
  BY Zenon DEF PoolInv, InUse
<1>1. /\ {"configure", "add", "append", "using", "delay", "recycle", "reuse"} \subseteq InUse
      /\ "offer" \notin InUse
  BY Zenon DEF InUse
<1>2. ASSUME PopulateOffer PROVE Goal
  <2>1. CASE Goto("populate", "remove") /\ UNCHANGED <<newSlots, slot>>
    BY <1>0, <1>2, <2>1, MoveOn, Zenon DEF PopulateOffer, storageVars
  <2>2. CASE newSlots' = newSlots \cup {slot["populate"]} /\ Take("populate", 0) /\ Goto("populate", "loop")
    <3>1. newSlots' \subseteq ns' /\ reused' \subseteq ns' /\ UNCHANGED <<ns, acquired, leaked>>
      BY <1>2, <2>2, Zenon DEF PopulateOffer, Ready, storageVars
    <3>2. QED
      BY <1>0, <2>2, <3>1, PoolStep, Zenon
  <2>3. QED
    BY <1>2, <2>1, <2>2, Zenon DEF PopulateOffer
<1>3. ASSUME PopulateExit PROVE Goal
  BY <1>0, <1>3, MoveOn, Zenon DEF PopulateExit, storageVars
<1>4. ASSUME CloseDone \/ CloseLock \/ CloseWait PROVE Goal
  <2>1. PICK l \in {"lock", "wait", "drain"} : Goto("close", l)
    BY <1>4, Zenon DEF CloseDone, CloseLock, CloseWait
  <2>2. l # "offer" /\ UNCHANGED <<ns, acquired, leaked, newSlots, reused, slot>>
    BY <1>4, <2>1, Zenon DEF CloseDone, CloseLock, CloseWait, storageVars, poolVars
  <2>3. QED
    BY <1>0, <2>1, <2>2, MoveOn, Zenon
<1>5. ASSUME CloseDrain PROVE Goal
  <2>1. UNCHANGED <<ns, acquired, leaked>>
    BY <1>5, Zenon DEF CloseDrain, storageVars
  <2>2. CASE Goto("close", "closed") /\ UNCHANGED <<newSlots, reused, slot>>
    BY <1>0, <2>1, <2>2, MoveOn, Zenon
  <2>3. ASSUME NEW i, Take("close", i), Goto("close", "remove"),
               newSlots' \subseteq newSlots, reused' \subseteq reused
        PROVE  Goal
    <3>1. newSlots' \subseteq ns' /\ reused' \subseteq ns'
      BY <2>1, <2>3, Zenon DEF Ready
    <3>2. QED
      BY <1>0, <2>1, <2>3, <3>1, PoolStep, Zenon
  <2>4. QED
    BY <1>5, <2>2, <2>3, Zenon DEF CloseDrain
<1>6. ASSUME NEW s \in Sandboxes, GetReused(s) PROVE Goal
  <2>1. UNCHANGED <<ns, acquired, leaked, newSlots>> /\ pc[s] = "idle"
    BY <1>6, Zenon DEF GetReused, storageVars
  <2>2. CASE Goto(s, "waiting") /\ UNCHANGED <<reused, slot>>
    BY <1>0, <2>1, <2>2, MoveOn, Zenon
  <2>3. ASSUME NEW i \in reused, reused' = reused \ {i}, Take(s, i), Goto(s, "configure") PROVE Goal
    <3>1. i \in Slots
      BY <1>0, Zenon DEF TypeOK
    <3>2. QED
      BY <2>1, <2>3, <3>1, GrantStep, Zenon
  <2>4. QED
    BY <1>6, <2>2, <2>3, Zenon DEF GetReused
<1>7. ASSUME NEW s \in Sandboxes, GetNew(s) PROVE Goal
  <2>1. UNCHANGED <<ns, acquired, leaked, reused>> /\ pc[s] = "waiting"
    BY <1>7, Zenon DEF GetNew, storageVars
  <2>2. CASE Goto(s, "nil") /\ UNCHANGED <<newSlots, slot>>
    BY <1>0, <2>1, <2>2, MoveOn, Zenon
  <2>3. ASSUME NEW i \in newSlots, newSlots' = newSlots \ {i}, Take(s, i), Goto(s, "configure") PROVE Goal
    <3>1. i \in Slots
      BY <1>0, Zenon DEF TypeOK
    <3>2. QED
      BY <2>1, <2>3, <3>1, GrantStep, Zenon
  <2>4. QED
    BY <1>7, <2>2, <2>3, Zenon DEF GetNew
<1>8. ASSUME NEW s \in Sandboxes, GetClosed(s) \/ GetCancelled(s) PROVE Goal
  <2>1. Goto(s, "idle") /\ UNCHANGED <<ns, acquired, leaked, newSlots, reused, slot>>
    BY <1>8, Zenon DEF GetClosed, GetCancelled, storageVars, poolVars
  <2>2. QED
    BY <1>0, <2>1, MoveOn, Zenon
<1>9. ASSUME NEW s \in Sandboxes, configureSlot(s) \/ Add(s) \/ AddAppend(s) PROVE Goal
  <2>1. PICK l \in {"add", "delay", "append", "stranded", "using"} : Goto(s, l)
    BY <1>9, Zenon DEF configureSlot, Add, AddAppend, ReturnAsync
  <2>2. /\ l # "offer" /\ pc[s] \in InUse
        /\ UNCHANGED <<ns, acquired, leaked, newSlots, reused, slot>>
    BY <1>1, <1>9, <2>1, Zenon DEF configureSlot, Add, AddAppend, storageVars, poolVars
  <2>3. QED
    BY <1>0, <2>1, <2>2, MoveOn, Zenon
<1>10. ASSUME NEW s \in Sandboxes, CleanupRun(s) \/ CleanupList(s) PROVE Goal
  <2>1. UNCHANGED <<ns, acquired, leaked, newSlots, reused, slot>>
    BY <1>10, Zenon DEF CleanupRun, CleanupList, storageVars, poolVars
  <2>2. CASE UNCHANGED pc
    BY <2>1, <2>2, Zenon DEF Ready, Live, Leases!vars
  <2>3. CASE pc[s] = "using" /\ Goto(s, "delay")
    BY <1>0, <1>1, <2>1, <2>3, MoveOn, Zenon
  <2>4. QED
    BY <1>10, <2>2, <2>3, Zenon DEF CleanupRun, CleanupList, ReturnAsync
<1>11. ASSUME NEW s \in Sandboxes, returnSlot(s) \/ recycle(s) PROVE Goal
  <2>1. PICK l \in {"recycle", "remove", "reuse"} : Goto(s, l)
    BY <1>11, Zenon DEF returnSlot, recycle
  <2>2. /\ l # "offer" /\ pc[s] \in InUse
        /\ UNCHANGED <<ns, acquired, leaked, newSlots, reused, slot>>
    BY <1>1, <1>11, <2>1, Zenon DEF returnSlot, recycle, storageVars, poolVars
  <2>3. QED
    BY <1>0, <2>1, <2>2, MoveOn, Zenon
<1>12. ASSUME NEW s \in Sandboxes, tryReuse(s) PROVE Goal
  <2>1. UNCHANGED <<ns, acquired, leaked, newSlots>> /\ pc[s] = "reuse"
    BY <1>12, Zenon DEF tryReuse, storageVars
  <2>2. CASE Goto(s, "remove") /\ UNCHANGED <<reused, slot>>
    BY <1>0, <2>1, <2>2, MoveOn, Zenon
  <2>3. CASE reused' = reused \cup {slot[s]} /\ Take(s, 0) /\ Goto(s, "idle")
    BY <2>1, <2>3, GiveBackStep, Zenon
  <2>4. QED
    BY <1>12, <2>2, <2>3, Zenon DEF tryReuse
<1>13. CASE UNCHANGED vars
  BY <1>13, Zenon DEF vars, storageVars, poolVars, Ready, Live, Leases!vars
<1>14. ASSUME NEW p \in Goroutines, cleanupSlot(p) PROVE Goal
  BY <1>14, ChangeStep, ReleaseStep, Zenon DEF cleanupSlot
<1>15. ASSUME PopulateAcquire \/ CreateNetwork PROVE Goal
  BY <1>15, AcquireStep, ChangeStep, Zenon
<1>16. QED
  BY <1>2, <1>3, <1>4, <1>5, <1>6, <1>7, <1>8, <1>9, <1>10, <1>11, <1>12, <1>13, <1>14, <1>15, Zenon
  DEF Next, Populate, Close, Return

(* The pool leases slots, for every number of sandboxes, slots and faults:  *)
(* Get hands out only slots with a namespace that nobody else has, no       *)
(* teardown takes the network of a sandbox down before it lets the slot go, *)
(* and a namespace that a failed teardown left is taken up last.            *)
THEOREM PoolLeases == Spec => LeasesSlots
<1>1. Init => Ready /\ Leases!Init
  BY InitReady, Zenon
<1>2. PoolInv /\ Ready /\ [Next]_vars => Ready' /\ [Leases!Next]_(Leases!vars)
  BY StepLeases, Zenon
<1>3. QED
  BY <1>1, <1>2, PoolInvariant, PTL DEF Spec, LeasesSlots, Leases!Spec
==============================================================================
