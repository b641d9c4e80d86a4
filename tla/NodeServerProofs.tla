-------------------------- MODULE NodeServerProofs --------------------------
(***************************************************************************)
(* The permits of NodeServer, for every number of handlers and every set   *)
(* of limits: the counter is the number of holders, and the semaphore      *)
(* implements a counting semaphore; and its addresses: each leads to the   *)
(* lifecycle that has its slot.                                            *)
(***************************************************************************)
EXTENDS NodeHandlerProofs, FiniteSetTheorems

USE DEF StartOps, LookupOps, PermitOps

Counted == used = Cardinality(Holders)

SemInv == SemTypeOK /\ Counted

LEMMA HoldersFinite == IsFiniteSet(Holders) /\ Cardinality(Holders) \in Nat
<1>1. Holders \subseteq Callers /\ IsFiniteSet(Callers)
  BY SemaphoreAssumption, Zenon DEF Holders
<1> QED
  BY <1>1, FS_Subset, FS_CardinalityType

(* A broadcast gives and takes no permit. *)
LEMMA BroadcastHolders ==
  ASSUME SemTypeOK, NEW s \in [Callers -> {"out", "parking", "waiting", "woken", "held"}]
  PROVE  /\ Broadcast(s) \in [Callers -> {"out", "parking", "waiting", "woken", "held"}]
         /\ \A p \in Callers : Broadcast(s)[p] = "held" <=> s[p] = "held"
  BY Zenon DEF Broadcast

LEMMA SameCardinality == Counting!Cardinality(Holders) = Cardinality(Holders)
  BY Zenon DEF Cardinality, Counting!Cardinality, IsFiniteSet, Counting!IsFiniteSet

(* What a step of the semaphore does to its holders. *)
Grants(p) ==
  /\ sem[p] # "held" /\ used + 1 <= limit
  /\ \A q \in Callers : sem'[q] = "held" <=> sem[q] = "held" \/ q = p
  /\ used' = used + 1 /\ limit' = limit

Returns(p) ==
  /\ sem[p] = "held" /\ sem'[p] = "out"
  /\ \A q \in Callers : sem'[q] = "held" <=> sem[q] = "held" /\ q # p
  /\ used' = used - 1 /\ limit' = limit

Keeps ==
  /\ \A q \in Callers : sem'[q] = "held" <=> sem[q] = "held"
  /\ used' = used

LEMMA GrantsCounted ==
  ASSUME SemInv, NEW p \in Callers, Grants(p)
  PROVE  Counted' /\ Counting!Grant(p)
<1>1. Holders' = Holders \cup {p} /\ p \notin Holders
  BY Zenon DEF Grants, Holders
<1>2. Cardinality(Holders') = Cardinality(Holders) + 1
  BY <1>1, HoldersFinite, FS_AddElement, Zenon
<1>3. Cardinality(Holders) < limit
  BY SemaphoreAssumption, HoldersFinite DEF SemInv, SemTypeOK, Counted, Grants
<1> QED
  BY <1>1, <1>2, <1>3, SameCardinality, Zenon DEF SemInv, Counted, Grants, Counting!Grant

LEMMA ReturnsCounted ==
  ASSUME SemInv, NEW p \in Callers, Returns(p)
  PROVE  Counted' /\ Counting!GiveBack(p) /\ used >= 1
<1>1. Holders' = Holders \ {p} /\ p \in Holders
  BY Zenon DEF Returns, Holders
<1>2. Cardinality(Holders') = Cardinality(Holders) - 1 /\ Cardinality(Holders) # 0
  BY <1>1, HoldersFinite, FS_RemoveElement, FS_EmptySet, Zenon
<1> QED
  BY <1>1, <1>2, HoldersFinite DEF SemInv, Counted, Returns, Counting!GiveBack

LEMMA KeepsCounted ==
  ASSUME SemInv, Keeps
  PROVE  Counted' /\ Holders' = Holders
<1>1. Holders' = Holders
  BY Zenon DEF Keeps, Holders
<1> QED
  BY <1>1, Zenon DEF SemInv, Counted, Keeps

(* One turn of Acquire's loop. *)
LEMMA LoopStep ==
  ASSUME SemTypeOK, NEW p \in Callers, sem[p] # "held", AcquireLoop(p)
  PROVE  /\ SemTypeOK'
         /\ IF sem'[p] = "held" THEN Grants(p) ELSE Keeps /\ limit' = limit
         /\ sem'[p] # "waiting"
         /\ \A q \in Callers \ {p} : sem'[q] = sem[q]
<1> USE DEF SemTypeOK, Grants, Keeps
<1>1. CASE Granted(p) /\ UNCHANGED limit
  BY <1>1 DEF Granted
<1>2. CASE GivesUp(p) /\ UNCHANGED limit
  BY <1>2, Zenon DEF GivesUp
<1>3. CASE GoesToSleep(p) /\ UNCHANGED limit
  BY <1>3, Zenon DEF GoesToSleep
<1> QED
  BY <1>1, <1>2, <1>3, Zenon DEF AcquireLoop

LEMMA TryStep ==
  ASSUME SemTypeOK, NEW p \in Callers, TryAcquire(p)
  PROVE  /\ SemTypeOK'
         /\ IF sem'[p] = "held" THEN Grants(p) ELSE Keeps /\ limit' = limit
         /\ sem'[p] \in {"held", "out"}
         /\ \A q \in Callers \ {p} : sem'[q] = sem[q]
<1> USE DEF SemTypeOK, Grants, Keeps, TryAcquire
<1>1. CASE used + 1 > limit
  BY <1>1, Zenon
<1>2. CASE ~(used + 1 > limit)
  BY <1>2, SemaphoreAssumption
<1> QED
  BY <1>1, <1>2, Zenon

LEMMA CondWaitStep ==
  ASSUME SemTypeOK, NEW p \in Callers, CondWait(p)
  PROVE  SemTypeOK' /\ Keeps /\ limit' = limit
  BY Zenon DEF SemTypeOK, CondWait, Keeps

LEMMA CtxEndsStep ==
  ASSUME SemTypeOK, NEW p \in Callers, CtxEnds(p)
  PROVE  SemTypeOK' /\ Keeps /\ limit' = limit
  BY BroadcastHolders, Zenon DEF SemTypeOK, CtxEnds, Keeps

LEMMA SetLimitStep ==
  ASSUME SemTypeOK, NEW n \in Limits, SetLimit(n)
  PROVE  SemTypeOK' /\ Keeps /\ limit' = n
  BY BroadcastHolders, Zenon DEF SemTypeOK, SetLimit, Keeps

LEMMA ReleaseStep ==
  ASSUME SemTypeOK, NEW p \in Callers, Release(p)
  PROVE  SemTypeOK' /\ Returns(p)
<1> DEFINE s == [sem EXCEPT ![p] = "out"]
<1>1. s \in [Callers -> {"out", "parking", "waiting", "woken", "held"}]
  BY Zenon DEF SemTypeOK
<1>2. /\ sem' \in [Callers -> {"out", "parking", "waiting", "woken", "held"}]
      /\ \A q \in Callers : sem'[q] = "held" <=> s[q] = "held"
  BY <1>1, BroadcastHolders, Zenon DEF Release
<1>3. sem'[p] = "out"
  BY <1>1, Zenon DEF Release, Broadcast, SemTypeOK
<1>4. used' \in Nat /\ UNCHANGED <<limit, mu>> /\ ctxDone' \subseteq Callers
  BY DEF SemTypeOK, Release
<1>5. \A q \in Callers : s[q] = "held" <=> sem[q] = "held" /\ q # p
  BY Zenon DEF SemTypeOK
<1>6. SemTypeOK'
  BY <1>2, <1>4, Zenon DEF SemTypeOK
<1> QED
  BY <1>2, <1>3, <1>4, <1>5, <1>6, Zenon DEF Release, Returns

LEMMA TypeParts ==
  /\ TypeOK <=> SemTypeOK /\ ReqTypeOK /\ MapVmTypeOK
  /\ TypeOK' <=> SemTypeOK' /\ ReqTypeOK' /\ MapVmTypeOK'
  BY Zenon DEF TypeOK, ReqTypeOK, MapVmTypeOK

BaseInv == TypeOK /\ PermitsCounted /\ Where

LEMMA BaseHandler == BaseInv => HandlerInv
  BY TypeParts, Zenon DEF BaseInv, HandlerInv

(* What Permit does to the semaphore. *)
LEMMA PermitSem ==
  ASSUME SemTypeOK, NEW r \in Reqs, sem[r] # "held", Permit(r)
  PROVE  /\ SemTypeOK'
         /\ IF sem'[r] = "held" THEN Grants(r) ELSE Keeps /\ limit' = limit
         /\ \A q \in Reqs \ {r} : sem'[q] = sem[q]
<1>1. r \in Callers /\ (TryAcquire(r) \/ AcquireLoop(r))
  BY Zenon DEF Permit, Acquire, Wake, Reqs
<1>2. CASE TryAcquire(r)
  BY <1>1, <1>2, TryStep, Zenon DEF Reqs
<1>3. CASE AcquireLoop(r)
  BY <1>1, <1>3, LoopStep, Zenon DEF Reqs
<1> QED
  BY <1>1, <1>2, <1>3, Zenon

Passed(c) == c.op \in PermitOps /\ c.pc # "acquire"

LEMMA PermitParts ==
  /\ PermitsCounted <=> Counted /\ \A r \in Reqs : sem[r] = "held" <=> Passed(req[r])
  /\ PermitsCounted' <=> Counted' /\ \A r \in Reqs : sem'[r] = "held" <=> Passed(req'[r])
  BY Zenon DEF PermitsCounted, Counted, Passed

PermitStepOK == SemTypeOK' /\ PermitsCounted' /\ (Counting!Next \/ UNCHANGED Counting!vars)

LEMMA PermitStep ==
  ASSUME BaseInv, HandlerInv, Next
  PROVE  PermitStepOK
<1>1. SemInv /\ ReqTypeOK /\ MapTypeOK /\ Where
      /\ \A r \in Reqs : sem[r] = "held" <=> Passed(req[r])
  BY PermitParts, Zenon DEF BaseInv, SemInv, TypeOK, HandlerInv
<1>2. ASSUME UNCHANGED semVars, \A r \in Reqs : Passed(req'[r]) <=> Passed(req[r])
      PROVE  PermitStepOK
  <2>1. SemTypeOK' /\ Keeps /\ limit' = limit /\ sem' = sem
    BY <1>1, <1>2, Zenon DEF SemInv, SemTypeOK, Keeps, semVars
  <2>2. Counted' /\ Holders' = Holders
    BY <1>1, <2>1, KeepsCounted, Zenon
  <2> QED
    BY <1>1, <1>2, <2>1, <2>2, PermitParts DEF PermitStepOK, Counting!vars
<1>3. ASSUME NEW r \in Reqs, NEW s \in SandboxIDs, NEW o \in StartOps, Create(r, s, o)
      PROVE  PermitStepOK
  <2>1. \A q \in Reqs : Passed(req'[q]) <=> Passed(req[q])
    BY <1>1, <1>3, CreateBegins DEF Begins, Passed, Idle
  <2> QED
    BY <1>2, <1>3, <2>1 DEF Create
<1>4. ASSUME NEW r \in Reqs, NEW s \in SandboxIDs, NEW o \in LookupOps, Get(r, s, o)
      PROVE  PermitStepOK
  <2>1. \A q \in Reqs : Passed(req'[q]) <=> Passed(req[q])
    BY <1>1, <1>4, GetBegins DEF Begins, Passed, Idle
  <2> QED
    BY <1>2, <1>4, <2>1, Zenon DEF Get
<1>5. ASSUME NEW r \in Reqs, Permit(r)
      PROVE  PermitStepOK
  <2>1. WhereIs(req[r]) /\ req[r].pc = "acquire"
    BY <1>1, <1>5, Zenon DEF Permit, Where
  <2>2. req[r].op \in PermitOps /\ sem[r] # "held"
    BY <1>1, <2>1, Zenon DEF WhereIs, Passed
  <2>3. /\ SemTypeOK'
        /\ IF sem'[r] = "held" THEN Grants(r) ELSE Keeps /\ limit' = limit
        /\ \A q \in Reqs \ {r} : sem'[q] = sem[q]
    BY <1>1, <1>5, <2>2, PermitSem, Zenon DEF SemInv
  <2>4. sem'[r] = "held" <=> Passed(req'[r])
    BY <1>1, <1>5, <2>1, <2>2, PermitMoves, Zenon DEF Passed, AfterPermit
  <2>5. \A q \in Reqs : sem'[q] = "held" <=> Passed(req'[q])
    BY <1>1, <1>5, <2>1, <2>3, <2>4, PermitMoves
  <2>6. CASE sem'[r] = "held"
    <3>1. Counted' /\ Counting!Grant(r)
      BY <1>1, <2>3, <2>6, GrantsCounted, Zenon DEF Reqs
    <3> QED
      BY <2>3, <2>5, <3>1, PermitParts, Zenon DEF PermitStepOK, Counting!Next, Reqs
  <2>7. CASE sem'[r] # "held"
    <3>1. Counted' /\ Holders' = Holders
      BY <1>1, <2>3, <2>7, KeepsCounted
    <3> QED
      BY <2>3, <2>5, <2>7, <3>1, PermitParts, Zenon DEF PermitStepOK, Counting!vars
  <2> QED
    BY <2>6, <2>7, Zenon
<1>6. ASSUME NEW r \in Reqs, GiveBack(r)
      PROVE  PermitStepOK
  <2>1. SemTypeOK' /\ Returns(r)
    BY <1>1, <1>6, ReleaseStep, Zenon DEF GiveBack, SemInv, Reqs
  <2>2. Counted' /\ Counting!GiveBack(r)
    BY <1>1, <2>1, ReturnsCounted, Zenon DEF Reqs
  <2>3. req'[r].op = "none" /\ \A q \in Reqs \ {r} : req'[q] = req[q]
    BY <1>1, <1>6, BackToIdle, Zenon DEF GiveBack
  <2>4. /\ sem'[r] = "out"
        /\ \A q \in Reqs \ {r} : sem'[q] = "held" <=> sem[q] = "held"
    BY <2>1, Zenon DEF Returns, Reqs
  <2>5. ~Passed(req'[r])
    BY <2>3, Zenon DEF Passed
  <2>6. \A q \in Reqs : sem'[q] = "held" <=> Passed(req'[q])
    BY <1>1, <2>3, <2>4, <2>5, Zenon
  <2> QED
    BY <2>1, <2>2, <2>6, PermitParts, Zenon DEF PermitStepOK, Counting!Next, Reqs
<1>7. ASSUME SemTypeOK', Keeps, limit' \in Limits, UNCHANGED req
      PROVE  PermitStepOK
  <2>1. Counted' /\ Holders' = Holders
    BY <1>1, <1>7, KeepsCounted, Zenon
  <2>2. Counting!Next
    BY <1>7, <2>1, Zenon DEF Counting!Next, Counting!Resize
  <2>3. \A q \in Reqs : sem'[q] = "held" <=> Passed(req'[q])
    BY <1>1, <1>7, Zenon DEF Keeps, Reqs
  <2> QED
    BY <1>7, <2>1, <2>2, <2>3, PermitParts, Zenon DEF PermitStepOK
<1>8. ASSUME NEW r \in Reqs, Sleep(r) \/ TimesOut(r)
      PROVE  PermitStepOK
  <2>1. SemTypeOK' /\ Keeps /\ limit' \in Limits
    BY <1>1, <1>8, CondWaitStep, CtxEndsStep, Zenon DEF Sleep, TimesOut, SemInv, SemTypeOK, Reqs
  <2> QED
    BY <1>7, <1>8, <2>1 DEF Sleep, TimesOut
<1>9. ASSUME NEW n \in Limits, RefreshLimit(n)
      PROVE  PermitStepOK
  <2>1. SemTypeOK' /\ Keeps /\ limit' \in Limits
    BY <1>1, <1>9, SetLimitStep DEF RefreshLimit, SemInv
  <2> QED
    BY <1>7, <1>9, <2>1 DEF RefreshLimit
<1>10. ASSUME NEW r \in Reqs, Handler(r)
       PROVE  PermitStepOK
  <2>1. UNCHANGED semVars
    BY <1>10, ZenonT(30) DEF Handler, MarkOld, StopOld, Snapshot, Exported, BeginInPlace, InPlace, Lost,
         NoResources, Boot, BootFails, Booted, Upgrade, MarkLive, Track, Upload
  <2>2. /\ \A q \in Reqs \ {r} : req'[q] = req[q]
        /\ Passed(req'[r]) <=> Passed(req[r])
    <3>1. CASE Boot(r)
      <4>1. req[r].pc = "boot"
        BY <3>1 DEF Boot
      <4> QED
        BY <1>1, <3>1, <4>1, BootMoves, Zenon DEF Passed, HandlerInv
    <3>2. CASE ~Boot(r)
      <4>1. Moves(r, OnLabels) /\ req[r].pc \notin {"idle", "acquire"}
        BY <1>1, <1>10, <3>2, HandlerMoves, Zenon
      <4> QED
        BY <4>1 DEF Moves, Goes, OnLabels, Passed
    <3> QED
      BY <3>1, <3>2, Zenon
  <2> QED
    BY <1>2, <2>1, <2>2, Zenon
<1>11. ASSUME NEW l \in Lifecycles, Teardown(l) \/ Crash(l)
       PROVE  PermitStepOK
  <2>1. UNCHANGED <<semVars, req>>
    BY <1>11, Zenon DEF Teardown, Killed, Crash, Exit, Cleanup, Close, Notify, Recycle
  <2> QED
    BY <1>2, <2>1
<1> QED
  BY <1>3, <1>4, <1>5, <1>6, <1>8, <1>9, <1>10, <1>11 DEF Next, Request

LEMMA BaseInit == Init => BaseInv
<1> SUFFICES ASSUME Init PROVE BaseInv
  BY Zenon
<1>1. SemTypeOK
  BY Zenon DEF Init, SemInit, SemTypeOK
<1>2. Holders = {} /\ used = 0
  BY Zenon DEF Init, SemInit, Holders
<1>3. PermitsCounted
  BY <1>2, FS_EmptySet DEF Init, SemInit, PermitsCounted, Idle, Reqs
<1> QED
  BY <1>1, <1>3, HandlerInit, TypeParts, Zenon DEF BaseInv, HandlerInv

LEMMA BaseNext == BaseInv /\ [Next]_vars => BaseInv' /\ [Counting!Next]_(Counting!vars)
<1>1. ASSUME BaseInv, Next
      PROVE  BaseInv' /\ [Counting!Next]_(Counting!vars)
  <2>1. HandlerInv /\ HandlerInv'
    BY <1>1, BaseHandler, HandlerNext
  <2> QED
    BY <1>1, <2>1, PermitStep, TypeParts, Zenon DEF BaseInv, PermitStepOK, HandlerInv
<1>2. ASSUME BaseInv, UNCHANGED vars
      PROVE  BaseInv' /\ [Counting!Next]_(Counting!vars)
  <2>1. HandlerInv'
    BY <1>2, BaseHandler, HandlerNext, Zenon
  <2>2. SemTypeOK' /\ PermitsCounted'
    BY <1>2, Zenon DEF BaseInv, TypeOK, SemTypeOK, PermitsCounted, Holders, vars, semVars
  <2>3. UNCHANGED Counting!vars
    BY <1>2, Zenon DEF Counting!vars, Holders, vars, semVars
  <2> QED
    BY <2>1, <2>2, <2>3, TypeParts DEF BaseInv, HandlerInv
<1> QED
  BY <1>1, <1>2

LEMMA BaseAlways == Spec => []BaseInv
<1>1. BaseInv /\ [Next]_vars => BaseInv'
  BY BaseNext, Zenon
<1> QED
  BY <1>1, BaseInit, PTL DEF Spec

(* Every variable of the node keeps its type, whatever the constants.      *)
THEOREM TypeCorrect == Spec => []TypeOK
<1>1. BaseInv => TypeOK
  BY Zenon DEF BaseInv
<1> QED
  BY <1>1, BaseAlways, PTL

(* The counter of the semaphore is always the number of handlers between   *)
(* their Acquire and their deferred Release: no way through Create or      *)
(* Checkpoint loses a permit or gives one back twice.                      *)
THEOREM PermitsCorrect == Spec => []PermitsCounted
<1>1. BaseInv => PermitsCounted
  BY Zenon DEF BaseInv
<1> QED
  BY <1>1, BaseAlways, PTL

(* resizable_semaphore.go, as the handlers of the node use it, implements  *)
(* a counting semaphore whose limit may move at any time.                  *)
THEOREM SemaphoreImplements == Spec => CountsPermits
<1>1. Init => Counting!Init
  BY Zenon DEF Init, SemInit, Counting!Init, Holders
<1>2. BaseInv /\ [Next]_vars => [Counting!Next]_(Counting!vars)
  BY BaseNext, Zenon
<1> QED
  BY <1>1, <1>2, BaseAlways, PTL DEF Spec, CountsPermits, Counting!Spec

(***************************************************************************)
(* The addresses.                                                          *)
(***************************************************************************)
Booting(r) == req[r].pc = "booting"

SlotsApart == \A k, l \in Lifecycles : ip[k] = ip[l] /\ ip[k] # NoIP => k = l

ReturnedAfter == \A l \in Lifecycles : returning[l] # "no" => vm[l] = "exited"

NotifiedGone == \A l \in Lifecycles : returning[l] = "notified" => \A a \in IPs : network[a] # l

NotBooted ==
  \A l \in Lifecycles : l > boots => ip[l] = NoIP /\ vm[l] = "none" /\ returning[l] = "no"

BootsVm == \A r \in Reqs : Booting(r) => vm[req[r].new] = "booting" /\ req[r].new \in Lifecycles

BootsApart == \A q, r \in Reqs : Booting(q) /\ Booting(r) /\ req[q].new = req[r].new => q = r

AddrInv ==
  AddressOwner /\ SlotsApart /\ ReturnedAfter /\ NotifiedGone /\ NotBooted /\ BootsVm /\ BootsApart

LEMMA AddrInit == Init => AddrInv
  BY LifecycleFacts, NodeAssumption
     DEF Init, MapInit, AddrInv, AddressOwner, SlotsApart, ReturnedAfter, NotifiedGone, NotBooted,
         BootsVm, BootsApart, Booting, Idle, NoLifecycle

(* The handlers' part of the invariant. *)
LEMMA BootsQuiet ==
  ASSUME BootsVm, BootsApart, \A r \in Reqs : Booting(r)' => req'[r] = req[r],
         \A r \in Reqs : Booting(r)' => vm'[req[r].new] = vm[req[r].new]
  PROVE  BootsVm' /\ BootsApart'
  BY DEF BootsVm, BootsApart, Booting

(* Nothing changes but the handlers, and none of them starts to boot. *)
LEMMA AddrQuiet ==
  ASSUME AddrInv, UNCHANGED <<network, ip, vm, returning, boots>>,
         \A r \in Reqs : Booting(r)' => req'[r] = req[r]
  PROVE  AddrInv'
<1>1. BootsVm' /\ BootsApart'
  BY BootsQuiet, Zenon DEF AddrInv
<1>2. AddressOwner' /\ SlotsApart' /\ ReturnedAfter' /\ NotifiedGone' /\ NotBooted'
  BY DEF AddrInv, AddressOwner, SlotsApart, ReturnedAfter, NotifiedGone, NotBooted
<1> QED
  BY <1>1, <1>2, Zenon DEF AddrInv

LEMMA AddrBoot ==
  ASSUME HandlerInv, AddrInv, NEW r \in Reqs, Boot(r)
  PROVE  AddrInv'
<1> DEFINE l == boots + 1
<1>1. /\ l \in Lifecycles /\ l > boots /\ boots' = l
      /\ vm' = [vm EXCEPT ![l] = "booting"] /\ UNCHANGED returning
      /\ Booting(r)' /\ req'[r].new = l
      /\ \A q \in Reqs \ {r} : req'[q] = req[q]
  <2>1. boots \in Nat
    BY VmTypes, Zenon
  <2>2. boots' = boots + 1 /\ vm' = [vm EXCEPT ![l] = "booting"] /\ UNCHANGED returning
    BY Zenon DEF Boot
  <2>3. l \in Lifecycles /\ Booting(r)' /\ req'[r].new = l /\ \A q \in Reqs \ {r} : req'[q] = req[q]
    BY BootMoves, Zenon DEF HandlerInv, Booting
  <2>4. boots + 1 > boots
    BY <2>1
  <2> QED
    BY <2>2, <2>3, <2>4, Zenon
<1>2. PICK a \in FreeIPs : ip' = [ip EXCEPT ![l] = a] /\ network' = [network EXCEPT ![a] = l]
  BY Zenon DEF Boot, AssignNetwork
<1>3. ip[l] = NoIP /\ vm[l] = "none" /\ returning[l] = "no"
  BY <1>1, Zenon DEF AddrInv, NotBooted
<1>4. a \in IPs /\ a # NoIP /\ \A k \in Lifecycles : ip[k] # a
  BY <1>2, NodeAssumption, Zenon DEF FreeIPs
<1> HIDE DEF l
<1>5. /\ \A k \in Lifecycles :
           /\ ip'[k] = IF k = l THEN a ELSE ip[k]
           /\ vm'[k] = IF k = l THEN "booting" ELSE vm[k]
      /\ \A b \in IPs : network'[b] = IF b = a THEN l ELSE network[b]
  BY <1>1, <1>2, VmTypes
<1>6. AddressOwner'
  <2>1. \A b \in IPs : network[b] # l
    BY <1>1, <1>3, VmTypes, NodeAssumption DEF AddrInv, AddressOwner
  <2>2. \A b \in IPs : network'[b] # NoLifecycle => ip'[network'[b]] = b
    BY <1>1, <1>4, <1>5, <2>1, VmTypes DEF AddrInv, AddressOwner
  <2>3. \A k \in Lifecycles :
          vm'[k] \in {"booting", "running"} => ip'[k] \in IPs /\ network'[ip'[k]] = k
    BY <1>4, <1>5 DEF AddrInv, AddressOwner
  <2> QED
    BY <2>2, <2>3, Zenon DEF AddressOwner
<1>7. SlotsApart'
  BY <1>4, <1>5, Zenon DEF AddrInv, SlotsApart
<1>8. ReturnedAfter' /\ NotifiedGone'
  BY <1>1, <1>3, <1>5 DEF AddrInv, ReturnedAfter, NotifiedGone
<1>9. NotBooted'
  <2>1. \A k \in Lifecycles : k > boots' => k # l /\ k > boots
    BY <1>1, VmTypes
  <2> QED
    BY <1>1, <1>5, <2>1 DEF AddrInv, NotBooted
<1>10. \A q \in Reqs : Booting(q) => req[q].new # l /\ req[q].new \in Lifecycles
  BY <1>3, Zenon DEF AddrInv, BootsVm
<1>11. BootsVm'
  BY <1>1, <1>5, <1>10 DEF AddrInv, BootsVm, Booting
<1>12. BootsApart'
  BY <1>1, <1>10, Zenon DEF AddrInv, BootsApart, Booting
<1> QED
  BY <1>6, <1>7, <1>8, <1>9, <1>11, <1>12, Zenon DEF AddrInv

(* The end of a boot, one way or the other. *)
LEMMA AddrBooted ==
  ASSUME HandlerInv, AddrInv, NEW r \in Reqs, Booting(r), ~Booting(r)',
         \A q \in Reqs \ {r} : req'[q] = req[q],
         UNCHANGED <<network, boots, ip>>,
         \/ vm' = [vm EXCEPT ![req[r].new] = "running"] /\ UNCHANGED returning
         \/ /\ vm' = [vm EXCEPT ![req[r].new] = "exited"]
            /\ returning' = [returning EXCEPT ![req[r].new] = "delayed"]
  PROVE  AddrInv'
<1> DEFINE l == req[r].new
<1>1. l \in Lifecycles /\ vm[l] = "booting" /\ returning[l] = "no" /\ ~(l > boots)
  BY Zenon DEF AddrInv, BootsVm, ReturnedAfter, NotBooted
<1>2. /\ vm'[l] \in {"running", "exited"} /\ returning'[l] \in {"no", "delayed"}
      /\ returning'[l] = "no" \/ vm'[l] = "exited"
      /\ \A k \in Lifecycles \ {l} : vm'[k] = vm[k] /\ returning'[k] = returning[k]
  BY <1>1, VmTypes
<1>3. \A q \in Reqs : Booting(q)' => req'[q] = req[q] /\ req[q].new \in Lifecycles \ {l}
  BY <1>1 DEF AddrInv, BootsVm, BootsApart, Booting
<1> HIDE DEF l
<1>4. BootsVm' /\ BootsApart'
  BY <1>2, <1>3, BootsQuiet, Zenon DEF AddrInv
<1>5. AddressOwner'
  BY <1>1, <1>2, Zenon DEF AddrInv, AddressOwner
<1>6. SlotsApart' /\ ReturnedAfter' /\ NotifiedGone'
  BY <1>1, <1>2 DEF AddrInv, SlotsApart, ReturnedAfter, NotifiedGone
<1>7. NotBooted'
  BY <1>1, <1>2, Zenon DEF AddrInv, NotBooted
<1> QED
  BY <1>4, <1>5, <1>6, <1>7, Zenon DEF AddrInv

LEMMA AddrHandler ==
  ASSUME HandlerInv, AddrInv, NEW r \in Reqs, Handler(r)
  PROVE  AddrInv'
<1>1. CASE Boot(r)
  BY <1>1, AddrBoot
<1>2. ASSUME ~Boot(r)
      PROVE  ~Booting(r)' /\ \A q \in Reqs \ {r} : req'[q] = req[q]
  BY <1>2, OtherMoves DEF Moves, Goes, OnLabels, Booting
<1>3. CASE BootFails(r)
  <2>1. Booting(r) /\ ~Boot(r)
    BY <1>3, ZenonT(30) DEF BootFails, Booting, Boot
  <2>2. /\ vm' = [vm EXCEPT ![req[r].new] = "exited"]
        /\ returning' = [returning EXCEPT ![req[r].new] = "delayed"]
        /\ UNCHANGED <<network, boots, ip>>
    BY <1>3 DEF BootFails
  <2> QED
    BY <1>2, <2>1, <2>2, AddrBooted, Zenon
<1>4. CASE Booted(r)
  <2>1. Booting(r) /\ ~Boot(r)
    BY <1>4 DEF Booted, Booting, Boot
  <2>2. /\ vm' = [vm EXCEPT ![req[r].new] = "running"]
        /\ UNCHANGED <<returning, network, boots, ip>>
    BY <1>4 DEF Booted, mapVars
  <2> QED
    BY <1>2, <2>1, <2>2, AddrBooted, Zenon
<1>5. ASSUME ~Boot(r), ~Booted(r), ~BootFails(r)
      PROVE  AddrInv'
  <2>1. UNCHANGED <<network, ip, vm, returning, boots>>
    BY <1>5, Zenon DEF Handler, MarkOld, StopOld, Snapshot, Exported, BeginInPlace, InPlace, Lost,
         NoResources, Upgrade, MarkLive, Track, Upload, mapVars, vmVars
  <2> QED
    BY <1>2, <1>5, <2>1, AddrQuiet, Zenon
<1> QED
  BY <1>1, <1>3, <1>4, <1>5, Zenon

LEMMA AddrTeardown ==
  ASSUME HandlerInv, AddrInv, NEW l \in Lifecycles, Teardown(l) \/ Crash(l)
  PROVE  AddrInv'
<1>1. UNCHANGED <<req, boots>>
  BY Zenon DEF Teardown, Killed, Crash, Exit, Cleanup, Close, Notify, Recycle
<1>2. ASSUME \A k \in Lifecycles : vm[k] = "booting" => vm'[k] = "booting"
      PROVE  BootsVm' /\ BootsApart'
  BY <1>1, <1>2, BootsQuiet DEF AddrInv, BootsVm, Booting
<1>3. CASE Killed(l) \/ Crash(l)
  <2>1. /\ vm[l] = "running" /\ vm' = [vm EXCEPT ![l] = "exited"]
        /\ UNCHANGED <<network, ip, returning>>
    BY <1>3, Zenon DEF Killed, Crash, Exit, mapVars
  <2>2. \A k \in Lifecycles : vm'[k] = IF k = l THEN "exited" ELSE vm[k]
    BY <2>1, VmTypes, Zenon
  <2>3. AddressOwner' /\ SlotsApart' /\ ReturnedAfter' /\ NotifiedGone'
    BY <2>1, <2>2 DEF AddrInv, AddressOwner, SlotsApart, ReturnedAfter, NotifiedGone
  <2>4. NotBooted'
    BY <1>1, <2>1, <2>2, Zenon DEF AddrInv, NotBooted
  <2> QED
    BY <1>2, <2>1, <2>2, <2>3, <2>4, Zenon DEF AddrInv
<1>4. CASE Cleanup(l)
  <2>1. /\ vm[l] = "exited" /\ returning' = [returning EXCEPT ![l] = "delayed"]
        /\ UNCHANGED <<network, ip, vm>>
    BY <1>4, Zenon DEF Cleanup
  <2>2. \A k \in Lifecycles : returning'[k] = IF k = l THEN "delayed" ELSE returning[k]
    BY <2>1, VmTypes, Zenon
  <2>3. AddressOwner' /\ SlotsApart' /\ ReturnedAfter' /\ NotifiedGone'
    BY <2>1, <2>2 DEF AddrInv, AddressOwner, SlotsApart, ReturnedAfter, NotifiedGone
  <2>4. NotBooted'
    BY <1>1, <2>1, <2>2, Zenon DEF AddrInv, NotBooted
  <2> QED
    BY <1>2, <2>1, <2>3, <2>4, Zenon DEF AddrInv
<1>5. CASE Close(l)
  BY <1>1, <1>5, AddrQuiet, Zenon DEF Close
<1>6. CASE Notify(l)
  <2>1. /\ returning[l] = "delayed" /\ returning' = [returning EXCEPT ![l] = "notified"]
        /\ network' = [network EXCEPT ![ip[l]] = NoLifecycle]
        /\ UNCHANGED <<ip, vm>>
    BY <1>6, Zenon DEF Notify, NetworkReleased
  <2>2. vm[l] = "exited"
    BY <2>1, Zenon DEF AddrInv, ReturnedAfter
  <2>3. /\ \A a \in IPs : network'[a] = IF a = ip[l] THEN NoLifecycle ELSE network[a]
        /\ \A k \in Lifecycles : returning'[k] = IF k = l THEN "notified" ELSE returning[k]
    BY <2>1, VmTypes, Zenon
  <2>4. \A a \in IPs : network[a] = l => a = ip[l]
    BY VmTypes DEF AddrInv, AddressOwner
  <2>5. \A k \in Lifecycles \ {l} : ip[k] = ip[l] => ip[k] = NoIP
    BY Zenon DEF AddrInv, SlotsApart
  <2>6. AddressOwner'
    BY <2>1, <2>2, <2>3, <2>5, VmTypes, NodeAssumption DEF AddrInv, AddressOwner
  <2>7. NotifiedGone'
    BY <2>3, <2>4, VmTypes, ZenonT(30) DEF AddrInv, NotifiedGone
  <2>8. SlotsApart' /\ ReturnedAfter'
    BY <2>1, <2>2, <2>3, Zenon DEF AddrInv, SlotsApart, ReturnedAfter
  <2>9. NotBooted'
    BY <1>1, <2>1, <2>2, <2>3, Zenon DEF AddrInv, NotBooted
  <2> QED
    BY <1>2, <2>1, <2>6, <2>7, <2>8, <2>9, Zenon DEF AddrInv
<1>7. CASE Recycle(l)
  <2>1. /\ returning[l] = "notified" /\ returning' = [returning EXCEPT ![l] = "no"]
        /\ ip' = [ip EXCEPT ![l] = NoIP]
        /\ UNCHANGED <<network, vm>>
    BY <1>7, Zenon DEF Recycle, mapVars
  <2>2. vm[l] = "exited" /\ \A a \in IPs : network[a] # l
    BY <2>1, Zenon DEF AddrInv, ReturnedAfter, NotifiedGone
  <2>3. \A k \in Lifecycles :
          /\ ip'[k] = IF k = l THEN NoIP ELSE ip[k]
          /\ returning'[k] = IF k = l THEN "no" ELSE returning[k]
    BY <2>1, VmTypes, Zenon
  <2>4. AddressOwner'
    BY <2>1, <2>2, <2>3 DEF AddrInv, AddressOwner
  <2>5. SlotsApart'
    BY <2>3, Zenon DEF AddrInv, SlotsApart
  <2>6. ReturnedAfter' /\ NotifiedGone' /\ NotBooted'
    BY <1>1, <2>1, <2>2, <2>3 DEF AddrInv, ReturnedAfter, NotifiedGone, NotBooted
  <2> QED
    BY <1>2, <2>1, <2>4, <2>5, <2>6 DEF AddrInv
<1> QED
  BY <1>3, <1>4, <1>5, <1>6, <1>7, Zenon DEF Teardown

LEMMA AddrNext ==
  ASSUME HandlerInv, AddrInv, [Next]_vars
  PROVE  AddrInv'
<1>1. ReqTypeOK /\ MapVmTypeOK
  BY Zenon DEF HandlerInv
<1>2. ASSUME NEW r \in Reqs, NEW s \in SandboxIDs, NEW o \in StartOps, Create(r, s, o)
      PROVE  AddrInv'
  <2>1. \A q \in Reqs : Booting(q)' => req'[q] = req[q]
    BY <1>1, <1>2, CreateBegins DEF Begins, Booting, MapVmTypeOK
  <2> QED
    BY <1>2, <2>1, AddrQuiet, Zenon DEF Create, mapVars, vmVars
<1>3. ASSUME NEW r \in Reqs, NEW s \in SandboxIDs, NEW o \in LookupOps, Get(r, s, o)
      PROVE  AddrInv'
  <2>1. \A q \in Reqs : Booting(q)' => req'[q] = req[q]
    BY <1>1, <1>3, GetBegins DEF Begins, Booting, MapVmTypeOK
  <2> QED
    BY <1>3, <2>1, AddrQuiet, Zenon DEF Get, mapVars, vmVars
<1>4. ASSUME NEW r \in Reqs, Permit(r)
      PROVE  AddrInv'
  <2>1. \A q \in Reqs : Booting(q)' => req'[q] = req[q]
    <3>1. WhereIs(req[r]) /\ req[r].pc = "acquire"
      BY <1>4, Zenon DEF HandlerInv, Where, Permit
    <3> QED
      BY <1>1, <1>4, <3>1, PermitMoves DEF Booting, AfterPermit, WhereIs
  <2> QED
    BY <1>4, <2>1, AddrQuiet, Zenon DEF Permit, mapVars, vmVars
<1>5. ASSUME NEW r \in Reqs, GiveBack(r)
      PROVE  AddrInv'
  <2>1. \A q \in Reqs : Booting(q)' => req'[q] = req[q]
    BY <1>1, <1>5, BackToIdle, ZenonT(30) DEF GiveBack, Booting
  <2> QED
    BY <1>5, <2>1, AddrQuiet, Zenon DEF GiveBack, mapVars, vmVars
<1>6. CASE UNCHANGED <<req, network, ip, vm, returning, boots>>
  BY <1>6, AddrQuiet, Zenon
<1>7. ASSUME NEW r \in Reqs, Sleep(r) \/ TimesOut(r)
      PROVE  AddrInv'
  BY <1>6, <1>7 DEF Sleep, TimesOut, mapVars, vmVars
<1>8. ASSUME NEW n \in Limits, RefreshLimit(n)
      PROVE  AddrInv'
  BY <1>6, <1>8, Zenon DEF RefreshLimit, mapVars, vmVars
<1>9. CASE UNCHANGED vars
  BY <1>6, <1>9, Zenon DEF vars, mapVars, vmVars
<1> QED
  BY <1>2, <1>3, <1>4, <1>5, <1>7, <1>8, <1>9, AddrHandler, AddrTeardown, Zenon DEF Next, Request

LEMMA AddrAlways == Spec => [](HandlerInv /\ AddrInv)
<1>1. HandlerInv /\ AddrInv /\ [Next]_vars => HandlerInv' /\ AddrInv'
  BY HandlerNext, AddrNext, Zenon
<1> QED
  BY <1>1, HandlerInit, AddrInit, PTL DEF Spec

(* An address always leads to the lifecycle that has its network slot, and *)
(* a VM is registered under its address as long as it boots or runs, for   *)
(* any number of reused slots (AssignNetwork, NetworkReleased, returnSlot).*)
THEOREM AddressesCorrect == Spec => []AddressOwner
<1>1. AddrInv => AddressOwner
  BY Zenon DEF AddrInv
<1> QED
  BY <1>1, AddrAlways, PTL
=============================================================================
