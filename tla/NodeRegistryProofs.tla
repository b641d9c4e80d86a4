------------------------- MODULE NodeRegistryProofs -------------------------
(***************************************************************************)
(* The registry of NodeServer, for every number of handlers, sandboxes,    *)
(* addresses and boots: the one way a VM comes to run out of reach, and no *)
(* VM is snapshot twice.                                                   *)
(***************************************************************************)
EXTENDS NodeHandlerProofs

USE DEF StartOps, LookupOps, PermitOps

(***************************************************************************)
(* The registry, however the starts of a sandbox overlap.                  *)
(***************************************************************************)

(* A lifecycle that has not been live yet. *)
Fresh(c) == c.pc \in {"booting", "upgrade", "insert"}

(* A lifecycle taken out to be snapshot. *)
Taken(c) == c.op # "inPlace" /\ c.pc \in {"snapshot", "export"}

LiveNamed ==
  \A s \in SandboxIDs : live[s] # NoLifecycle => sandbox[live[s]] = s /\ live[s] <= boots

OldKnown == \A r \in Reqs : req[r].old <= boots

FreshNamed ==
  \A r \in Reqs : Fresh(req[r]) => sandbox[req[r].new] = req[r].s /\ req[r].new <= boots

TakenOut == \A r \in Reqs : Taken(req[r]) => \A s \in SandboxIDs : live[s] # req[r].old

FreshOut == \A r \in Reqs : Fresh(req[r]) => \A s \in SandboxIDs : live[s] # req[r].new

FreshNew == \A q, r \in Reqs : Fresh(req[r]) => req[q].old # req[r].new

FreshApart ==
  \A q, r \in Reqs : q # r /\ Fresh(req[q]) /\ Fresh(req[r]) => req[q].new # req[r].new

TakenApart ==
  \A q, r \in Reqs : q # r /\ Taken(req[q]) /\ Taken(req[r]) => req[q].old # req[r].old

RegInv ==
  /\ LiveNamed /\ OldKnown /\ FreshNamed /\ TakenOut
  /\ FreshOut /\ FreshNew /\ FreshApart /\ TakenApart

LEMMA RegInit == Init => RegInv
  BY DEF Init, MapInit, RegInv, LiveNamed, OldKnown, FreshNamed, TakenOut, FreshOut, FreshNew,
         FreshApart, TakenApart, Fresh, Taken, Idle, NoLifecycle

(* What the handlers have by then. *)
LEMMA RegHas ==
  ASSUME HandlerInv, NEW r \in Reqs
  PROVE  /\ Fresh(req[r]) =>
              /\ req[r].s \in SandboxIDs
              /\ req[r].new \in Lifecycles /\ req[r].new # NoLifecycle
         /\ Taken(req[r]) => req[r].old \in Lifecycles /\ req[r].old # NoLifecycle
<1>1. WhereIs(req[r])
  BY Zenon DEF HandlerInv, Where
<1> QED
  BY <1>1, LifecycleFacts, Zenon DEF WhereIs, Fresh, Taken

(* A handler goes on without taking anything over. *)
Passes(c, d) ==
  /\ d.old = c.old \/ d.old = NoLifecycle
  /\ Fresh(d) => Fresh(c) /\ d.s = c.s /\ d.new = c.new
  /\ Taken(d) => Taken(c) /\ d.old = c.old

LEMMA RegQuiet ==
  ASSUME HandlerInv, RegInv, UNCHANGED <<boots, sandbox>>,
         \A s \in SandboxIDs : live'[s] \in {live[s], NoLifecycle},
         \A r \in Reqs : Passes(req[r], req'[r])
  PROVE  RegInv'
<1>1. LiveNamed'
  BY Zenon DEF RegInv, LiveNamed
<1>2. OldKnown'
  BY VmTypes DEF RegInv, OldKnown, Passes
<1>3. FreshOut'
  BY RegHas DEF RegInv, FreshOut, Passes
<1>4. FreshNamed'
  BY Zenon DEF RegInv, FreshNamed, Passes
<1>5. TakenOut'
  BY RegHas DEF RegInv, TakenOut, Passes
<1>6. FreshNew'
  BY RegHas DEF RegInv, FreshNew, Passes
<1>7. FreshApart'
  BY DEF RegInv, FreshApart, Passes
<1>8. TakenApart'
  BY DEF RegInv, TakenApart, Passes
<1> QED
  BY <1>1, <1>2, <1>3, <1>4, <1>5, <1>6, <1>7, <1>8, Zenon DEF RegInv

LEMMA MarkStoppingLive ==
  ASSUME HandlerInv, NEW s, NEW l, MarkStopping(s, l)
  PROVE  \A x \in SandboxIDs :
           /\ live'[x] \in {live[x], NoLifecycle}
           /\ live[x] # l => live'[x] = live[x]
           /\ x = s /\ live[x] = l => live'[x] = NoLifecycle
  BY VmTypes, Zenon DEF MarkStopping, Marked

LEMMA PassesSame == \A c : Passes(c, c)
  BY Zenon DEF Passes

LEMMA PassesOne ==
  ASSUME NEW r \in Reqs, Passes(req[r], req'[r]), \A q \in Reqs \ {r} : req'[q] = req[q]
  PROVE  \A q \in Reqs : Passes(req[q], req'[q])
  BY PassesSame, Zenon

(* A lifecycle is taken out of the live map. *)
LEMMA RegTake ==
  ASSUME HandlerInv, RegInv, NEW r \in Reqs, UNCHANGED <<boots, sandbox>>,
         req[r].s \in SandboxIDs, req[r].old \in Lifecycles,
         live[req[r].s] = req[r].old, live' = [live EXCEPT ![req[r].s] = NoLifecycle],
         \A q \in Reqs \ {r} : req'[q] = req[q],
         ~Fresh(req'[r]), req'[r].old = req[r].old, req'[r].s = req[r].s
  PROVE  RegInv'
<1>1. /\ req[r].old # NoLifecycle
      /\ \A x \in SandboxIDs : live'[x] = IF x = req[r].s THEN NoLifecycle ELSE live[x]
  BY VmTypes, Zenon
<1>2. \A x \in SandboxIDs : live'[x] # req[r].old
  BY <1>1 DEF RegInv, LiveNamed
<1>3. \A q \in Reqs : Taken(req[q]) => req[q].old # req[r].old
  BY <1>1 DEF RegInv, TakenOut
<1>4. LiveNamed'
  BY <1>1 DEF RegInv, LiveNamed
<1>5. OldKnown'
  BY Zenon DEF RegInv, OldKnown
<1>6. FreshOut'
  BY <1>1, RegHas DEF RegInv, FreshOut
<1>7. FreshNamed' /\ FreshNew'
  BY DEF RegInv, FreshNamed, FreshNew
<1>8. TakenOut'
  BY <1>1, <1>2, RegHas DEF RegInv, TakenOut
<1>9. FreshApart'
  BY Zenon DEF RegInv, FreshApart
<1>10. TakenApart'
  <2>1. SUFFICES ASSUME NEW p \in Reqs, NEW q \in Reqs, p # q, Taken(req'[p]), Taken(req'[q])
                 PROVE  req'[p].old # req'[q].old
    BY Zenon DEF TakenApart
  <2>2. CASE p = r
    BY <1>3, <2>1, <2>2, Zenon
  <2>3. CASE q = r
    BY <1>3, <2>1, <2>3, Zenon
  <2>4. CASE p # r /\ q # r
    BY <2>1, <2>4, Zenon DEF RegInv, TakenApart
  <2> QED
    BY <2>2, <2>3, <2>4, Zenon
<1> QED
  BY <1>4, <1>5, <1>6, <1>7, <1>8, <1>9, <1>10, Zenon DEF RegInv

LEMMA RegMarkOld ==
  ASSUME HandlerInv, RegInv, NEW r \in Reqs, MarkOld(r)
  PROVE  RegInv'
<1>1. ReqTypeOK /\ WhereIs(req[r]) /\ req[r].pc = "mark" /\ UNCHANGED <<boots, sandbox>>
  BY Zenon DEF HandlerInv, Where, MarkOld
<1>2. req[r].s \in SandboxIDs /\ req[r].old \in Lifecycles
  BY <1>1, Zenon DEF WhereIs
<1>3. CASE ~Marked(req[r].s, req[r].old)
  <2>1. Moves(r, {"return"}) /\ UNCHANGED live
    BY <1>1, <1>3, ReturnMoves, Zenon DEF MarkOld, MarkStopping
  <2>2. Passes(req[r], req'[r]) /\ \A q \in Reqs \ {r} : req'[q] = req[q]
    BY <2>1, Zenon DEF Moves, Goes, Passes, Fresh, Taken
  <2> QED
    BY <1>1, <2>1, <2>2, PassesOne, RegQuiet, Zenon
<1>4. CASE Marked(req[r].s, req[r].old)
  <2>1. /\ live[req[r].s] = req[r].old
        /\ live' = [live EXCEPT ![req[r].s] = NoLifecycle]
    BY <1>4, Zenon DEF MarkOld, MarkStopping, Marked
  <2>2. Goto(r, "stop") \/ Goto(r, "snapshot")
    BY <1>4, Zenon DEF MarkOld
  <2>3. /\ req'[r].pc \in {"stop", "snapshot"} /\ req'[r].old = req[r].old
        /\ req'[r].s = req[r].s /\ \A q \in Reqs \ {r} : req'[q] = req[q]
    BY <1>1, <2>2, GotoType, Zenon DEF Labels
  <2>4. ~Fresh(req'[r])
    BY <2>3, Zenon DEF Fresh
  <2> QED
    BY <1>1, <1>2, <2>1, <2>3, <2>4, RegTake, ZenonT(30)
<1> QED
  BY <1>3, <1>4, Zenon

LEMMA RegBoot ==
  ASSUME HandlerInv, RegInv, NEW r \in Reqs, Boot(r)
  PROVE  RegInv'
<1> DEFINE l == boots + 1
<1>1. /\ ReqTypeOK /\ WhereIs(req[r]) /\ req[r].pc = "boot" /\ boots' = l /\ UNCHANGED live
      /\ sandbox' = [sandbox EXCEPT ![l] = req[r].s]
  BY Zenon DEF HandlerInv, Where, Boot
<1>2. /\ l \in Lifecycles /\ \A q \in Reqs \ {r} : req'[q] = req[q]
      /\ req'[r].new = l /\ req'[r].old = req[r].old /\ req'[r].s = req[r].s
      /\ Fresh(req'[r]) /\ ~Taken(req'[r])
  BY <1>1, BootMoves, Zenon DEF HandlerInv, Fresh, Taken
<1>3. \A n \in Nat : n <= boots => n # l /\ n <= l
  BY VmTypes
<1>4. /\ \A q \in Reqs : req[q].old \in Nat /\ req[q].new \in Nat
      /\ \A x \in SandboxIDs : live[x] \in Nat
  BY <1>1, VmTypes DEF ReqTypeOK, Requests
<1> HIDE DEF l
<1>5. \A k \in Lifecycles : k # l => sandbox'[k] = sandbox[k]
  BY <1>1, VmTypes, Zenon
<1>6. sandbox'[l] = req[r].s
  BY <1>1, <1>2, VmTypes, Zenon
<1>7. LiveNamed'
  BY <1>1, <1>3, <1>4, <1>5, VmTypes, Zenon DEF RegInv, LiveNamed
<1>8. OldKnown'
  BY <1>1, <1>2, <1>3, <1>4, Zenon DEF RegInv, OldKnown
<1>9. FreshOut'
  <2>1. l # NoLifecycle
    BY <1>2, LifecycleFacts, Zenon
  <2>2. \A x \in SandboxIDs : live[x] # l
    BY <1>3, <1>4, <2>1, Zenon DEF RegInv, LiveNamed
  <2> QED
    BY <1>1, <1>2, <2>2, Zenon DEF RegInv, FreshOut
<1>10. l <= l
  BY <1>2, VmTypes
<1>11. FreshNamed'
  BY <1>1, <1>2, <1>3, <1>4, <1>5, <1>6, <1>10, RegHas DEF RegInv, FreshNamed
<1>12. TakenOut'
  BY <1>1, <1>2, Zenon DEF RegInv, TakenOut
<1>13. FreshNew'
  BY <1>2, <1>3, <1>4, Zenon DEF RegInv, FreshNew, OldKnown
<1>14. FreshApart'
  BY <1>2, <1>3, <1>4 DEF RegInv, FreshApart, FreshNamed
<1>15. TakenApart'
  BY <1>2, Zenon DEF RegInv, TakenApart
<1> QED
  BY <1>7, <1>8, <1>9, <1>11, <1>12, <1>13, <1>14, <1>15, Zenon DEF RegInv

LEMMA RegMarkLive ==
  ASSUME HandlerInv, RegInv, NEW r \in Reqs, MarkLive(r)
  PROVE  RegInv'
<1>1. /\ ReqTypeOK /\ req[r].s \in SandboxIDs /\ req[r].new \in Lifecycles
      /\ Fresh(req[r]) /\ UNCHANGED <<boots, sandbox>>
  <2>1. ReqTypeOK /\ WhereIs(req[r]) /\ req[r].pc = "insert" /\ UNCHANGED <<boots, sandbox>>
    BY Zenon DEF HandlerInv, Where, MarkLive, vmVars
  <2> QED
    BY <2>1, Zenon DEF WhereIs, Fresh
<1>3. /\ \A q \in Reqs \ {r} : req'[q] = req[q]
      /\ ~Fresh(req'[r]) /\ ~Taken(req'[r])
      /\ req'[r].old \in {req[r].old, NoLifecycle}
  <2>1. Moves(r, {"track", "upload", "return"})
    BY <1>1, MarkLiveMoves, Zenon
  <2> QED
    BY <2>1, Zenon DEF Moves, Goes, Fresh, Taken
<1>a. CASE live[req[r].s] # NoLifecycle
  <2>1. UNCHANGED live
    BY <1>a, Zenon DEF MarkLive, InsertIfAbsent
  <2>2. Passes(req[r], req'[r])
    BY <1>3, Zenon DEF Passes
  <2> QED
    BY <1>1, <1>3, <2>1, <2>2, PassesOne, RegQuiet, Zenon
<1>b. CASE live[req[r].s] = NoLifecycle
  <2>4. \A x \in SandboxIDs : live'[x] = IF x = req[r].s THEN req[r].new ELSE live[x]
    BY <1>1, <1>b, VmTypes, Zenon DEF MarkLive, InsertIfAbsent
  <2>5. LiveNamed'
    BY <1>1, <2>4, Zenon DEF RegInv, LiveNamed, FreshNamed
  <2>6. OldKnown'
    BY <1>1, <1>3, VmTypes DEF RegInv, OldKnown
  <2>7. FreshOut'
    <3>1. \A q \in Reqs \ {r} : Fresh(req[q]) => req[q].new # req[r].new
      BY <1>1, Zenon DEF RegInv, FreshApart
    <3> QED
      BY <1>3, <2>4, <3>1 DEF RegInv, FreshOut
  <2>8. FreshNamed'
    BY <1>1, <1>3, Zenon DEF RegInv, FreshNamed
  <2>9. TakenOut'
    <3>1. \A q \in Reqs : req[q].old # req[r].new
      BY <1>1, Zenon DEF RegInv, FreshNew
    <3> QED
      BY <1>3, <2>4, <3>1 DEF RegInv, TakenOut
  <2>10. FreshNew'
    BY <1>3, RegHas, Zenon DEF RegInv, FreshNew
  <2>11. FreshApart'
    BY <1>3, Zenon DEF RegInv, FreshApart
  <2>12. TakenApart'
    BY <1>3, Zenon DEF RegInv, TakenApart
  <2> QED
    BY <2>5, <2>6, <2>7, <2>8, <2>9, <2>10, <2>11, <2>12, Zenon DEF RegInv
<1> QED
  BY <1>a, <1>b, Zenon

(* A request comes in: a start, or a look-up of a sandbox that is live. *)
LEMMA RegRequest ==
  ASSUME HandlerInv, RegInv, NEW r \in Reqs, UNCHANGED <<live, boots, sandbox>>,
         \A q \in Reqs \ {r} : req'[q] = req[q],
         ~Fresh(req'[r]), ~Taken(req'[r]), req'[r].old <= boots,
         \A q \in Reqs : Fresh(req[q]) => req'[r].old # req[q].new
  PROVE  RegInv'
<1>1. LiveNamed' /\ OldKnown' /\ FreshOut'
  BY DEF RegInv, LiveNamed, OldKnown, FreshOut
<1>2. FreshNamed' /\ TakenOut'
  BY DEF RegInv, FreshNamed, TakenOut
<1>3. FreshNew'
  BY Zenon DEF RegInv, FreshNew
<1>4. FreshApart'
  BY Zenon DEF RegInv, FreshApart
<1>5. TakenApart'
  BY DEF RegInv, TakenApart
<1> QED
  BY <1>1, <1>2, <1>3, <1>4, <1>5, Zenon DEF RegInv

LEMMA RegCreate ==
  ASSUME HandlerInv, RegInv,
         NEW r \in Reqs, NEW s \in SandboxIDs, NEW o \in StartOps, Create(r, s, o)
  PROVE  RegInv'
<1>1. ReqTypeOK /\ UNCHANGED <<live, boots, sandbox>>
  BY Zenon DEF HandlerInv, Create, mapVars, vmVars
<1>2. /\ \A q \in Reqs \ {r} : req'[q] = req[q]
      /\ req'[r].pc = "acquire" /\ req'[r].old = NoLifecycle
  BY <1>1, CreateBegins DEF Begins
<1>3. ~Fresh(req'[r]) /\ ~Taken(req'[r]) /\ NoLifecycle <= boots
  BY <1>2, VmTypes DEF Fresh, Taken
<1>5. \A q \in Reqs : Fresh(req[q]) => req[q].new # NoLifecycle
  BY RegHas, Zenon
<1> QED
  BY <1>1, <1>2, <1>3, <1>5, RegRequest

LEMMA RegGet ==
  ASSUME HandlerInv, RegInv,
         NEW r \in Reqs, NEW s \in SandboxIDs, NEW o \in LookupOps, Get(r, s, o)
  PROVE  RegInv'
<1>1. ReqTypeOK /\ MapTypeOK /\ UNCHANGED <<live, boots, sandbox>>
  BY Zenon DEF HandlerInv, Get, mapVars, vmVars, MapVmTypeOK
<1>2. /\ \A q \in Reqs \ {r} : req'[q] = req[q]
      /\ req'[r].pc \in {"acquire", "mark"} /\ req'[r].op \in LookupOps
      /\ req'[r].old = live[s] /\ live[s] # NoLifecycle
  BY <1>1, GetBegins DEF Begins
<1>3. ~Fresh(req'[r]) /\ ~Taken(req'[r])
  BY <1>2, Zenon DEF Fresh, Taken
<1>4. \A q \in Reqs : Fresh(req[q]) => live[s] # req[q].new
  BY Zenon DEF RegInv, FreshOut
<1>5. live[s] <= boots
  BY <1>2, Zenon DEF RegInv, LiveNamed
<1> QED
  BY <1>1, <1>2, <1>3, <1>4, <1>5, RegRequest, Zenon

LEMMA RegHandler ==
  ASSUME HandlerInv, RegInv, NEW r \in Reqs, Handler(r)
  PROVE  RegInv'
<1>1. ReqTypeOK /\ WhereIs(req[r])
  BY Zenon DEF HandlerInv, Where
<1>2. CASE MarkOld(r)
  BY <1>2, RegMarkOld, Zenon
<1>3. CASE Boot(r)
  BY <1>3, RegBoot, Zenon
<1>4. CASE MarkLive(r)
  BY <1>4, RegMarkLive, Zenon
<1>5. ASSUME ~MarkOld(r), ~Boot(r), ~MarkLive(r)
      PROVE  RegInv'
  <2>1. UNCHANGED <<boots, sandbox>>
    BY <1>5, ZenonT(30) DEF Handler, StopOld, Snapshot, Exported, BeginInPlace, InPlace, Lost, NoResources,
         BootFails, Booted, Upgrade, Track, Upload, vmVars
  <2>2. \A x \in SandboxIDs : live'[x] \in {live[x], NoLifecycle}
    <3>1. UNCHANGED live \/ MarkStopping(req[r].s, req[r].new)
      BY <1>5, ZenonT(30) DEF Handler, StopOld, Snapshot, Exported, BeginInPlace, InPlace, Lost, NoResources,
           BootFails, Booted, Upgrade, Track, Upload, Discard, mapVars
    <3> QED
      BY <3>1, MarkStoppingLive, Zenon
  <2>3. \A q \in Reqs \ {r} : req'[q] = req[q]
    BY <1>5, OtherMoves, Zenon
  <2>4. Passes(req[r], req'[r])
    <3>1. CASE StopOld(r) \/ Lost(r)
      <4>1. Moves(r, {"return"})
        BY <1>1, <3>1, StopOldMoves, LostMoves, Zenon
      <4> QED
        BY <4>1, Zenon DEF Moves, Goes, Passes, Fresh, Taken
    <3>2. CASE Snapshot(r)
      <4>1. req[r].pc = "snapshot" /\ req[r].op # "inPlace" /\ Moves(r, {"stop", "export"})
        BY <1>1, <3>2, SnapshotMoves, Zenon DEF Snapshot
      <4> QED
        BY <1>1, <4>1, Zenon DEF Moves, Goes, Passes, Fresh, Taken, WhereIs
    <3>3. CASE Exported(r)
      <4>1. req[r].pc = "export" /\ Moves(r, {"stop", "boot"})
        BY <1>1, <3>3, ExportedMoves, Zenon
      <4> QED
        BY <1>1, <4>1, Zenon DEF Moves, Goes, Passes, Fresh, Taken, WhereIs
    <3>4. CASE BeginInPlace(r)
      <4>1. req[r].pc = "begin" /\ Moves(r, {"return", "snapshot"})
        BY <1>1, <3>4, BeginInPlaceMoves, Zenon
      <4> QED
        BY <1>1, <4>1, Zenon DEF Moves, Goes, Passes, Fresh, Taken, WhereIs
    <3>5. CASE InPlace(r)
      <4>1. Moves(r, {"return", "lost"})
        BY <1>1, <3>5, InPlaceMoves, Zenon
      <4> QED
        BY <4>1, Zenon DEF Moves, Goes, Passes, Fresh, Taken
    <3>6. CASE NoResources(r) \/ BootFails(r) \/ Upload(r)
      <4>1. Moves(r, {"stop", "return"})
        BY <1>1, <3>6, NoResourcesMoves, BootFailsMoves, UploadMoves, Zenon
      <4> QED
        BY <4>1, Zenon DEF Moves, Goes, Passes, Fresh, Taken
    <3>7. CASE Track(r)
      <4>1. Moves(r, {"upload", "return"})
        BY <1>1, <3>7, TrackMoves, Zenon
      <4> QED
        BY <4>1, Zenon DEF Moves, Goes, Passes, Fresh, Taken
    <3>8. CASE Booted(r)
      <4>1. req[r].pc = "booting" /\ Moves(r, {"insert", "upgrade"})
        BY <1>1, <3>8, BootedMoves, Zenon
      <4> QED
        BY <4>1, Zenon DEF Moves, Goes, Passes, Fresh, Taken
    <3>9. CASE Upgrade(r)
      <4>1. req[r].pc = "upgrade" /\ Moves(r, {"stop", "return", "insert"})
        BY <1>1, <3>9, UpgradeMoves, Zenon
      <4> QED
        BY <4>1, Zenon DEF Moves, Goes, Passes, Fresh, Taken
    <3> QED
      BY <1>5, <3>1, <3>2, <3>3, <3>4, <3>5, <3>6, <3>7, <3>8, <3>9, ZenonT(30) DEF Handler
  <2> QED
    BY <2>1, <2>2, <2>3, <2>4, PassesOne, RegQuiet, Zenon
<1> QED
  BY <1>2, <1>3, <1>4, <1>5, Zenon

LEMMA RegNext ==
  ASSUME HandlerInv, RegInv, [Next]_vars
  PROVE  RegInv'
<1>1. ReqTypeOK
  BY Zenon DEF HandlerInv
<1>2. ASSUME \A q \in Reqs : Passes(req[q], req'[q]), UNCHANGED <<boots, sandbox, live>>
      PROVE  RegInv'
  BY <1>2, RegQuiet, Zenon
<1>3. ASSUME NEW r \in Reqs, Permit(r)
      PROVE  RegInv'
  <2>1. WhereIs(req[r]) /\ req[r].pc = "acquire"
    BY <1>3, Zenon DEF HandlerInv, Where, Permit
  <2>2. Passes(req[r], req'[r])
    BY <1>1, <1>3, <2>1, PermitMoves, Zenon DEF Passes, Fresh, Taken, AfterPermit, WhereIs
  <2>3. \A q \in Reqs : Passes(req[q], req'[q])
    BY <1>1, <1>3, <2>1, <2>2, PassesOne, PermitMoves, Zenon
  <2> QED
    BY <1>2, <1>3, <2>3, Zenon DEF Permit, mapVars, vmVars
<1>4. ASSUME NEW r \in Reqs, GiveBack(r)
      PROVE  RegInv'
  <2>1. req'[r].pc = "idle" /\ req'[r].old = NoLifecycle /\ \A q \in Reqs \ {r} : req'[q] = req[q]
    BY <1>1, <1>4, BackToIdle, ZenonT(30) DEF GiveBack
  <2>2. Passes(req[r], req'[r])
    BY <2>1, Zenon DEF Passes, Fresh, Taken
  <2> QED
    BY <1>2, <1>4, <2>1, <2>2, PassesOne, Zenon DEF GiveBack, mapVars, vmVars
<1>5. ASSUME NEW l \in Lifecycles, Teardown(l) \/ Crash(l)
      PROVE  RegInv'
  <2>1. UNCHANGED <<req, boots, sandbox>> /\ (UNCHANGED live \/ MarkStopping(sandbox[l], l))
    BY <1>5, Zenon DEF Teardown, Killed, Crash, Exit, Cleanup, Close, Notify, Recycle, mapVars
  <2>2. \A x \in SandboxIDs : live'[x] \in {live[x], NoLifecycle}
    BY <2>1, MarkStoppingLive, Zenon
  <2> QED
    BY <2>1, <2>2, PassesSame, RegQuiet, Zenon
<1>6. CASE UNCHANGED <<req, boots, sandbox, live>>
  BY <1>2, <1>6, PassesSame, Zenon
<1>7. ASSUME NEW r \in Reqs, Sleep(r) \/ TimesOut(r)
      PROVE  RegInv'
  BY <1>6, <1>7, Zenon DEF Sleep, TimesOut, mapVars, vmVars
<1>8. ASSUME NEW n \in Limits, RefreshLimit(n)
      PROVE  RegInv'
  BY <1>6, <1>8, Zenon DEF RefreshLimit, mapVars, vmVars
<1>9. CASE UNCHANGED vars
  BY <1>6, <1>9, Zenon DEF vars, mapVars, vmVars
<1> QED
  BY <1>3, <1>4, <1>5, <1>7, <1>8, <1>9, RegCreate, RegGet, RegHandler, Zenon DEF Next, Request

(***************************************************************************)
(* No orphan.                                                              *)
(***************************************************************************)
Named == \A l \in Lifecycles : vm[l] # "none" => sandbox[l] \in SandboxIDs

LEMMA NamedNext ==
  ASSUME HandlerInv, RegInv, Named, [Next]_vars
  PROVE  Named'
<1> USE VmTypes DEF Named
<1>2. CASE UNCHANGED <<vm, sandbox>>
  BY <1>2, Zenon
<1>3. ASSUME NEW r \in Reqs, Handler(r)
      PROVE  Named'
  <2>1. CASE Boot(r)
    <3>1. req[r].s \in SandboxIDs
      BY <2>1, Zenon DEF HandlerInv, Where, WhereIs, Boot
    <3>2. /\ sandbox' = [sandbox EXCEPT ![boots + 1] = req[r].s]
          /\ vm' = [vm EXCEPT ![boots + 1] = "booting"]
      BY <2>1, Zenon DEF Boot
    <3> QED
      BY <3>1, <3>2, Zenon
  <2>2. CASE Booted(r) \/ BootFails(r)
    <3>1. req[r].pc = "booting"
      BY <2>2, Zenon DEF Booted, BootFails
    <3>4. sandbox[req[r].new] \in SandboxIDs /\ req[r].new \in Lifecycles
      BY <3>1, RegHas, Zenon DEF RegInv, FreshNamed, Fresh
    <3>2. /\ UNCHANGED sandbox
          /\ \A l \in Lifecycles : l # req[r].new => vm'[l] = vm[l]
      BY <2>2, VmTypes, Zenon DEF Booted, BootFails
    <3> QED
      BY <3>2, <3>4, Zenon
  <2>3. ASSUME ~Boot(r), ~Booted(r), ~BootFails(r)
        PROVE  UNCHANGED <<vm, sandbox>>
    BY <1>3, <2>3, ZenonT(30) DEF Handler, MarkOld, StopOld, Snapshot, Exported, BeginInPlace, InPlace,
         Lost, NoResources, Upgrade, MarkLive, Track, Upload, vmVars
  <2> QED
    BY <1>2, <2>1, <2>2, <2>3, Zenon
<1>4. ASSUME NEW l \in Lifecycles, Teardown(l) \/ Crash(l)
      PROVE  Named'
  BY <1>4, Zenon DEF Teardown, Killed, Crash, Exit, Cleanup, Close, Notify, Recycle
<1>5. ASSUME NEW r \in Reqs, Request(r) \/ Permit(r) \/ Sleep(r) \/ TimesOut(r) \/ GiveBack(r)
      PROVE  UNCHANGED <<vm, sandbox>>
  BY <1>5, Zenon DEF Request, Create, Get, Permit, Sleep, TimesOut, GiveBack, vmVars
<1>6. ASSUME NEW n \in Limits, RefreshLimit(n)
      PROVE  UNCHANGED <<vm, sandbox>>
  BY <1>6, Zenon DEF RefreshLimit, vmVars
<1>7. CASE UNCHANGED vars
  BY <1>2, <1>7, Zenon DEF vars, vmVars
<1> QED
  BY <1>2, <1>3, <1>4, <1>5, <1>6, <1>7, Zenon DEF Next

(* What NoOrphan says of a step. *)
OrphanStep ==
  \A l \in Lifecycles :
    vm'[l] = "running" /\ (vm[l] = "running" => Reached(l))
      => Reached(l)' \/ \E r \in Reqs : FindsTaken(r, l)

(* A VM that runs on keeps its entry, the handler that minds it, or the    *)
(* call of Stop; or has one of them instead.                               *)
Kept(l) ==
  /\ vm[l] = "running" /\ sandbox'[l] = sandbox[l]
  /\ live[sandbox[l]] = l => Reached(l)'
  /\ l \in stopping => l \in stopping'
  /\ \A r \in Reqs : Minds(r, l) => Reached(l)' \/ FindsTaken(r, l)

LEMMA OrphanKept ==
  ASSUME \A l \in Lifecycles : vm'[l] = "running" => Kept(l)
  PROVE  OrphanStep
  BY Zenon DEF Kept, Reached, OrphanStep

(* The steps that leave the registry and the calls of Stop alone. *)
LEMMA OrphanQuiet ==
  ASSUME UNCHANGED <<live, sandbox, stopping>>, NEW r \in Reqs,
         \A l \in Lifecycles : vm'[l] = "running" => vm[l] = "running",
         \A q \in Reqs \ {r} : req'[q] = req[q],
         \A l \in Lifecycles : Minds(r, l) => Minds(r, l)'
  PROVE  OrphanStep
<1>1. \A q \in Reqs \ {r} : \A l \in Lifecycles : Minds(q, l) => Minds(q, l)'
  BY Zenon DEF Minds
<1>2. \A l \in Lifecycles : vm'[l] = "running" => Kept(l)
  BY <1>1, Zenon DEF Kept, Reached
<1> QED
  BY <1>2, OrphanKept, Zenon

LEMMA OrphanMarkOld ==
  ASSUME HandlerInv, RegInv, Named, NEW r \in Reqs, MarkOld(r)
  PROVE  OrphanStep
<1>1. /\ ReqTypeOK /\ MapVmTypeOK /\ WhereIs(req[r]) /\ req[r].pc = "mark"
      /\ UNCHANGED <<vm, sandbox, stopping>>
  BY Zenon DEF HandlerInv, Where, MarkOld
<1>2. \A x \in SandboxIDs : live[x] # req[r].old => live'[x] = live[x]
  BY MarkStoppingLive, Zenon DEF MarkOld
<1>3. Moves(r, {"return", "stop", "snapshot"})
  BY <1>1, MarkOldMoves, Zenon
<1>4. \A l \in Lifecycles : ~Minds(r, l)
  BY <1>1, Zenon DEF Minds, WhereIs
<1>5. CASE ~Marked(req[r].s, req[r].old)
  <2>1. UNCHANGED live
    BY <1>5, Zenon DEF MarkOld, MarkStopping
  <2> QED
    BY <1>1, <1>3, <1>4, <2>1, OrphanQuiet, Zenon DEF Moves, Goes
<1>6. CASE Marked(req[r].s, req[r].old)
  <2>1. ASSUME NEW l \in Lifecycles, l = req[r].old
        PROVE  Minds(r, l)'
    <3>1. req'[r].pc \in {"stop", "snapshot"} /\ req'[r].op = req[r].op /\ req'[r].old = req[r].old
      BY <1>1, <1>6, GotoType, ZenonT(30) DEF MarkOld, Labels
    <3> QED
      BY <1>1, <2>1, <3>1, Zenon DEF Minds, WhereIs
  <2>2. ASSUME NEW l \in Lifecycles, vm'[l] = "running"
        PROVE  Kept(l)
    <3>1. live[sandbox[l]] = l => Reached(l)'
      <4>1. CASE l = req[r].old
        BY <2>1, <4>1, Zenon DEF Reached
      <4>2. CASE l # req[r].old
        BY <1>1, <1>2, <2>2, <4>2, Zenon DEF Reached, Named
      <4> QED
        BY <4>1, <4>2, Zenon
    <3>2. \A q \in Reqs : Minds(q, l) => Minds(q, l)'
      BY <1>3, <1>4, Zenon DEF Minds, Moves, Goes
    <3> QED
      BY <1>1, <2>2, <3>1, <3>2, Zenon DEF Kept, Reached
  <2> QED
    BY <2>2, OrphanKept, Zenon
<1> QED
  BY <1>5, <1>6, Zenon

(* Stop was called for a lifecycle, or its VM does not run. *)
LEMMA StopStops ==
  ASSUME NEW l, Stop(l)
  PROVE  stopping \subseteq stopping' /\ (vm[l] = "running" => l \in stopping')
  BY Zenon DEF Stop

(* Whatever a handler does to the entry of a lifecycle that it stops. *)
LEMMA OrphanStops ==
  ASSUME Named, UNCHANGED <<vm, sandbox>>, NEW r \in Reqs,
         NEW k, Stop(k), \A x \in SandboxIDs : live[x] # k => live'[x] = live[x],
         \A q \in Reqs \ {r} : req'[q] = req[q],
         \A l \in Lifecycles : Minds(r, l) => Minds(r, l)' \/ l = k
  PROVE  OrphanStep
<1>1. SUFFICES ASSUME NEW l \in Lifecycles, vm'[l] = "running"
               PROVE  Kept(l)
  BY OrphanKept, Zenon
<1>2. vm[l] = "running" /\ sandbox[l] \in SandboxIDs /\ sandbox'[l] = sandbox[l]
  BY <1>1, Zenon DEF Named
<1>3. l = k => l \in stopping'
  BY <1>2, StopStops, Zenon
<1>4. live[sandbox[l]] = l => Reached(l)'
  BY <1>2, <1>3, Zenon DEF Reached
<1>5. \A q \in Reqs : Minds(q, l) => Reached(l)'
  <2>1. \A q \in Reqs \ {r} : Minds(q, l) => Minds(q, l)'
    BY Zenon DEF Minds
  <2> QED
    BY <1>3, <2>1, Zenon DEF Reached
<1> QED
  BY <1>2, <1>4, <1>5, StopStops, Zenon DEF Kept

LEMMA OrphanHandler ==
  ASSUME HandlerInv, RegInv, Named, NEW r \in Reqs, Handler(r)
  PROVE  OrphanStep
<1>1. ReqTypeOK /\ MapVmTypeOK /\ WhereIs(req[r])
  BY Zenon DEF HandlerInv, Where
<1>2. CASE MarkOld(r)
  BY <1>2, OrphanMarkOld, Zenon
<1>3. CASE StopOld(r)
  <2>1. Stop(req[r].old) /\ UNCHANGED <<vm, sandbox, live>> /\ Moves(r, {"return"})
    BY <1>1, <1>3, StopOldMoves, Zenon DEF StopOld, mapVars
  <2>2. \A l \in Lifecycles : Minds(r, l) => l = req[r].old
    BY <1>3, Zenon DEF StopOld, Minds
  <2> QED
    BY <1>1, <2>1, <2>2, OrphanStops, Zenon DEF Moves, Goes
<1>4. CASE Snapshot(r)
  <2>1. Moves(r, {"stop", "export"}) /\ UNCHANGED <<vm, sandbox, live>>
    BY <1>1, <1>4, SnapshotMoves, Zenon DEF Snapshot, mapVars
  <2>2. \A l \in Lifecycles : Minds(r, l) => Minds(r, l)'
    BY <1>1, <1>4, GotoType, Zenon DEF Snapshot, Labels, Minds, WhereIs
  <2>3. CASE UNCHANGED stopping
    BY <2>1, <2>2, <2>3, OrphanQuiet, Zenon DEF Moves, Goes
  <2>4. CASE Stop(req[r].old)
    BY <1>1, <2>1, <2>2, <2>4, OrphanStops, Zenon DEF Moves, Goes
  <2> QED
    BY <1>4, <2>3, <2>4, Zenon DEF Snapshot
<1>5. CASE Exported(r) \/ BeginInPlace(r) \/ Lost(r) \/ NoResources(r) \/ Track(r)
  <2>1. UNCHANGED <<vm, sandbox, live, stopping>> /\ \A q \in Reqs \ {r} : req'[q] = req[q]
    <3>1. UNCHANGED <<vm, sandbox, live, stopping>>
      BY <1>5, ZenonT(30) DEF Exported, BeginInPlace, Lost, NoResources, Track, mapVars, vmVars
    <3>2. \A q \in Reqs \ {r} : req'[q] = req[q]
      BY <1>1, <1>5, ExportedMoves, BeginInPlaceMoves, LostMoves, NoResourcesMoves, TrackMoves,
         ZenonT(30) DEF Moves
    <3> QED
      BY <3>1, <3>2, Zenon
  <2>2. \A l \in Lifecycles : Minds(r, l) => Minds(r, l)'
    <3>1. CASE Exported(r)
      BY <1>1, <3>1, ExportedMoves, Zenon DEF Moves, Goes, Minds, WhereIs
    <3>2. CASE BeginInPlace(r)
      <4>1. req[r].pc = "begin"
        BY <1>1, <3>2, BeginInPlaceMoves, Zenon
      <4> QED
        BY <1>1, <4>1, Zenon DEF Minds, WhereIs
    <3>3. CASE Lost(r)
      <4>1. req[r].pc = "lost"
        BY <1>1, <3>3, LostMoves, Zenon
      <4> QED
        BY <1>1, <4>1, Zenon DEF Minds, WhereIs
    <3>4. CASE NoResources(r)
      BY <1>1, <3>4, NoResourcesMoves, Zenon DEF Moves, Goes, Minds, WhereIs
    <3>5. CASE Track(r)
      BY <1>1, <3>5, TrackMoves, Zenon DEF Moves, Goes, Minds, WhereIs
    <3> QED
      BY <1>5, <3>1, <3>2, <3>3, <3>4, <3>5, Zenon
  <2> QED
    BY <2>1, <2>2, OrphanQuiet, Zenon
<1>6. CASE InPlace(r)
  <2>1. Moves(r, {"return", "lost"}) /\ UNCHANGED <<vm, sandbox, live>>
    BY <1>1, <1>6, InPlaceMoves, Zenon DEF InPlace, mapVars
  <2>2. \A l \in Lifecycles : ~Minds(r, l)
    BY <1>6, Zenon DEF InPlace, Minds
  <2>3. CASE UNCHANGED stopping
    BY <2>1, <2>2, <2>3, OrphanQuiet, Zenon DEF Moves, Goes
  <2>4. CASE Stop(req[r].old)
    BY <1>1, <2>1, <2>2, <2>4, OrphanStops, Zenon DEF Moves, Goes
  <2> QED
    BY <1>6, <2>3, <2>4, Zenon DEF InPlace
<1>7. CASE Upgrade(r) \/ Upload(r)
  <2>1. CASE Discard(r)
    <3>1. /\ Stop(req[r].new) /\ UNCHANGED <<vm, sandbox>>
          /\ \A x \in SandboxIDs : live[x] # req[r].new => live'[x] = live[x]
          /\ Moves(r, {"stop", "return"}) /\ (req[r].op = "checkpoint" => req'[r].pc = "stop")
      BY <1>1, <1>7, <2>1, MarkStoppingLive, FailMoves DEF Upgrade, Upload, Discard
    <3>2. \A l \in Lifecycles : Minds(r, l) => Minds(r, l)' \/ l = req[r].new
      BY <1>1, <1>7, <3>1, Zenon DEF Upgrade, Upload, Moves, Goes, Minds, WhereIs
    <3> QED
      BY <1>1, <3>1, <3>2, OrphanStops, Zenon DEF Moves, Goes
  <2>2. CASE ~Discard(r)
    <3>1. UNCHANGED <<vm, sandbox, live, stopping>> /\ \A q \in Reqs \ {r} : req'[q] = req[q]
      BY <1>1, <1>7, <2>2, UpgradeMoves, UploadMoves, ZenonT(30) DEF Upgrade, Upload, Moves, Goes
    <3>2. CASE Goto(r, "insert") /\ req[r].pc = "upgrade"
      <4>1. \A l \in Lifecycles : Minds(r, l) => Minds(r, l)'
        BY <1>1, <3>2, GotoType, ZenonT(30) DEF Minds, Labels
      <4> QED
        BY <3>1, <4>1, OrphanQuiet, Zenon
    <3>3. CASE Goto(r, "stop") /\ req[r].pc = "upload"
      <4>1. \A l \in Lifecycles : Minds(r, l) => Minds(r, l)'
        BY <1>1, <3>3, GotoType, Zenon DEF Minds, Labels, WhereIs
      <4> QED
        BY <3>1, <4>1, OrphanQuiet, Zenon
    <3> QED
      BY <1>7, <2>2, <3>2, <3>3, ZenonT(30) DEF Upgrade, Upload
  <2> QED
    BY <2>1, <2>2, Zenon
<1>8. CASE Boot(r)
  <2>1. /\ UNCHANGED <<live, stopping>>
        /\ sandbox' = [sandbox EXCEPT ![boots + 1] = req[r].s]
        /\ vm' = [vm EXCEPT ![boots + 1] = "booting"]
        /\ boots + 1 \in Lifecycles
    BY <1>8, BootMoves, Zenon DEF Boot, HandlerInv
  <2>2. \A q \in Reqs, l \in Lifecycles : Minds(q, l) => Minds(q, l)'
    <3>1. \A l \in Lifecycles : Minds(r, l) => Minds(r, l)'
      BY <1>8, BootMoves, ZenonT(30) DEF Minds, Boot, HandlerInv
    <3>2. \A q \in Reqs \ {r} : req'[q] = req[q]
      BY <1>8, BootMoves, Zenon DEF HandlerInv
    <3> QED
      BY <3>1, <3>2 DEF Minds
  <2>3. ASSUME NEW l \in Lifecycles, vm'[l] = "running"
        PROVE  Kept(l)
    <3>1. l # boots + 1 /\ vm[l] = "running" /\ sandbox'[l] = sandbox[l]
      BY <2>1, <2>3, VmTypes, Zenon
    <3> QED
      BY <2>1, <2>2, <3>1, Zenon DEF Kept, Reached
  <2> QED
    BY <2>3, OrphanKept, Zenon
<1>9. CASE BootFails(r)
  <2>1. /\ UNCHANGED <<sandbox, stopping>> /\ req[r].new \in Lifecycles
        /\ vm' = [vm EXCEPT ![req[r].new] = "exited"]
        /\ \A x \in SandboxIDs : live[x] # req[r].new => live'[x] = live[x]
    BY <1>1, <1>9, MarkStoppingLive DEF BootFails, WhereIs
  <2>2. \A q \in Reqs, l \in Lifecycles : Minds(q, l) => Minds(q, l)' \/ l = req[r].new
    <3>1. /\ req[r].pc = "booting" /\ Moves(r, {"stop", "return"})
          /\ req[r].op = "checkpoint" => req'[r].pc = "stop"
      BY <1>1, <1>9, FailMoves, ZenonT(30) DEF BootFails
    <3>2. \A l \in Lifecycles : Minds(r, l) => Minds(r, l)' \/ l = req[r].new
      BY <3>1, Zenon DEF Minds, Moves, Goes
    <3> QED
      BY <3>1, <3>2 DEF Minds, Moves, Goes
  <2>3. ASSUME NEW l \in Lifecycles, vm'[l] = "running"
        PROVE  Kept(l)
    <3>1. l # req[r].new /\ vm[l] = "running" /\ sandbox[l] \in SandboxIDs
      BY <2>1, <2>3, VmTypes, Zenon DEF Named
    <3> QED
      BY <2>1, <2>2, <3>1, ZenonT(30) DEF Kept, Reached
  <2> QED
    BY <2>3, OrphanKept, Zenon
<1>10. CASE Booted(r)
  <2>1. /\ UNCHANGED <<sandbox, stopping, live>> /\ req[r].new \in Lifecycles
        /\ vm' = [vm EXCEPT ![req[r].new] = "running"]
        /\ Moves(r, {"insert", "upgrade"}) /\ req[r].pc = "booting" /\ req[r].op # "inPlace"
    BY <1>1, <1>10, BootedMoves, Zenon DEF Booted, WhereIs, mapVars
  <2>2. req'[r].new = req[r].new /\ req'[r].pc \in {"insert", "upgrade"}
    BY <1>1, <1>10, GotoType, ZenonT(30) DEF Booted, Labels
  <2>3. \A q \in Reqs, l \in Lifecycles : Minds(q, l) => Minds(q, l)'
    <3>1. \A l \in Lifecycles : Minds(r, l) => Minds(r, l)'
      BY <1>1, <1>10, <2>1, GotoType, ZenonT(30) DEF Minds, Booted, Labels
    <3> QED
      BY <2>1, <3>1, ZenonT(30) DEF Minds, Moves, Goes
  <2>4. ASSUME NEW l \in Lifecycles, vm'[l] = "running", vm[l] = "running" => Reached(l)
        PROVE  Reached(l)'
    <3>1. CASE l = req[r].new
      <4>1. Minds(r, l)'
        BY <2>2, <3>1, Zenon DEF Minds
      <4> QED
        BY <4>1, Zenon DEF Reached
    <3>2. CASE l # req[r].new
      <4>1. Reached(l)
        BY <2>1, <2>4, <3>2, VmTypes, ZenonT(30)
      <4> QED
        BY <2>1, <2>3, <4>1, ZenonT(30) DEF Reached
    <3> QED
      BY <3>1, <3>2, Zenon
  <2> QED
    BY <2>4, Zenon DEF OrphanStep
<1>11. CASE MarkLive(r)
  <2>1. /\ req[r].pc = "insert" /\ req[r].s \in SandboxIDs /\ req[r].new \in Lifecycles
        /\ UNCHANGED <<sandbox, stopping, vm>>
    BY <1>1, <1>11, ZenonT(30) DEF MarkLive, WhereIs, vmVars
  <2>2. /\ sandbox[req[r].new] = req[r].s /\ live[req[r].s] # req[r].new
        /\ Moves(r, {"track", "upload", "return"})
    BY <1>1, <1>11, <2>1, MarkLiveMoves, Zenon DEF RegInv, FreshOut, FreshNamed, Fresh
  <2>3. \A q \in Reqs, l \in Lifecycles : Minds(q, l) => Minds(q, l)' \/ (q = r /\ l = req[r].new)
    <3>1. req[r].op = "checkpoint" =>
            /\ req'[r].pc \in {"track", "upload"}
            /\ req'[r].op = req[r].op /\ req'[r].old = req[r].old
      BY <1>1, <1>11, GotoType, ZenonT(30) DEF MarkLive, AfterLive, Labels
    <3>2. \A l \in Lifecycles : Minds(r, l) => Minds(r, l)' \/ l = req[r].new
      BY <2>1, <3>1, ZenonT(30) DEF Minds
    <3>3. \A q \in Reqs \ {r}, l \in Lifecycles : Minds(q, l) => Minds(q, l)'
      BY <2>2, ZenonT(30) DEF Minds, Moves
    <3> QED
      BY <3>2, <3>3, Zenon
  <2>4. CASE live[req[r].s] = NoLifecycle
    <3>1. live' = [live EXCEPT ![req[r].s] = req[r].new]
      BY <1>11, <2>4, ZenonT(30) DEF MarkLive, InsertIfAbsent
    <3>2. live'[sandbox[req[r].new]] = req[r].new
      BY <2>1, <2>2, <3>1, VmTypes, Zenon
    <3>3. ASSUME NEW l \in Lifecycles, vm'[l] = "running"
          PROVE  Kept(l)
      <4>1. vm[l] = "running" /\ sandbox[l] \in SandboxIDs /\ l # NoLifecycle
        BY <2>1, <3>3, LifecycleFacts, Zenon DEF Named
      <4>2. live[sandbox[l]] = l => live'[sandbox[l]] = l
        BY <2>1, <2>4, <3>1, <4>1, VmTypes, Zenon
      <4> QED
        BY <2>1, <2>3, <3>2, <4>1, <4>2, ZenonT(30) DEF Kept, Reached
    <3> QED
      BY <3>3, OrphanKept, Zenon
  <2>5. CASE live[req[r].s] # NoLifecycle
    <3>1. UNCHANGED live
      BY <1>11, <2>5, ZenonT(30) DEF MarkLive, InsertIfAbsent
    <3>2. FindsTaken(r, req[r].new)
      BY <2>1, <2>2, <2>5, Zenon DEF FindsTaken
    <3>3. ASSUME NEW l \in Lifecycles, vm'[l] = "running"
          PROVE  Kept(l)
      BY <2>1, <2>3, <3>1, <3>2, <3>3, ZenonT(30) DEF Kept, Reached
    <3> QED
      BY <3>3, OrphanKept, Zenon
  <2> QED
    BY <2>4, <2>5, Zenon
<1> QED
  BY <1>2, <1>3, <1>4, <1>5, <1>6, <1>7, <1>8, <1>9, <1>10, <1>11, Zenon DEF Handler

LEMMA OrphanTeardown ==
  ASSUME HandlerInv, Named, NEW l \in Lifecycles, Teardown(l) \/ Crash(l)
  PROVE  OrphanStep
<1>1. MapVmTypeOK /\ UNCHANGED <<req, sandbox>>
  BY ZenonT(30) DEF HandlerInv, Teardown, Killed, Crash, Exit, Cleanup, Close, Notify, Recycle
<1>2. \A q \in Reqs, k \in Lifecycles : Minds(q, k) => Minds(q, k)'
  BY <1>1, Zenon DEF Minds
<1>3. CASE Killed(l) \/ Crash(l)
  <2>1. /\ UNCHANGED live /\ vm' = [vm EXCEPT ![l] = "exited"] /\ stopping' = stopping \ {l}
    BY <1>3, Zenon DEF Killed, Crash, Exit, mapVars
  <2>2. \A k \in Lifecycles : vm'[k] = "running" => Kept(k)
    BY <1>1, <1>2, <2>1, VmTypes, ZenonT(30) DEF Kept, Reached
  <2> QED
    BY <2>2, OrphanKept, Zenon
<1>4. CASE Cleanup(l)
  <2>1. /\ UNCHANGED <<vm, stopping>> /\ vm[l] = "exited"
        /\ \A x \in SandboxIDs : live[x] # l => live'[x] = live[x]
    BY <1>1, <1>4, MarkStoppingLive, Zenon DEF Cleanup
  <2>2. \A k \in Lifecycles : vm'[k] = "running" => k # l /\ sandbox[k] \in SandboxIDs
    BY <2>1, Zenon DEF Named
  <2>3. \A k \in Lifecycles : vm'[k] = "running" => Kept(k)
    BY <1>1, <1>2, <2>1, <2>2, ZenonT(30) DEF Kept, Reached
  <2> QED
    BY <2>3, OrphanKept, Zenon
<1>5. CASE Close(l) \/ Notify(l) \/ Recycle(l)
  <2>1. UNCHANGED <<live, vm, stopping>>
    BY <1>5, Zenon DEF Close, Notify, Recycle, mapVars
  <2>2. \A k \in Lifecycles : vm'[k] = "running" => Kept(k)
    BY <1>1, <1>2, <2>1, ZenonT(30) DEF Kept, Reached
  <2> QED
    BY <2>2, OrphanKept, Zenon
<1> QED
  BY <1>3, <1>4, <1>5, Zenon DEF Teardown

LEMMA OrphanNext ==
  ASSUME HandlerInv, RegInv, Named, [Next]_vars
  PROVE  OrphanStep
<1>1. ReqTypeOK /\ MapVmTypeOK
  BY Zenon DEF HandlerInv
<1>2. ASSUME NEW r \in Reqs, NEW s \in SandboxIDs, NEW o \in StartOps, Create(r, s, o)
      PROVE  OrphanStep
  <2>1. UNCHANGED <<live, sandbox, stopping, vm>> /\ \A q \in Reqs \ {r} : req'[q] = req[q]
    BY <1>1, <1>2, CreateBegins, Zenon DEF Create, Begins, mapVars, vmVars
  <2>2. \A l \in Lifecycles : ~Minds(r, l)
    BY <1>2 DEF Create, Minds, Idle
  <2> QED
    BY <2>1, <2>2, OrphanQuiet, Zenon
<1>3. ASSUME NEW r \in Reqs, NEW s \in SandboxIDs, NEW o \in LookupOps, Get(r, s, o)
      PROVE  OrphanStep
  <2>1. UNCHANGED <<live, sandbox, stopping, vm>> /\ \A q \in Reqs \ {r} : req'[q] = req[q]
    <3>1. UNCHANGED <<live, sandbox, stopping, vm>>
      BY <1>3, Zenon DEF Get, mapVars, vmVars
    <3> QED
      BY <1>1, <1>3, <3>1, GetBegins DEF Begins, MapVmTypeOK
  <2>2. \A l \in Lifecycles : ~Minds(r, l)
    BY <1>3 DEF Get, Minds, Idle
  <2> QED
    BY <2>1, <2>2, OrphanQuiet, Zenon
<1>4. ASSUME NEW r \in Reqs, Permit(r)
      PROVE  OrphanStep
  <2>1. UNCHANGED <<live, sandbox, stopping, vm>> /\ \A q \in Reqs \ {r} : req'[q] = req[q]
    <3>1. WhereIs(req[r])
      BY Zenon DEF HandlerInv, Where
    <3>2. UNCHANGED <<live, sandbox, stopping, vm>>
      BY <1>4, Zenon DEF Permit, mapVars, vmVars
    <3> QED
      BY <1>1, <1>4, <3>1, <3>2, PermitMoves, Zenon
  <2>2. \A l \in Lifecycles : ~Minds(r, l)
    BY <1>4, Zenon DEF Permit, Minds
  <2> QED
    BY <2>1, <2>2, OrphanQuiet, Zenon
<1>5. ASSUME NEW r \in Reqs, GiveBack(r)
      PROVE  OrphanStep
  <2>1. UNCHANGED <<live, sandbox, stopping, vm>> /\ \A q \in Reqs \ {r} : req'[q] = req[q]
    BY <1>1, <1>5, BackToIdle, Zenon DEF GiveBack, mapVars, vmVars
  <2>2. \A l \in Lifecycles : ~Minds(r, l)
    BY <1>5, Zenon DEF GiveBack, Minds
  <2> QED
    BY <2>1, <2>2, OrphanQuiet, Zenon
<1>6. CASE UNCHANGED <<req, live, sandbox, stopping, vm>>
  BY <1>6, Zenon DEF OrphanStep, Reached, Minds
<1>7. ASSUME NEW r \in Reqs, Sleep(r) \/ TimesOut(r)
      PROVE  OrphanStep
  BY <1>6, <1>7, Zenon DEF Sleep, TimesOut, mapVars, vmVars
<1>8. ASSUME NEW n \in Limits, RefreshLimit(n)
      PROVE  OrphanStep
  BY <1>6, <1>8, Zenon DEF RefreshLimit, mapVars, vmVars
<1>9. CASE UNCHANGED vars
  BY <1>6, <1>9, Zenon DEF vars, mapVars, vmVars
<1> QED
  BY <1>2, <1>3, <1>4, <1>5, <1>7, <1>8, <1>9, OrphanHandler, OrphanTeardown, Zenon
     DEF Next, Request

NodeInv == HandlerInv /\ RegInv /\ Named

LEMMA NodeInit == Init => NodeInv
<1>1. Init => Named
  BY Zenon DEF Init, Named
<1> QED
  BY <1>1, HandlerInit, RegInit, Zenon DEF NodeInv

LEMMA NodeAlways == Spec => []NodeInv
<1>1. NodeInv /\ [Next]_vars => NodeInv'
  BY HandlerNext, RegNext, NamedNext, Zenon DEF NodeInv
<1> QED
  BY <1>1, NodeInit, PTL DEF Spec

(* A VM comes to run out of reach of Delete, neither live nor in the hands *)
(* of a handler nor told to stop, only when MarkRunning finds its sandbox  *)
(* ID taken; so it never does while the starts of a sandbox do not meet a  *)
(* live one.                                                               *)
THEOREM NoOrphanCorrect == Spec => NoOrphan
<1>1. NodeInv /\ [Next]_vars => OrphanStep
  BY OrphanNext, Zenon DEF NodeInv
<1>2. NodeInv /\ [Next]_vars =>
        [\A l \in Lifecycles :
           vm'[l] = "running" /\ (vm[l] = "running" => Reached(l)) /\ ~Reached(l)'
             => \E r \in Reqs : FindsTaken(r, l)]_vars
  BY <1>1, Zenon DEF OrphanStep
<1> QED
  BY <1>2, NodeAlways, PTL DEF Spec, NoOrphan

(***************************************************************************)
(* Checkpoints in place.                                                   *)
(***************************************************************************)
Busy(c) == c.op = "inPlace" /\ c.pc \in {"snapshot", "lost"}

BusyInv ==
  /\ \A r \in Reqs : Busy(req[r]) => req[r].old \in inPlace
  /\ \A q, r \in Reqs : q # r /\ Busy(req[q]) /\ Busy(req[r]) => req[q].old # req[r].old

LEMMA BusyQuiet ==
  ASSUME BusyInv, UNCHANGED inPlace,
         \A r \in Reqs : Busy(req'[r]) => Busy(req[r]) /\ req'[r].old = req[r].old
  PROVE  BusyInv'
  BY Zenon DEF BusyInv

LEMMA BusyHandler ==
  ASSUME HandlerInv, BusyInv, NEW r \in Reqs, Handler(r)
  PROVE  BusyInv'
<1>1. ReqTypeOK /\ WhereIs(req[r])
  BY Zenon DEF HandlerInv, Where
<1>2. ASSUME NEW L, Moves(r, L), L \cap {"snapshot", "lost"} = {}, UNCHANGED inPlace
      PROVE  BusyInv'
  BY <1>2, BusyQuiet, Zenon DEF Moves, Goes, Busy
<1>3. CASE MarkOld(r)
  <2>1. \A q \in Reqs : Busy(req'[q]) => Busy(req[q]) /\ req'[q].old = req[q].old
    BY <1>1, <1>3, MarkOldMoves, ZenonT(30) DEF Moves, Goes, Busy, WhereIs
  <2> QED
    BY <1>3, <2>1, BusyQuiet, ZenonT(30) DEF MarkOld
<1>4. CASE BeginInPlace(r)
  <2>1. /\ req[r].pc = "begin" /\ Moves(r, {"return", "snapshot"})
    BY <1>1, <1>4, BeginInPlaceMoves, Zenon
  <2>2. CASE req[r].old \in inPlace
    <3>1. Moves(r, {"return"}) /\ UNCHANGED inPlace
      BY <1>1, <1>4, <2>2, ReturnMoves, ZenonT(30) DEF BeginInPlace
    <3> QED
      BY <1>2, <3>1, Zenon
  <2>3. CASE req[r].old \notin inPlace
    <3>1. /\ inPlace' = inPlace \cup {req[r].old}
          /\ req'[r].old = req[r].old /\ \A q \in Reqs \ {r} : req'[q] = req[q]
      BY <1>1, <1>4, <2>3, GotoType, Zenon DEF BeginInPlace, Labels
    <3> QED
      BY <2>3, <3>1 DEF BusyInv
  <2> QED
    BY <2>2, <2>3, Zenon
<1>5. CASE EndInPlace(r) /\ Busy(req[r])
  <2>1. /\ Moves(r, {"return"}) /\ inPlace' = inPlace \ {req[r].old}
    BY <1>1, <1>5, ReturnMoves, Zenon DEF EndInPlace
  <2> QED
    BY <1>5, <2>1, ZenonT(30) DEF BusyInv, Moves, Goes, Busy
<1>6. CASE InPlace(r) /\ UNCHANGED inPlace
  <2>1. \A q \in Reqs : Busy(req'[q]) => Busy(req[q]) /\ req'[q].old = req[q].old
    BY <1>1, <1>6, InPlaceMoves, ZenonT(30) DEF Moves, Goes, Busy, InPlace, WhereIs
  <2> QED
    BY <1>6, <2>1, BusyQuiet, Zenon
<1>7. CASE InPlace(r) \/ Lost(r)
  <2>1. Busy(req[r])
    BY <1>1, <1>7, Zenon DEF Busy, InPlace, Lost, WhereIs
  <2> QED
    BY <1>5, <1>6, <1>7, <2>1, ZenonT(30) DEF InPlace, Lost
<1>8. CASE Boot(r)
  <2>1. \A q \in Reqs : Busy(req'[q]) => Busy(req[q]) /\ req'[q].old = req[q].old
    BY <1>8, BootMoves, Zenon DEF Busy, HandlerInv
  <2> QED
    BY <1>8, <2>1, BusyQuiet, ZenonT(30) DEF Boot
<1>9. ASSUME ~MarkOld(r), ~BeginInPlace(r), ~InPlace(r), ~Lost(r), ~Boot(r)
      PROVE  BusyInv'
  <2>1. UNCHANGED inPlace
    BY <1>9, ZenonT(30) DEF Handler, StopOld, Snapshot, Exported, NoResources, BootFails, Booted, Upgrade,
         MarkLive, Track, Upload, vmVars
  <2>2. \A q \in Reqs \ {r} : req'[q] = req[q]
    BY <1>9, OtherMoves, Zenon
  <2>3. ~Busy(req'[r])
    <3>1. CASE StopOld(r) \/ Snapshot(r) \/ Exported(r) \/ NoResources(r)
      BY <1>1, <3>1, StopOldMoves, SnapshotMoves, ExportedMoves, NoResourcesMoves, ZenonT(30)
         DEF Moves, Goes, Busy
    <3>2. CASE BootFails(r) \/ Booted(r) \/ Upgrade(r)
      BY <1>1, <3>2, BootFailsMoves, BootedMoves, UpgradeMoves, ZenonT(30) DEF Moves, Goes, Busy
    <3>3. CASE MarkLive(r) \/ Track(r) \/ Upload(r)
      BY <1>1, <3>3, MarkLiveMoves, TrackMoves, UploadMoves, ZenonT(30) DEF Moves, Goes, Busy
    <3> QED
      BY <1>9, <3>1, <3>2, <3>3, ZenonT(30) DEF Handler
  <2> QED
    BY <2>1, <2>2, <2>3, BusyQuiet, Zenon
<1> QED
  BY <1>3, <1>4, <1>7, <1>8, <1>9, Zenon

LEMMA BusyNext ==
  ASSUME HandlerInv, BusyInv, [Next]_vars
  PROVE  BusyInv'
<1>1. ReqTypeOK /\ MapTypeOK
  BY Zenon DEF HandlerInv, MapVmTypeOK
<1>2. ASSUME NEW r \in Reqs, UNCHANGED inPlace, ~Busy(req'[r]),
             \A q \in Reqs \ {r} : req'[q] = req[q]
      PROVE  BusyInv'
  BY <1>2, BusyQuiet, Zenon
<1>3. ASSUME NEW r \in Reqs, NEW s \in SandboxIDs, NEW o \in StartOps, Create(r, s, o)
      PROVE  BusyInv'
  <2>1. UNCHANGED inPlace
    BY <1>3, Zenon DEF Create, vmVars
  <2> QED
    BY <1>1, <1>2, <1>3, <2>1, CreateBegins DEF Begins, Busy
<1>4. ASSUME NEW r \in Reqs, NEW s \in SandboxIDs, NEW o \in LookupOps, Get(r, s, o)
      PROVE  BusyInv'
  <2>1. UNCHANGED inPlace
    BY <1>4, Zenon DEF Get, vmVars
  <2> QED
    BY <1>1, <1>2, <1>4, <2>1, GetBegins DEF Begins, Busy
<1>5. ASSUME NEW r \in Reqs, Permit(r)
      PROVE  BusyInv'
  <2>1. UNCHANGED inPlace /\ WhereIs(req[r])
    BY <1>5, Zenon DEF Permit, vmVars, HandlerInv, Where
  <2>2. req[r].pc = "acquire" /\ req[r].op \in PermitOps
    BY <1>5, <2>1, Zenon DEF Permit, WhereIs
  <2>3. ~Busy(req'[r]) /\ \A q \in Reqs \ {r} : req'[q] = req[q]
    BY <1>1, <1>5, <2>1, <2>2, PermitMoves, Zenon DEF Busy, AfterPermit
  <2> QED
    BY <1>2, <2>1, <2>3, Zenon
<1>6. ASSUME NEW r \in Reqs, GiveBack(r)
      PROVE  BusyInv'
  <2>1. UNCHANGED inPlace
    BY <1>6, Zenon DEF GiveBack, vmVars
  <2> QED
    BY <1>1, <1>2, <1>6, <2>1, BackToIdle, ZenonT(30) DEF GiveBack, Busy
<1>7. CASE UNCHANGED <<req, inPlace>>
  BY <1>7, BusyQuiet, Zenon
<1>8. ASSUME NEW r \in Reqs, Sleep(r) \/ TimesOut(r)
      PROVE  UNCHANGED <<req, inPlace>>
  BY <1>8, Zenon DEF Sleep, TimesOut, vmVars
<1>9. ASSUME NEW n \in Limits, RefreshLimit(n)
      PROVE  UNCHANGED <<req, inPlace>>
  BY <1>9, Zenon DEF RefreshLimit, vmVars
<1>10. ASSUME NEW l \in Lifecycles, Teardown(l) \/ Crash(l)
       PROVE  UNCHANGED <<req, inPlace>>
  BY <1>10, ZenonT(30) DEF Teardown, Killed, Crash, Exit, Cleanup, Close, Notify, Recycle
<1>11. CASE UNCHANGED vars
  BY <1>7, <1>11, Zenon DEF vars, vmVars
<1> QED
  BY <1>3, <1>4, <1>5, <1>6, <1>7, <1>8, <1>9, <1>10, <1>11, BusyHandler, Zenon DEF Next, Request

LEMMA SnapshotsExclude == NodeInv /\ BusyInv => SnapshotExclusive
<1> SUFFICES ASSUME NodeInv, BusyInv, NEW r \in Reqs, NEW q \in Reqs,
                    r # q, req[r].old = req[q].old,
                    req[r].pc \in {"snapshot", "export"}, req[q].pc \in {"snapshot", "export"}
             PROVE  (req[r].op = "inPlace") # (req[q].op = "inPlace")
  BY Zenon DEF SnapshotExclusive
<1>1. ~(Taken(req[r]) /\ Taken(req[q])) /\ ~(Busy(req[r]) /\ Busy(req[q]))
  BY Zenon DEF NodeInv, RegInv, TakenApart, BusyInv
<1>2. WhereIs(req[r]) /\ WhereIs(req[q])
  BY Zenon DEF NodeInv, HandlerInv, Where
<1> QED
  BY <1>1, <1>2, ZenonT(30) DEF Taken, Busy, WhereIs

(* A VM is snapshot by two handlers at once only when one of them          *)
(* checkpoints it in place and the other has taken it out of the live map, *)
(* however many starts, pauses and checkpoints of the sandbox overlap.     *)
THEOREM SnapshotsCorrect == Spec => []SnapshotExclusive
<1>1. Init => BusyInv
  BY DEF Init, BusyInv, Busy, Idle
<1>2. NodeInv /\ BusyInv /\ [Next]_vars => BusyInv'
  BY BusyNext, Zenon DEF NodeInv
<1> QED
  BY <1>1, <1>2, NodeAlways, SnapshotsExclude, PTL DEF Spec
=============================================================================
