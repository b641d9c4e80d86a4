------------------------- MODULE NodeHandlerProofs -------------------------
(***************************************************************************)
(* How the handlers of NodeServer move: from where to where, with what in  *)
(* hand, and that all but the semaphore keeps its type.                    *)
(***************************************************************************)
EXTENDS NodeServer, TLAPS

MapVmTypeOK ==
  /\ MapTypeOK
  /\ boots \in 0 .. MaxBoots
  /\ sandbox \in [Lifecycles -> SandboxIDs \cup {"none"}]
  /\ vm \in [Lifecycles -> {"none", "booting", "running", "exited"}]
  /\ stopping \subseteq Lifecycles /\ inPlace \subseteq Lifecycles
  /\ closing \in [Lifecycles -> {"open", "evicted", "done"}]
  /\ ip \in [Lifecycles -> IPs \cup {NoIP}]
  /\ returning \in [Lifecycles -> {"no", "delayed", "notified"}]

ReqTypeOK == req \in [Reqs -> Requests]

LEMMA LifecycleFacts == NoLifecycle \notin Lifecycles /\ Lifecycles \subseteq Nat \ {0}
  BY NodeAssumption DEF NoLifecycle, Lifecycles

LEMMA IdleType == Idle \in Requests
  BY Zenon DEF Idle, Requests, Labels

LEMMA GotoType ==
  ASSUME ReqTypeOK, NEW r \in Reqs, NEW label \in Labels, Goto(r, label)
  PROVE  /\ ReqTypeOK'
         /\ req'[r].pc = label
         /\ req'[r].op = req[r].op /\ req'[r].s = req[r].s
         /\ req'[r].old = req[r].old /\ req'[r].new = req[r].new
         /\ \A q \in Reqs \ {r} : req'[q] = req[q]
  BY Zenon DEF ReqTypeOK, Goto, Requests

LEMMA BackToIdle ==
  ASSUME ReqTypeOK, NEW r \in Reqs, req' = [req EXCEPT ![r] = Idle]
  PROVE  /\ ReqTypeOK'
         /\ req'[r].pc = "idle" /\ req'[r].op = "none" /\ req'[r].s = "none"
         /\ req'[r].old = NoLifecycle /\ req'[r].new = NoLifecycle
         /\ \A q \in Reqs \ {r} : req'[q] = req[q]
  BY IdleType, Zenon DEF ReqTypeOK, Idle

(* How a handler goes on: to another label, or back to idle if it holds no *)
(* permit.                                                                 *)
Goes(c, d, L) ==
  \/ d.pc \in L /\ d.op = c.op /\ d.s = c.s /\ d.old = c.old /\ d.new = c.new
  \/ /\ c.op \notin PermitOps /\ "return" \in L
     /\ d.pc = "idle" /\ d.op = "none" /\ d.s = "none"
     /\ d.old = NoLifecycle /\ d.new = NoLifecycle

Moves(r, L) ==
  /\ ReqTypeOK'
  /\ \A q \in Reqs \ {r} : req'[q] = req[q]
  /\ Goes(req[r], req'[r], L)

LEMMA MovesMore ==
  ASSUME NEW r, NEW K, NEW L, Moves(r, K), K \subseteq L
  PROVE  Moves(r, L)
  BY Zenon DEF Moves, Goes

LEMMA GotoMoves ==
  ASSUME ReqTypeOK, NEW r \in Reqs, NEW label \in Labels, Goto(r, label)
  PROVE  Moves(r, {label})
  BY GotoType, Zenon DEF Moves, Goes

LEMMA ReturnMoves ==
  ASSUME ReqTypeOK, NEW r \in Reqs, Return(r)
  PROVE  Moves(r, {"return"})
<1>1. CASE req[r].op \in PermitOps
  BY <1>1, GotoType, Zenon DEF Return, Moves, Goes, Labels
<1>2. CASE req[r].op \notin PermitOps
  BY <1>2, BackToIdle, Zenon DEF Return, Moves, Goes
<1> QED
  BY <1>1, <1>2, Zenon

LEMMA FailMoves ==
  ASSUME ReqTypeOK, NEW r \in Reqs, Fail(r)
  PROVE  Moves(r, {"stop", "return"}) /\ (req'[r].pc = "stop" <=> req[r].op = "checkpoint")
<1>1. CASE req[r].op = "checkpoint"
  BY <1>1, GotoType, Zenon DEF Fail, Moves, Goes, Labels
<1>2. CASE req[r].op # "checkpoint"
  <2>1. Moves(r, {"return"})
    BY <1>2, ReturnMoves, Zenon DEF Fail
  <2> QED
    BY <1>2, <2>1, Zenon DEF Moves, Goes
<1> QED
  BY <1>1, <1>2, Zenon

LEMMA AfterLiveMoves ==
  ASSUME ReqTypeOK, NEW r \in Reqs, AfterLive(r)
  PROVE  Moves(r, {"upload", "return"}) /\ (req'[r].pc = "upload" <=> req[r].op = "checkpoint")
<1>1. CASE req[r].op = "checkpoint"
  BY <1>1, GotoType, Zenon DEF AfterLive, Moves, Goes, Labels
<1>2. CASE req[r].op # "checkpoint"
  <2>1. Moves(r, {"return"})
    BY <1>2, ReturnMoves, Zenon DEF AfterLive
  <2> QED
    BY <1>2, <2>1, Zenon DEF Moves, Goes
<1> QED
  BY <1>1, <1>2, Zenon

(* Where each step of a handler leads. *)
LEMMA MarkOldMoves ==
  ASSUME ReqTypeOK, NEW r \in Reqs, MarkOld(r)
  PROVE  /\ req[r].pc = "mark" /\ Moves(r, {"return", "stop", "snapshot"})
<1>1. req[r].pc = "mark" /\ (Return(r) \/ Goto(r, "stop") \/ Goto(r, "snapshot"))
  BY Zenon DEF MarkOld
<1>2. CASE Return(r)
  <2>1. Moves(r, {"return"})
    BY <1>2, ReturnMoves, Zenon
  <2> QED
    BY <1>1, <2>1, MovesMore
<1>3. CASE Goto(r, "stop")
  <2>1. Moves(r, {"stop"})
    BY <1>3, GotoMoves, Zenon DEF Labels
  <2> QED
    BY <1>1, <2>1, MovesMore
<1>4. CASE Goto(r, "snapshot")
  <2>1. Moves(r, {"snapshot"})
    BY <1>4, GotoMoves, Zenon DEF Labels
  <2> QED
    BY <1>1, <2>1, MovesMore
<1> QED
  BY <1>1, <1>2, <1>3, <1>4, Zenon

LEMMA StopOldMoves ==
  ASSUME ReqTypeOK, NEW r \in Reqs, StopOld(r)
  PROVE  /\ req[r].pc = "stop" /\ Moves(r, {"return"})
  BY ReturnMoves, Zenon DEF StopOld

LEMMA SnapshotMoves ==
  ASSUME ReqTypeOK, NEW r \in Reqs, Snapshot(r)
  PROVE  /\ req[r].pc = "snapshot" /\ Moves(r, {"stop", "export"})
<1>1. req[r].pc = "snapshot" /\ (Goto(r, "stop") \/ Goto(r, "export"))
  BY Zenon DEF Snapshot
<1>2. CASE Goto(r, "stop")
  <2>1. Moves(r, {"stop"})
    BY <1>2, GotoMoves, Zenon DEF Labels
  <2> QED
    BY <1>1, <2>1, MovesMore
<1>3. CASE Goto(r, "export")
  <2>1. Moves(r, {"export"})
    BY <1>3, GotoMoves, Zenon DEF Labels
  <2> QED
    BY <1>1, <2>1, MovesMore
<1> QED
  BY <1>1, <1>2, <1>3, Zenon

LEMMA ExportedMoves ==
  ASSUME ReqTypeOK, NEW r \in Reqs, Exported(r)
  PROVE  /\ req[r].pc = "export" /\ Moves(r, {"stop", "boot"})
         /\ req'[r].pc = "boot" => req[r].op = "checkpoint"
<1>1. req[r].pc = "export" /\ (Goto(r, "stop") \/ (Goto(r, "boot") /\ req[r].op = "checkpoint"))
  BY Zenon DEF Exported
<1>2. CASE Goto(r, "stop")
  <2>1. Moves(r, {"stop"})
    BY <1>2, GotoMoves, Zenon DEF Labels
  <2>2. req'[r].pc = "boot" => req[r].op = "checkpoint"
    BY <1>2, <2>1, Zenon DEF Moves, Goes
  <2> QED
    BY <1>1, <2>1, <2>2, MovesMore
<1>3. CASE Goto(r, "boot") /\ req[r].op = "checkpoint"
  <2>1. Moves(r, {"boot"})
    BY <1>3, GotoMoves, Zenon DEF Labels
  <2>2. req'[r].pc = "boot" => req[r].op = "checkpoint"
    BY <1>3, <2>1, Zenon DEF Moves, Goes
  <2> QED
    BY <1>1, <2>1, <2>2, MovesMore
<1> QED
  BY <1>1, <1>2, <1>3, Zenon

LEMMA BeginInPlaceMoves ==
  ASSUME ReqTypeOK, NEW r \in Reqs, BeginInPlace(r)
  PROVE  /\ req[r].pc = "begin" /\ Moves(r, {"return", "snapshot"})
<1>1. req[r].pc = "begin" /\ (Return(r) \/ Goto(r, "snapshot"))
  BY Zenon DEF BeginInPlace
<1>2. CASE Return(r)
  <2>1. Moves(r, {"return"})
    BY <1>2, ReturnMoves, Zenon
  <2> QED
    BY <1>1, <2>1, MovesMore
<1>3. CASE Goto(r, "snapshot")
  <2>1. Moves(r, {"snapshot"})
    BY <1>3, GotoMoves, Zenon DEF Labels
  <2> QED
    BY <1>1, <2>1, MovesMore
<1> QED
  BY <1>1, <1>2, <1>3, Zenon

LEMMA InPlaceMoves ==
  ASSUME ReqTypeOK, NEW r \in Reqs, InPlace(r)
  PROVE  /\ req[r].pc = "snapshot" /\ Moves(r, {"return", "lost"})
<1>1. req[r].pc = "snapshot" /\ (Return(r) \/ Goto(r, "lost"))
  BY Zenon DEF InPlace, EndInPlace
<1>2. CASE Return(r)
  <2>1. Moves(r, {"return"})
    BY <1>2, ReturnMoves, Zenon
  <2> QED
    BY <1>1, <2>1, MovesMore
<1>3. CASE Goto(r, "lost")
  <2>1. Moves(r, {"lost"})
    BY <1>3, GotoMoves, Zenon DEF Labels
  <2> QED
    BY <1>1, <2>1, MovesMore
<1> QED
  BY <1>1, <1>2, <1>3, Zenon

LEMMA LostMoves ==
  ASSUME ReqTypeOK, NEW r \in Reqs, Lost(r)
  PROVE  /\ req[r].pc = "lost" /\ Moves(r, {"return"})
<1>1. req[r].pc = "lost" /\ (Return(r))
  BY Zenon DEF Lost, EndInPlace
<1>2. CASE Return(r)
  BY <1>1, <1>2, ReturnMoves, Zenon
<1> QED
  BY <1>1, <1>2, Zenon

LEMMA NoResourcesMoves ==
  ASSUME ReqTypeOK, NEW r \in Reqs, NoResources(r)
  PROVE  /\ req[r].pc = "boot" /\ Moves(r, {"stop", "return"})
         /\ req'[r].pc = "stop" <=> req[r].op = "checkpoint"
  BY FailMoves, Zenon DEF NoResources

LEMMA BootFailsMoves ==
  ASSUME ReqTypeOK, NEW r \in Reqs, BootFails(r)
  PROVE  /\ req[r].pc = "booting" /\ Moves(r, {"stop", "return"})
         /\ req'[r].pc = "stop" <=> req[r].op = "checkpoint"
  BY FailMoves, Zenon DEF BootFails

LEMMA BootedMoves ==
  ASSUME ReqTypeOK, NEW r \in Reqs, Booted(r)
  PROVE  /\ req[r].pc = "booting" /\ Moves(r, {"insert", "upgrade"})
<1>1. req[r].pc = "booting" /\ (Goto(r, "insert") \/ Goto(r, "upgrade"))
  BY Zenon DEF Booted
<1>2. CASE Goto(r, "insert")
  <2>1. Moves(r, {"insert"})
    BY <1>2, GotoMoves, Zenon DEF Labels
  <2> QED
    BY <1>1, <2>1, MovesMore
<1>3. CASE Goto(r, "upgrade")
  <2>1. Moves(r, {"upgrade"})
    BY <1>3, GotoMoves, Zenon DEF Labels
  <2> QED
    BY <1>1, <2>1, MovesMore
<1> QED
  BY <1>1, <1>2, <1>3, Zenon

LEMMA UpgradeMoves ==
  ASSUME ReqTypeOK, NEW r \in Reqs, Upgrade(r)
  PROVE  /\ req[r].pc = "upgrade" /\ Moves(r, {"stop", "return", "insert"})
         /\ req'[r].pc = "stop" => req[r].op = "checkpoint"
<1>1. req[r].pc = "upgrade" /\ (Fail(r) \/ Goto(r, "insert"))
  BY Zenon DEF Upgrade, Discard
<1>2. CASE Fail(r)
  <2>1. Moves(r, {"stop", "return"})
    BY <1>2, FailMoves, Zenon
  <2>2. req'[r].pc = "stop" => req[r].op = "checkpoint"
    BY <1>2, <2>1, FailMoves, Zenon DEF Moves, Goes
  <2> QED
    BY <1>1, <2>1, <2>2, MovesMore
<1>3. CASE Goto(r, "insert")
  <2>1. Moves(r, {"insert"})
    BY <1>3, GotoMoves, Zenon DEF Labels
  <2>2. req'[r].pc = "stop" => req[r].op = "checkpoint"
    BY <1>3, <2>1, Zenon DEF Moves, Goes
  <2> QED
    BY <1>1, <2>1, <2>2, MovesMore
<1> QED
  BY <1>1, <1>2, <1>3, Zenon

LEMMA MarkLiveMoves ==
  ASSUME ReqTypeOK, NEW r \in Reqs, MarkLive(r)
  PROVE  /\ req[r].pc = "insert" /\ Moves(r, {"track", "upload", "return"})
         /\ req'[r].pc = "upload" => req[r].op = "checkpoint"
<1>1. req[r].pc = "insert" /\ (AfterLive(r) \/ Goto(r, "track"))
  BY Zenon DEF MarkLive
<1>2. CASE AfterLive(r)
  <2>1. Moves(r, {"upload", "return"})
    BY <1>2, AfterLiveMoves, Zenon
  <2>2. req'[r].pc = "upload" => req[r].op = "checkpoint"
    BY <1>2, <2>1, AfterLiveMoves, Zenon DEF Moves, Goes
  <2> QED
    BY <1>1, <2>1, <2>2, MovesMore
<1>3. CASE Goto(r, "track")
  <2>1. Moves(r, {"track"})
    BY <1>3, GotoMoves, Zenon DEF Labels
  <2>2. req'[r].pc = "upload" => req[r].op = "checkpoint"
    BY <1>3, <2>1, Zenon DEF Moves, Goes
  <2> QED
    BY <1>1, <2>1, <2>2, MovesMore
<1> QED
  BY <1>1, <1>2, <1>3, Zenon

LEMMA TrackMoves ==
  ASSUME ReqTypeOK, NEW r \in Reqs, Track(r)
  PROVE  /\ req[r].pc = "track" /\ Moves(r, {"upload", "return"})
         /\ req'[r].pc = "upload" <=> req[r].op = "checkpoint"
  BY AfterLiveMoves, Zenon DEF Track

LEMMA UploadMoves ==
  ASSUME ReqTypeOK, NEW r \in Reqs, Upload(r)
  PROVE  /\ req[r].pc = "upload" /\ Moves(r, {"stop", "return"})
<1>1. req[r].pc = "upload" /\ (Fail(r) \/ Goto(r, "stop"))
  BY Zenon DEF Upload, Discard
<1>2. CASE Fail(r)
  BY <1>1, <1>2, FailMoves, Zenon
<1>3. CASE Goto(r, "stop")
  <2>1. Moves(r, {"stop"})
    BY <1>3, GotoMoves, Zenon DEF Labels
  <2> QED
    BY <1>1, <2>1, MovesMore
<1> QED
  BY <1>1, <1>2, <1>3, Zenon

(* Any step but the one that begins a boot. *)
OnLabels ==
  {"return", "stop", "snapshot", "export", "boot", "lost", "insert", "upgrade", "track", "upload"}

LEMMA HandlerMoves ==
  ASSUME ReqTypeOK, NEW r \in Reqs, Handler(r), ~Boot(r)
  PROVE  Moves(r, OnLabels) /\ req[r].pc \notin {"idle", "acquire"}
<1>1. CASE MarkOld(r)
  <2>1. req[r].pc = "mark" /\ Moves(r, {"return", "stop", "snapshot"})
    BY <1>1, MarkOldMoves, Zenon
  <2>2. {"return", "stop", "snapshot"} \subseteq OnLabels
    BY Zenon DEF OnLabels
  <2> QED
    BY <2>1, <2>2, MovesMore, Zenon
<1>2. CASE StopOld(r)
  <2>1. req[r].pc = "stop" /\ Moves(r, {"return"})
    BY <1>2, StopOldMoves, Zenon
  <2>2. {"return"} \subseteq OnLabels
    BY Zenon DEF OnLabels
  <2> QED
    BY <2>1, <2>2, MovesMore, Zenon
<1>3. CASE Snapshot(r)
  <2>1. req[r].pc = "snapshot" /\ Moves(r, {"stop", "export"})
    BY <1>3, SnapshotMoves, Zenon
  <2>2. {"stop", "export"} \subseteq OnLabels
    BY Zenon DEF OnLabels
  <2> QED
    BY <2>1, <2>2, MovesMore, Zenon
<1>4. CASE Exported(r)
  <2>1. req[r].pc = "export" /\ Moves(r, {"stop", "boot"})
    BY <1>4, ExportedMoves, Zenon
  <2>2. {"stop", "boot"} \subseteq OnLabels
    BY Zenon DEF OnLabels
  <2> QED
    BY <2>1, <2>2, MovesMore, Zenon
<1>5. CASE BeginInPlace(r)
  <2>1. req[r].pc = "begin" /\ Moves(r, {"return", "snapshot"})
    BY <1>5, BeginInPlaceMoves, Zenon
  <2>2. {"return", "snapshot"} \subseteq OnLabels
    BY Zenon DEF OnLabels
  <2> QED
    BY <2>1, <2>2, MovesMore, Zenon
<1>6. CASE InPlace(r)
  <2>1. req[r].pc = "snapshot" /\ Moves(r, {"return", "lost"})
    BY <1>6, InPlaceMoves, Zenon
  <2>2. {"return", "lost"} \subseteq OnLabels
    BY Zenon DEF OnLabels
  <2> QED
    BY <2>1, <2>2, MovesMore, Zenon
<1>7. CASE Lost(r)
  <2>1. req[r].pc = "lost" /\ Moves(r, {"return"})
    BY <1>7, LostMoves, Zenon
  <2>2. {"return"} \subseteq OnLabels
    BY Zenon DEF OnLabels
  <2> QED
    BY <2>1, <2>2, MovesMore, Zenon
<1>8. CASE NoResources(r)
  <2>1. req[r].pc = "boot" /\ Moves(r, {"stop", "return"})
    BY <1>8, NoResourcesMoves, Zenon
  <2>2. {"stop", "return"} \subseteq OnLabels
    BY Zenon DEF OnLabels
  <2> QED
    BY <2>1, <2>2, MovesMore, Zenon
<1>9. CASE BootFails(r)
  <2>1. req[r].pc = "booting" /\ Moves(r, {"stop", "return"})
    BY <1>9, BootFailsMoves, Zenon
  <2>2. {"stop", "return"} \subseteq OnLabels
    BY Zenon DEF OnLabels
  <2> QED
    BY <2>1, <2>2, MovesMore, Zenon
<1>10. CASE Booted(r)
  <2>1. req[r].pc = "booting" /\ Moves(r, {"insert", "upgrade"})
    BY <1>10, BootedMoves, Zenon
  <2>2. {"insert", "upgrade"} \subseteq OnLabels
    BY Zenon DEF OnLabels
  <2> QED
    BY <2>1, <2>2, MovesMore, Zenon
<1>11. CASE Upgrade(r)
  <2>1. req[r].pc = "upgrade" /\ Moves(r, {"stop", "return", "insert"})
    BY <1>11, UpgradeMoves, Zenon
  <2>2. {"stop", "return", "insert"} \subseteq OnLabels
    BY Zenon DEF OnLabels
  <2> QED
    BY <2>1, <2>2, MovesMore, Zenon
<1>12. CASE MarkLive(r)
  <2>1. req[r].pc = "insert" /\ Moves(r, {"track", "upload", "return"})
    BY <1>12, MarkLiveMoves, Zenon
  <2>2. {"track", "upload", "return"} \subseteq OnLabels
    BY Zenon DEF OnLabels
  <2> QED
    BY <2>1, <2>2, MovesMore, Zenon
<1>13. CASE Track(r)
  <2>1. req[r].pc = "track" /\ Moves(r, {"upload", "return"})
    BY <1>13, TrackMoves, Zenon
  <2>2. {"upload", "return"} \subseteq OnLabels
    BY Zenon DEF OnLabels
  <2> QED
    BY <2>1, <2>2, MovesMore, Zenon
<1>14. CASE Upload(r)
  <2>1. req[r].pc = "upload" /\ Moves(r, {"stop", "return"})
    BY <1>14, UploadMoves, Zenon
  <2>2. {"stop", "return"} \subseteq OnLabels
    BY Zenon DEF OnLabels
  <2> QED
    BY <2>1, <2>2, MovesMore, Zenon
<1> QED
  BY <1>1, <1>2, <1>3, <1>4, <1>5, <1>6, <1>7, <1>8, <1>9, <1>10, <1>11, <1>12, <1>13, <1>14, Zenon
     DEF Handler

LEMMA BootMoves ==
  ASSUME ReqTypeOK, MapVmTypeOK, NEW r \in Reqs, Boot(r)
  PROVE  /\ ReqTypeOK'
         /\ \A q \in Reqs \ {r} : req'[q] = req[q]
         /\ req'[r].pc = "booting" /\ req'[r].new = boots + 1 /\ boots + 1 \in Lifecycles
         /\ req'[r].op = req[r].op /\ req'[r].s = req[r].s /\ req'[r].old = req[r].old
<1>1. boots + 1 \in Lifecycles
  BY NodeAssumption DEF MapVmTypeOK, Boot, Lifecycles
<1> DEFINE l == boots + 1
<1>2. req' = [req EXCEPT ![r].pc = "booting", ![r].new = l]
  BY Zenon DEF Boot
<1>3. l \in Lifecycles
  BY <1>1, Zenon
<1> HIDE DEF l
<1>4. /\ ReqTypeOK'
      /\ \A q \in Reqs \ {r} : req'[q] = req[q]
      /\ req'[r].pc = "booting" /\ req'[r].new = l
      /\ req'[r].op = req[r].op /\ req'[r].s = req[r].s /\ req'[r].old = req[r].old
  BY <1>2, <1>3, ZenonT(40) DEF ReqTypeOK, Requests, Labels
<1> QED
  BY <1>1, <1>4, Zenon DEF l

(* A handler begins, or asks for its permit. *)
Begins(r, o, label) ==
  /\ ReqTypeOK'
  /\ \A q \in Reqs \ {r} : req'[q] = req[q]
  /\ req[r] = Idle
  /\ req'[r].pc = label /\ req'[r].op = o /\ req'[r].new = NoLifecycle

LEMMA CreateBegins ==
  ASSUME ReqTypeOK, NEW r \in Reqs, NEW s \in SandboxIDs, NEW o \in StartOps, Create(r, s, o)
  PROVE  Begins(r, o, "acquire") /\ req'[r].s = s /\ req'[r].old = NoLifecycle
  BY Zenon DEF Create, Begins, ReqTypeOK, Requests, Labels, Idle

LEMMA GetBegins ==
  ASSUME ReqTypeOK, MapTypeOK, NEW r \in Reqs, NEW s \in SandboxIDs, NEW o \in LookupOps,
         Get(r, s, o)
  PROVE  /\ Begins(r, o, IF o \in PermitOps THEN "acquire" ELSE "mark")
         /\ req'[r].s = s /\ req'[r].old = live[s] /\ live[s] # NoLifecycle
  BY Zenon DEF Get, Begins, ReqTypeOK, MapTypeOK, Requests, Labels, Idle

(* Which handler gets where, and what it has by then. *)
WhereIs(c) ==
  /\ c.op # "none" => c.s \in SandboxIDs
  /\ c.op \in LookupOps => c.old \in Lifecycles
  /\ c.pc = "acquire" => c.op \in PermitOps
  /\ c.pc = "mark" => c.op \in {"delete", "pause", "checkpoint"}
  /\ c.pc \in {"begin", "lost"} => c.op = "inPlace"
  /\ c.pc \in {"stop", "export"} => c.op \in {"delete", "pause", "checkpoint"}
  /\ c.pc = "snapshot" => c.op \in LookupOps
  /\ c.pc = "upload" => c.op = "checkpoint"
  /\ c.pc \in {"boot", "booting", "upgrade", "insert", "track"} =>
       c.op \in StartOps \cup {"checkpoint"}
  /\ c.pc \in {"booting", "upgrade", "insert", "track", "upload"} => c.new \in Lifecycles

Where == \A r \in Reqs : WhereIs(req[r])

HandlerInv == ReqTypeOK /\ MapVmTypeOK /\ Where

LEMMA PermitMoves ==
  ASSUME ReqTypeOK, NEW r \in Reqs, WhereIs(req[r]), Permit(r)
  PROVE  /\ ReqTypeOK'
         /\ \A q \in Reqs \ {r} : req'[q] = req[q]
         /\ \/ /\ sem'[r] = "held" /\ req'[r].pc = AfterPermit(req[r].op)
               /\ req'[r].op = req[r].op /\ req'[r].s = req[r].s
               /\ req'[r].old = req[r].old /\ req'[r].new = req[r].new
            \/ /\ sem'[r] # "held" /\ req'[r] = req[r]
            \/ /\ sem'[r] # "held" /\ req'[r].pc = "idle" /\ req'[r].op = "none"
               /\ req'[r].s = "none" /\ req'[r].old = NoLifecycle /\ req'[r].new = NoLifecycle
<1>1. req[r].op \in PermitOps
  BY Zenon DEF WhereIs, Permit
<1>2. CASE sem'[r] = "held"
  <2>1. Goto(r, AfterPermit(req[r].op))
    BY <1>2, Zenon DEF Permit
  <2>2. AfterPermit(req[r].op) \in Labels
    BY <1>1, Zenon DEF AfterPermit, Labels, PermitOps, StartOps
  <2> QED
    BY <1>2, <2>1, <2>2, GotoType, Zenon
<1>3. CASE sem'[r] = "out"
  <2>1. req' = [req EXCEPT ![r] = Idle]
    BY <1>3, Zenon DEF Permit
  <2>2. sem'[r] # "held"
    BY <1>3, Zenon
  <2> QED
    BY <2>1, <2>2, BackToIdle, Zenon
<1>4. CASE sem'[r] \notin {"held", "out"}
  <2>1. UNCHANGED req
    BY <1>4, Zenon DEF Permit
  <2> QED
    BY <1>4, <2>1, Zenon DEF ReqTypeOK
<1> QED
  BY <1>2, <1>3, <1>4, Zenon

USE DEF StartOps, LookupOps, PermitOps

LEMMA WhereOne ==
  ASSUME Where, NEW r \in Reqs, \A q \in Reqs \ {r} : req'[q] = req[q], WhereIs(req'[r])
  PROVE  Where'
  BY Zenon DEF Where

LEMMA WhereHandler ==
  ASSUME HandlerInv, NEW r \in Reqs, Handler(r)
  PROVE  Where'
<1>1. ReqTypeOK /\ Where /\ WhereIs(req[r])
  BY Zenon DEF HandlerInv, Where
<1>2. ASSUME NEW L, Moves(r, L), WhereIs(req'[r])
      PROVE  Where'
  BY <1>1, <1>2, WhereOne, Zenon DEF Moves
<1>3. CASE MarkOld(r)
  <2>1. req[r].pc = "mark" /\ Moves(r, {"return", "stop", "snapshot"})
    BY <1>1, <1>3, MarkOldMoves, Zenon
  <2>2. WhereIs(req'[r])
    BY <1>1, <2>1, Zenon DEF Moves, Goes, WhereIs
  <2> QED
    BY <1>2, <2>1, <2>2, Zenon
<1>4. CASE StopOld(r)
  <2>1. req[r].pc = "stop" /\ Moves(r, {"return"})
    BY <1>1, <1>4, StopOldMoves, Zenon
  <2>2. WhereIs(req'[r])
    BY <1>1, <2>1, Zenon DEF Moves, Goes, WhereIs
  <2> QED
    BY <1>2, <2>1, <2>2, Zenon
<1>5. CASE Snapshot(r)
  <2>1. req[r].pc = "snapshot" /\ Moves(r, {"stop", "export"}) /\ req[r].op # "inPlace"
    BY <1>1, <1>5, SnapshotMoves, Zenon DEF Snapshot
  <2>2. WhereIs(req'[r])
    BY <1>1, <2>1, Zenon DEF Moves, Goes, WhereIs
  <2> QED
    BY <1>2, <2>1, <2>2, Zenon
<1>6. CASE Exported(r)
  <2>1. req[r].pc = "export" /\ Moves(r, {"stop", "boot"}) /\ (req'[r].pc = "boot" => req[r].op = "checkpoint")
    BY <1>1, <1>6, ExportedMoves, Zenon
  <2>2. WhereIs(req'[r])
    BY <1>1, <2>1, Zenon DEF Moves, Goes, WhereIs
  <2> QED
    BY <1>2, <2>1, <2>2, Zenon
<1>7. CASE BeginInPlace(r)
  <2>1. req[r].pc = "begin" /\ Moves(r, {"return", "snapshot"})
    BY <1>1, <1>7, BeginInPlaceMoves, Zenon
  <2>2. WhereIs(req'[r])
    BY <1>1, <2>1, Zenon DEF Moves, Goes, WhereIs
  <2> QED
    BY <1>2, <2>1, <2>2, Zenon
<1>8. CASE InPlace(r)
  <2>1. req[r].pc = "snapshot" /\ Moves(r, {"return", "lost"}) /\ req[r].op = "inPlace"
    BY <1>1, <1>8, InPlaceMoves, Zenon DEF InPlace
  <2>2. WhereIs(req'[r])
    BY <1>1, <2>1, Zenon DEF Moves, Goes, WhereIs
  <2> QED
    BY <1>2, <2>1, <2>2, Zenon
<1>9. CASE Lost(r)
  <2>1. req[r].pc = "lost" /\ Moves(r, {"return"})
    BY <1>1, <1>9, LostMoves, Zenon
  <2>2. WhereIs(req'[r])
    BY <1>1, <2>1, Zenon DEF Moves, Goes, WhereIs
  <2> QED
    BY <1>2, <2>1, <2>2, Zenon
<1>10. CASE NoResources(r)
  <2>1. req[r].pc = "boot" /\ Moves(r, {"stop", "return"}) /\ (req'[r].pc = "stop" <=> req[r].op = "checkpoint")
    BY <1>1, <1>10, NoResourcesMoves, Zenon
  <2>2. WhereIs(req'[r])
    BY <1>1, <2>1, Zenon DEF Moves, Goes, WhereIs
  <2> QED
    BY <1>2, <2>1, <2>2, Zenon
<1>11. CASE BootFails(r)
  <2>1. req[r].pc = "booting" /\ Moves(r, {"stop", "return"}) /\ (req'[r].pc = "stop" <=> req[r].op = "checkpoint")
    BY <1>1, <1>11, BootFailsMoves, Zenon
  <2>2. WhereIs(req'[r])
    BY <1>1, <2>1, Zenon DEF Moves, Goes, WhereIs
  <2> QED
    BY <1>2, <2>1, <2>2, Zenon
<1>12. CASE Booted(r)
  <2>1. req[r].pc = "booting" /\ Moves(r, {"insert", "upgrade"})
    BY <1>1, <1>12, BootedMoves, Zenon
  <2>2. WhereIs(req'[r])
    BY <1>1, <2>1, Zenon DEF Moves, Goes, WhereIs
  <2> QED
    BY <1>2, <2>1, <2>2, Zenon
<1>13. CASE Upgrade(r)
  <2>1. req[r].pc = "upgrade" /\ Moves(r, {"stop", "return", "insert"}) /\ (req'[r].pc = "stop" => req[r].op = "checkpoint")
    BY <1>1, <1>13, UpgradeMoves, Zenon
  <2>2. WhereIs(req'[r])
    BY <1>1, <2>1, Zenon DEF Moves, Goes, WhereIs
  <2> QED
    BY <1>2, <2>1, <2>2, Zenon
<1>14. CASE MarkLive(r)
  <2>1. req[r].pc = "insert" /\ Moves(r, {"track", "upload", "return"}) /\ (req'[r].pc = "upload" => req[r].op = "checkpoint")
    BY <1>1, <1>14, MarkLiveMoves, Zenon
  <2>2. WhereIs(req'[r])
    BY <1>1, <2>1, Zenon DEF Moves, Goes, WhereIs
  <2> QED
    BY <1>2, <2>1, <2>2, Zenon
<1>15. CASE Track(r)
  <2>1. req[r].pc = "track" /\ Moves(r, {"upload", "return"}) /\ (req'[r].pc = "upload" <=> req[r].op = "checkpoint")
    BY <1>1, <1>15, TrackMoves, Zenon
  <2>2. WhereIs(req'[r])
    BY <1>1, <2>1, Zenon DEF Moves, Goes, WhereIs
  <2> QED
    BY <1>2, <2>1, <2>2, Zenon
<1>16. CASE Upload(r)
  <2>1. req[r].pc = "upload" /\ Moves(r, {"stop", "return"})
    BY <1>1, <1>16, UploadMoves, Zenon
  <2>2. WhereIs(req'[r])
    BY <1>1, <2>1, Zenon DEF Moves, Goes, WhereIs
  <2> QED
    BY <1>2, <2>1, <2>2, Zenon
<1>17. CASE Boot(r)
  <2>1. WhereIs(req'[r])
    <3>1. req[r].pc = "boot"
      BY <1>17, Zenon DEF Boot
    <3> QED
      BY <1>1, <1>17, <3>1, BootMoves, Zenon DEF WhereIs, HandlerInv
  <2> QED
    BY <1>1, <1>17, <2>1, BootMoves, WhereOne, Zenon DEF HandlerInv
<1> QED
  BY <1>3, <1>4, <1>5, <1>6, <1>7, <1>8, <1>9, <1>10, <1>11, <1>12, <1>13, <1>14, <1>15, <1>16, <1>17, Zenon
     DEF Handler

(* What leaves the handlers alone. *)
LEMMA NotHandlers ==
  ASSUME \/ \E l \in Lifecycles : Teardown(l) \/ Crash(l)
         \/ \E r \in Reqs : Sleep(r) \/ TimesOut(r)
         \/ \E n \in Limits : RefreshLimit(n)
  PROVE  UNCHANGED req
  BY Zenon
     DEF Teardown, Killed, Crash, Exit, Cleanup, Close, Notify, Recycle, Sleep, TimesOut,
         RefreshLimit

LEMMA WhereStep ==
  ASSUME HandlerInv, Next
  PROVE  Where'
<1>1. ReqTypeOK /\ MapTypeOK /\ Where
  BY Zenon DEF HandlerInv, MapVmTypeOK
<1>2. ASSUME NEW r \in Reqs, NEW s \in SandboxIDs, NEW o \in StartOps, Create(r, s, o)
      PROVE  Where'
  <2>1. WhereIs(req'[r])
    BY <1>1, <1>2, CreateBegins, Zenon DEF Begins, WhereIs
  <2> QED
    BY <1>1, <1>2, <2>1, CreateBegins, WhereOne, Zenon DEF Begins
<1>3. ASSUME NEW r \in Reqs, NEW s \in SandboxIDs, NEW o \in LookupOps, Get(r, s, o)
      PROVE  Where'
  <2>1. WhereIs(req'[r])
    BY <1>1, <1>3, GetBegins DEF Begins, WhereIs, MapTypeOK
  <2> QED
    BY <1>1, <1>3, <2>1, GetBegins, WhereOne DEF Begins
<1>4. ASSUME NEW r \in Reqs, Permit(r)
      PROVE  Where'
  <2>1. WhereIs(req[r])
    BY <1>1, Zenon DEF Where
  <2>2. req[r].pc = "acquire"
    BY <1>4, Zenon DEF Permit
  <2>3. WhereIs(req'[r])
    BY <1>1, <1>4, <2>1, <2>2, PermitMoves, Zenon DEF AfterPermit, WhereIs
  <2> QED
    BY <1>1, <1>4, <2>1, <2>3, PermitMoves, WhereOne, Zenon
<1>5. ASSUME NEW r \in Reqs, GiveBack(r)
      PROVE  Where'
  <2>1. WhereIs(req'[r]) /\ \A q \in Reqs \ {r} : req'[q] = req[q]
    BY <1>1, <1>5, BackToIdle, Zenon DEF GiveBack, WhereIs
  <2> QED
    BY <1>1, <2>1, WhereOne, Zenon
<1>6. CASE UNCHANGED req
  BY <1>1, <1>6, Zenon DEF Where
<1> QED
  BY <1>2, <1>3, <1>4, <1>5, <1>6, WhereHandler, NotHandlers, Zenon DEF Next, Request

(* The registry and the VMs keep their types. *)
LEMMA StopType ==
  ASSUME MapVmTypeOK, NEW l \in Lifecycles, Stop(l)
  PROVE  stopping' \subseteq Lifecycles
  BY Zenon DEF MapVmTypeOK, Stop

LEMMA MarkStoppingType ==
  ASSUME MapVmTypeOK, NEW s, NEW l, MarkStopping(s, l)
  PROVE  live' \in [SandboxIDs -> Lifecycles \cup {NoLifecycle}]
<1>1. live \in [SandboxIDs -> Lifecycles \cup {NoLifecycle}]
  BY Zenon DEF MapVmTypeOK, MapTypeOK
<1> QED
  BY <1>1, ZenonT(30) DEF MarkStopping

LEMMA VmTypeHandler ==
  ASSUME HandlerInv, NEW r \in Reqs, Handler(r)
  PROVE  MapVmTypeOK'
<1>1. MapVmTypeOK /\ WhereIs(req[r])
  BY Zenon DEF HandlerInv, Where
<1> USE <1>1 DEF mapVars, vmVars
<1> USE DEF MapVmTypeOK, MapTypeOK
<1>2. CASE MarkOld(r)
  BY <1>2, MarkStoppingType, Zenon DEF MarkOld
<1>3. CASE StopOld(r)
  BY <1>3, StopType, Zenon DEF StopOld, WhereIs
<1>4. CASE Snapshot(r)
  BY <1>4, StopType, Zenon DEF Snapshot, WhereIs
<1>5. CASE Exported(r)
  BY <1>5, Zenon DEF Exported
<1>6. CASE BeginInPlace(r)
  BY <1>6 DEF BeginInPlace, WhereIs
<1>7. CASE InPlace(r)
  BY <1>7, StopType, Zenon DEF InPlace, WhereIs, EndInPlace
<1>8. CASE Lost(r)
  BY <1>8, Zenon DEF Lost, EndInPlace
<1>9. CASE NoResources(r)
  BY <1>9, Zenon DEF NoResources
<1>10. CASE BootFails(r)
  BY <1>10, MarkStoppingType, Zenon DEF BootFails, WhereIs
<1>11. CASE Booted(r)
  BY <1>11, Zenon DEF Booted, WhereIs
<1>12. CASE Upgrade(r)
  BY <1>12, MarkStoppingType, StopType, Zenon DEF Upgrade, WhereIs, Discard
<1>13. CASE MarkLive(r)
  BY <1>13, Zenon DEF MarkLive, WhereIs, InsertIfAbsent
<1>14. CASE Track(r)
  BY <1>14, Zenon DEF Track, WhereIs, TrackLifecycle
<1>15. CASE Upload(r)
  BY <1>15, MarkStoppingType, StopType, Zenon DEF Upload, WhereIs, Discard
<1>16. CASE Boot(r)
  <2>1. boots + 1 \in Lifecycles /\ boots' = boots + 1 /\ boots' \in 0 .. MaxBoots
    BY <1>16, NodeAssumption DEF Boot, Lifecycles
  <2>2. req[r].s \in SandboxIDs
    BY <1>16, Zenon DEF Boot, WhereIs
  <2> QED
    BY <1>16, <2>1, <2>2 DEF Boot, AssignNetwork, FreeIPs
<1> QED
  BY <1>2, <1>3, <1>4, <1>5, <1>6, <1>7, <1>8, <1>9, <1>10, <1>11, <1>12, <1>13, <1>14, <1>15, 
        <1>16, Zenon DEF Handler

LEMMA VmTypeTeardown ==
  ASSUME MapVmTypeOK, NEW l \in Lifecycles, Teardown(l) \/ Crash(l)
  PROVE  MapVmTypeOK'
<1> USE DEF MapVmTypeOK, MapTypeOK, mapVars, vmVars
<1>1. CASE Killed(l) \/ Crash(l)
  BY <1>1, Zenon DEF Killed, Crash, Exit
<1>2. CASE Cleanup(l)
  BY <1>2, MarkStoppingType, Zenon DEF Cleanup
<1>3. CASE Close(l)
  BY <1>3, Zenon DEF Close, MarkStopped
<1>4. CASE Notify(l)
  <2>1. network' = [network EXCEPT ![ip[l]] = NoLifecycle]
    BY <1>4, Zenon DEF Notify, NetworkReleased
  <2>2. network' \in [IPs -> Lifecycles \cup {NoLifecycle}]
    BY <2>1, Zenon
  <2>3. returning' \in [Lifecycles -> {"no", "delayed", "notified"}]
    BY <1>4, Zenon DEF Notify
  <2> QED
    BY <1>4, <2>2, <2>3, Zenon DEF Notify
<1>5. CASE Recycle(l)
  BY <1>5, Zenon DEF Recycle
<1> QED
  BY <1>1, <1>2, <1>3, <1>4, <1>5, Zenon DEF Teardown

LEMMA HandlerNext == HandlerInv /\ [Next]_vars => HandlerInv'
<1> SUFFICES ASSUME HandlerInv, [Next]_vars PROVE HandlerInv'
  BY Zenon
<1>1. ReqTypeOK /\ MapVmTypeOK /\ MapTypeOK /\ Where
  BY Zenon DEF HandlerInv, MapVmTypeOK
<1>2. ASSUME UNCHANGED <<mapVars, vmVars>> PROVE MapVmTypeOK'
  BY <1>1, <1>2, Zenon DEF MapVmTypeOK, MapTypeOK, mapVars, vmVars
<1>3. ASSUME NEW r \in Reqs, NEW s \in SandboxIDs, NEW o \in StartOps, Create(r, s, o)
      PROVE  ReqTypeOK' /\ MapVmTypeOK'
  BY <1>1, <1>2, <1>3, CreateBegins, Zenon DEF Create, Begins
<1>4. ASSUME NEW r \in Reqs, NEW s \in SandboxIDs, NEW o \in LookupOps, Get(r, s, o)
      PROVE  ReqTypeOK' /\ MapVmTypeOK'
  BY <1>1, <1>2, <1>4, GetBegins, Zenon DEF Get, Begins
<1>5. ASSUME NEW r \in Reqs, Permit(r)
      PROVE  ReqTypeOK' /\ MapVmTypeOK'
  BY <1>1, <1>2, <1>5, PermitMoves, Zenon DEF Permit, Where
<1>6. ASSUME NEW r \in Reqs, GiveBack(r)
      PROVE  ReqTypeOK' /\ MapVmTypeOK'
  BY <1>1, <1>2, <1>6, BackToIdle, Zenon DEF GiveBack
<1>7. ASSUME UNCHANGED <<mapVars, req, vmVars>>
      PROVE  ReqTypeOK' /\ MapVmTypeOK'
  BY <1>1, <1>2, <1>7, Zenon DEF ReqTypeOK
<1>8. ASSUME NEW r \in Reqs, Sleep(r) \/ TimesOut(r)
      PROVE  ReqTypeOK' /\ MapVmTypeOK'
  BY <1>7, <1>8, Zenon DEF Sleep, TimesOut
<1>9. ASSUME NEW n \in Limits, RefreshLimit(n)
      PROVE  ReqTypeOK' /\ MapVmTypeOK'
  BY <1>7, <1>9, Zenon DEF RefreshLimit
<1>10. ASSUME NEW r \in Reqs, Handler(r)
       PROVE  ReqTypeOK' /\ MapVmTypeOK'
  <2>1. ReqTypeOK'
    BY <1>1, <1>10, HandlerMoves, BootMoves, Zenon DEF Moves
  <2> QED
    BY <1>10, <2>1, VmTypeHandler, Zenon
<1>11. ASSUME NEW l \in Lifecycles, Teardown(l) \/ Crash(l)
       PROVE  ReqTypeOK' /\ MapVmTypeOK'
  <2>1. ReqTypeOK'
    BY <1>1, <1>11, NotHandlers, Zenon DEF ReqTypeOK
  <2> QED
    BY <1>1, <1>11, <2>1, VmTypeTeardown, Zenon
<1>12. CASE UNCHANGED vars
  BY <1>1, <1>7, <1>12, Zenon DEF vars, HandlerInv, Where
<1>13. CASE Next
  <2>1. ReqTypeOK' /\ MapVmTypeOK'
    BY <1>3, <1>4, <1>5, <1>6, <1>8, <1>9, <1>10, <1>11, <1>13, Zenon DEF Next, Request
  <2> QED
    BY <1>13, <2>1, WhereStep, Zenon DEF HandlerInv
<1> QED
  BY <1>12, <1>13, Zenon

LEMMA HandlerInit == Init => HandlerInv
<1> SUFFICES ASSUME Init PROVE HandlerInv
  BY Zenon
<1>1. ReqTypeOK /\ MapVmTypeOK
  BY NodeAssumption, IdleType DEF Init, MapInit, ReqTypeOK, MapVmTypeOK, MapTypeOK
<1>2. Where
  BY Zenon DEF Init, Where, WhereIs, Idle
<1> QED
  BY <1>1, <1>2, Zenon DEF HandlerInv

(* The types of the registry, as the later modules use them. *)
LEMMA VmTypes ==
  ASSUME HandlerInv
  PROVE  /\ boots \in Nat /\ NoLifecycle = 0 /\ NoLifecycle \notin Lifecycles
         /\ Lifecycles \subseteq Nat
         /\ DOMAIN live = SandboxIDs /\ DOMAIN network = IPs
         /\ DOMAIN sandbox = Lifecycles /\ DOMAIN vm = Lifecycles
         /\ DOMAIN ip = Lifecycles /\ DOMAIN returning = Lifecycles
         /\ \A a \in IPs : network[a] \in Lifecycles \cup {NoLifecycle}
         /\ \A s \in SandboxIDs : live[s] \in Lifecycles \cup {NoLifecycle}
<1>1. MapVmTypeOK
  BY Zenon DEF HandlerInv
<1>2. boots \in Nat /\ NoLifecycle = 0
  BY <1>1, NodeAssumption DEF MapVmTypeOK, NoLifecycle
<1> QED
  BY <1>1, <1>2, LifecycleFacts, Zenon DEF MapVmTypeOK, MapTypeOK

(* A step of a handler other than Boot does not begin to boot. *)
LEMMA OtherMoves ==
  ASSUME HandlerInv, NEW r \in Reqs, Handler(r), ~Boot(r)
  PROVE  Moves(r, OnLabels) /\ \A q \in Reqs \ {r} : req'[q] = req[q]
  BY HandlerMoves, Zenon DEF HandlerInv, Moves
=============================================================================
