------------------------ MODULE ExpirationIndexProofs ------------------------
(***************************************************************************)
(* A stored sandbox is in the expiration index, for every set of sandboxes *)
(* and executions, provided that no Add outlives the sandbox it adds.      *)
(*                                                                         *)
(* Why it holds: the calls that take a member away (the ZREM of Remove and *)
(* the one of the sweep) were decided earlier, on a record that may have   *)
(* been replaced since.  They name an execution that had been added and    *)
(* was no longer stored, and an execution is added only once, so it is not *)
(* stored when they arrive.  The sweep cannot have met an execution that   *)
(* is still being added, since its score lies in the future: that is where *)
(* the proviso is needed.  Without it, only such a sweep does harm, and    *)
(* only to a sandbox that had expired before it was stored.                *)
(***************************************************************************)
EXTENDS ExpirationIndex, TLAPS

Added(x) == add[x].pc \in {"stored", "done"}

(* An execution is stored once, its place is free while it is being added,  *)
(* and an Update in flight keeps its record in place.                       *)
StoreInv ==
  \A x \in Execs :
    /\ ~Added(x) => ~Stored(x)
    /\ add[x].pc = "indexed" =>
         /\ RecordOf(x) = NoRecord
         /\ \A y \in Execs : SandboxOf[y] = SandboxOf[x] /\ add[y].pc = "indexed" => y = x
    /\ x \in rescoring => Stored(x)

(* An Add in flight has a future score. *)
AddInv ==
  \A x \in Execs :
    /\ add[x].pc = "new" => score[x] = 0
    /\ add[x].pc = "indexed" => score[x] = add[x].end /\ now < add[x].end

(* What the pending calls may touch. *)
PendingInv ==
  \A x \in Execs :
    /\ x \in unindexing \cup sweep.stale => Added(x) /\ ~Stored(x)
    /\ x \in sweep.seen \/ sweep.moved[x] # 0 \/ heal.batch[x] # 0 => Added(x)

(* Ends are never zero, the score of an absent member. *)
EndInv ==
  /\ now > 0
  /\ \A id \in Ids : record[id] # NoRecord => record[id].end > 0

IndexInv == AddInv /\ PendingInv /\ EndInv /\ StoredIsIndexed

LEMMA InitType == Init => TypeOK
<1> USE IndexAssumption
<1> SUFFICES ASSUME Init PROVE TypeOK
  BY Zenon
<1>1. NoEnds \in [Execs -> Ends]
  BY DEF NoEnds, Ends
<1>2. /\ sweep \in [pc : {"idle", "ranged", "got", "swept"}, at : Nat, seen : SUBSET Execs,
                   stale : SUBSET Execs, moved : [Execs -> Ends], found : SUBSET Execs]
      /\ heal \in [pc : {"idle", "read", "scored"}, batch : [Execs -> Ends]]
  BY <1>1, Zenon DEF Init
<1>3. add \in [Execs -> [pc : {"new", "indexed", "stored", "done"}, start : Nat, end : Ends]]
  BY DEF Init, AddAt, Ends
<1>4. pruning \in BOOLEAN
  BY Zenon DEF Init
<1> QED
  BY <1>1, <1>2, <1>3, <1>4, Zenon DEF Init, TypeOK

(* The record StartRemoving writes is a record, of the same execution and   *)
(* not from before the clock started.                                       *)
LEMMA LeavingType ==
  ASSUME TypeOK, NEW r \in Sandbox
  PROVE  /\ Leaving(r) \in Sandbox
         /\ Leaving(r).exec = r.exec
         /\ Leaving(r).end = IF IsExpired(r, now) THEN r.end ELSE now
<1>1. ~IsExpired(r, now) => now \in Ends
  BY IndexAssumption DEF IsExpired, Sandbox, Ends, TypeOK
<1> QED
  BY <1>1, Zenon DEF Leaving, Sandbox

LEMMA StepType == TypeOK /\ StoreInv /\ [Next]_vars => TypeOK'
<1> USE IndexAssumption
<1> SUFFICES ASSUME TypeOK, StoreInv, [Next]_vars PROVE TypeOK'
  BY Zenon
<1> USE DEF TypeOK, addVars, bgVars, RecordOf, Stored, Ends
<1>1. CASE \E x \in Execs, end \in Ends : AddMember(x, end)
  <2> PICK x \in Execs, end \in Ends : AddMember(x, end)
    BY <1>1, Zenon
  <2>1. add' \in [Execs -> [pc : {"new", "indexed", "stored", "done"}, start : Nat, end : Ends]]
    BY Zenon DEF AddMember
  <2> QED
    BY <2>1, Zenon DEF AddMember
<1>2. CASE \E x \in Execs, end \in Ends : Update(x, end)
  <2> PICK x \in Execs, end \in Ends : Update(x, end)
    BY <1>2, Zenon
  <2>1. record' \in [Ids -> Sandbox \cup {NoRecord}]
    BY DEF Update, Sandbox
  <2> QED
    BY <2>1, Zenon DEF Update
<1>3. ASSUME NEW x \in Execs, Add(x) PROVE TypeOK'
  <2>1. CASE AddRecord(x)
    <3>1. [exec |-> x, start |-> add[x].start, end |-> add[x].end, state |-> "running"] \in Sandbox
      BY Zenon DEF Sandbox
    <3> QED
      BY <2>1, <3>1 DEF AddRecord, AddAt
  <2>2. CASE AddTeam(x)
    BY <2>2 DEF AddTeam, AddAt, Fault
  <2> QED
    BY <1>3, <2>1, <2>2, Zenon DEF Add
<1>4. ASSUME NEW x \in Execs, AddFails(x) PROVE TypeOK'
  BY <1>4 DEF AddFails, AddAt, Fault
<1>5. ASSUME NEW x \in Execs, Write(x) PROVE TypeOK'
  <2>1. CASE Rescore(x)
    <3>1. score' \in [Execs -> Ends]
      BY <2>1 DEF Rescore, Sandbox, StoreInv
    <3> QED
      BY <2>1, <3>1 DEF Rescore, Fault
  <2>2. CASE Remove(x)
    BY <2>2, Zenon DEF Remove
  <2>3. CASE Unindex(x)
    BY <2>3 DEF Unindex, Fault
  <2> QED
    BY <1>5, <2>1, <2>2, <2>3, Zenon DEF Write
<1>6. ASSUME NEW x \in Execs, Evict(x) PROVE TypeOK'
  <2>1. RecordOf(x) # NoRecord => Leaving(RecordOf(x)) \in Sandbox
    BY LeavingType
  <2> QED
    BY <1>6, <2>1, Zenon DEF Evict
<1>7. ASSUME NEW x \in Execs, StartRemoving(x) PROVE TypeOK'
  <2>1. Leaving(RecordOf(x)) \in Sandbox
    BY <1>7, LeavingType DEF StartRemoving
  <2> QED
    BY <1>7, <2>1, Zenon DEF StartRemoving
<1>8. ASSUME NEW x \in Execs, RemoverDies(x) PROVE TypeOK'
  <2>1. record' \in [Ids -> Sandbox \cup {NoRecord}]
    BY <1>8 DEF RemoverDies, Sandbox
  <2> QED
    BY <1>8, <2>1 DEF RemoverDies, Fault
<1>9. CASE ExpiredItems
  <2>1. CASE SweepRange
    BY <2>1, ZenonT(60) DEF SweepRange, Due
  <2>2. CASE SweepGet
    <3>1. [x \in Execs |-> IF x \in Drifted THEN RecordOf(x).end ELSE 0] \in [Execs -> Ends]
      BY DEF Drifted, Sandbox
    <3>2. sweep' \in [pc : {"idle", "ranged", "got", "swept"}, at : Nat, seen : SUBSET Execs,
                     stale : SUBSET Execs, moved : [Execs -> Ends], found : SUBSET Execs]
      <4>1. CASE sweep' = [sweep EXCEPT !.pc = "idle", !.seen = {}, !.at = 0]
        BY <4>1, Zenon
      <4>2. CASE sweep' = [sweep EXCEPT !.pc = "got", !.seen = {}, !.at = 0, !.stale = StaleMembers,
                             !.moved = [x \in Execs |-> IF x \in Drifted THEN RecordOf(x).end ELSE 0],
                             !.found = Expired]
        BY <3>1, <4>2, Zenon DEF StaleMembers, Expired
      <4> QED
        BY <2>2, <4>1, <4>2, Zenon DEF SweepGet
    <3> QED
      BY <2>2, <3>2 DEF SweepGet, Fault
  <2>3. CASE SweepRemove
    <3>1. score' \in [Execs -> Ends]
      BY <2>3 DEF SweepRemove
    <3>2. sweep' \in [pc : {"idle", "ranged", "got", "swept"}, at : Nat, seen : SUBSET Execs,
                     stale : SUBSET Execs, moved : [Execs -> Ends], found : SUBSET Execs]
      BY <2>3, Zenon DEF SweepRemove
    <3> QED
      BY <2>3, <3>1, <3>2 DEF SweepRemove, Fault
  <2>4. CASE SweepRescore
    <3>1. score' \in [Execs -> Ends]
      BY <2>4, Zenon DEF SweepRescore
    <3>2. NoEnds \in [Execs -> Ends]
      BY DEF NoEnds
    <3>3. sweep' \in [pc : {"idle", "ranged", "got", "swept"}, at : Nat, seen : SUBSET Execs,
                     stale : SUBSET Execs, moved : [Execs -> Ends], found : SUBSET Execs]
      BY <2>4, <3>2, Zenon DEF SweepRescore
    <3> QED
      BY <2>4, <3>1, <3>3 DEF SweepRescore, Fault
  <2> QED
    BY <1>9, <2>1, <2>2, <2>3, <2>4, Zenon DEF ExpiredItems
<1>10. CASE Heal
  <2>1. CASE HealRead
    <3>1. [x \in Execs |-> IF Stored(x) /\ now >= RecordOf(x).start + Grace
                             THEN RecordOf(x).end ELSE 0] \in [Execs -> Ends]
      BY DEF Sandbox
    <3> QED
      BY <2>1, <3>1, Zenon DEF HealRead
  <2>2. CASE HealScore
    BY <2>2 DEF HealScore, MissingOnly
  <2>3. CASE HealAdd
    <3>1. score' \in [Execs -> Ends]
      BY <2>3, Zenon DEF HealAdd
    <3> QED
      BY <2>3, <3>1 DEF HealAdd, NoEnds, Fault
  <2> QED
    BY <1>10, <2>1, <2>2, <2>3, Zenon DEF Heal
<1>11. CASE PruneRead \/ PruneRemove \/ Tick
  <2>1. pruning' \in BOOLEAN
    BY <1>11, Zenon DEF PruneRead, PruneRemove, Tick
  <2> QED
    BY <1>11, <2>1 DEF PruneRead, PruneRemove, Tick, Fault
<1>12. CASE UNCHANGED vars
  BY <1>12, Zenon DEF vars
<1> QED
  BY <1>1, <1>2, <1>3, <1>4, <1>5, <1>6, <1>7, <1>8, <1>9, <1>10, <1>11, <1>12, Zenon DEF Next

LEMMA InitInv == Init => StoreInv /\ IndexInv
  BY IndexAssumption DEF Init, StoreInv, IndexInv, AddInv, PendingInv, EndInv, StoredIsIndexed,
                         Added, Stored, RecordOf, AddAt, NoEnds

LEMMA StepStore == TypeOK /\ StoreInv /\ [Next]_vars => StoreInv'
<1> USE IndexAssumption
<1> SUFFICES ASSUME TypeOK, StoreInv, [Next]_vars PROVE StoreInv'
  BY Zenon
<1> USE DEF TypeOK, StoreInv, Added, Stored, RecordOf, addVars, bgVars
<1>1. CASE \E x \in Execs, end \in Ends : AddMember(x, end)
  BY <1>1 DEF AddMember
<1>2. CASE \E x \in Execs, end \in Ends : Update(x, end)
  BY <1>2 DEF Update, Sandbox
<1>3. ASSUME NEW x \in Execs, Add(x) \/ AddFails(x) PROVE StoreInv'
  <2>1. CASE AddRecord(x)
    BY <2>1 DEF AddRecord, AddAt, Sandbox
  <2>2. CASE AddTeam(x) \/ AddFails(x)
    <3>1. UNCHANGED <<record, rescoring>>
      BY <2>2, Zenon DEF AddTeam, AddFails
    <3>2. /\ add[x].pc # "new"
          /\ add' = [add EXCEPT ![x] = [pc |-> "done", start |-> 0, end |-> 0]]
      BY <2>2, Zenon DEF AddTeam, AddFails, AddAt
    <3> QED
      BY <3>1, <3>2
  <2> QED
    BY <1>3, <2>1, <2>2, Zenon DEF Add
<1>4. ASSUME NEW x \in Execs, Write(x) PROVE StoreInv'
  BY <1>4 DEF Write, Rescore, Remove, Unindex, Locked
<1>5. ASSUME NEW x \in Execs, Evict(x) PROVE StoreInv'
  <2>1. RecordOf(x) # NoRecord => /\ Leaving(RecordOf(x)) \in Sandbox
                                  /\ Leaving(RecordOf(x)).exec = RecordOf(x).exec
    BY LeavingType
  <2> QED
    BY <1>5, <2>1 DEF Evict
<1>6. ASSUME NEW x \in Execs, StartRemoving(x) PROVE StoreInv'
  <2>1. /\ Leaving(RecordOf(x)) \in Sandbox
        /\ Leaving(RecordOf(x)).exec = RecordOf(x).exec
    BY <1>6, LeavingType DEF StartRemoving
  <2> QED
    BY <1>6, <2>1 DEF StartRemoving
<1>7. ASSUME NEW x \in Execs, RemoverDies(x) PROVE StoreInv'
  BY <1>7, SMTT(60) DEF RemoverDies, Sandbox
<1>8. CASE ExpiredItems
  BY <1>8, Zenon DEF ExpiredItems, SweepRange, SweepGet, SweepRemove, SweepRescore
<1>9. CASE Heal \/ PruneRead \/ PruneRemove \/ Tick
  BY <1>9, Zenon DEF Heal, HealRead, HealScore, HealAdd, PruneRead, PruneRemove, Tick
<1>10. CASE UNCHANGED vars
  BY <1>10, Zenon DEF vars
<1> QED
  BY <1>1, <1>2, <1>3, <1>4, <1>5, <1>6, <1>7, <1>8, <1>9, <1>10, Zenon DEF Next

(* The variables keep their types, whatever the order and the failures of   *)
(* the Redis calls, and however slow an Add.                                *)
THEOREM IndexTypeCorrect == Spec => []TypeOK
<1>1. Init => TypeOK /\ StoreInv
  BY InitType, InitInv, Zenon
<1>2. TypeOK /\ StoreInv /\ [Next]_vars => (TypeOK /\ StoreInv)'
  BY StepType, StepStore, Zenon
<1> QED
  BY <1>1, <1>2, PTL DEF Spec

LEMMA StepIndex ==
  ASSUME Slow = FALSE, TypeOK, StoreInv, IndexInv, [Next]_vars
  PROVE  IndexInv'
<1> USE IndexAssumption
<1> USE DEF TypeOK, IndexInv, AddInv, PendingInv, EndInv, StoredIsIndexed,
            Added, Stored, RecordOf, Ends, addVars, bgVars
<1>1. CASE \E x \in Execs, end \in Ends : AddMember(x, end)
  <2> PICK x \in Execs, end \in Ends : AddMember(x, end)
    BY <1>1, Zenon
  <2>1. /\ add[x].pc = "new" /\ end > now
        /\ score' = [score EXCEPT ![x] = end]
        /\ add' = [add EXCEPT ![x] = [pc |-> "indexed", start |-> now, end |-> end]]
        /\ UNCHANGED <<now, record, unindexing, sweep, heal>>
    BY Zenon DEF AddMember
  <2> QED
    BY <2>1
<1>2. CASE \E x \in Execs, end \in Ends : Update(x, end)
  BY <1>2 DEF Update, Sandbox
<1>3. ASSUME NEW x \in Execs, AddRecord(x) PROVE IndexInv'
  BY <1>3 DEF AddRecord, AddAt, Sandbox, StoreInv
<1>4. ASSUME NEW x \in Execs, AddTeam(x) \/ AddFails(x) PROVE IndexInv'
  <2>1. /\ add[x].pc # "new"
        /\ add' = [add EXCEPT ![x] = [pc |-> "done", start |-> 0, end |-> 0]]
        /\ UNCHANGED <<now, record, score, unindexing, sweep, heal>>
    BY <1>4, Zenon DEF AddTeam, AddFails, AddAt
  <2> QED
    BY <2>1
<1>5. ASSUME NEW x \in Execs, Rescore(x) PROVE IndexInv'
  BY <1>5 DEF Rescore, StoreInv, Sandbox
<1>6. ASSUME NEW x \in Execs, Remove(x) PROVE IndexInv'
  BY <1>6 DEF Remove, StoreInv
<1>7. ASSUME NEW x \in Execs, Unindex(x) PROVE IndexInv'
  BY <1>7 DEF Unindex, MembersOf
<1>8. ASSUME NEW x \in Execs, Evict(x) PROVE IndexInv'
  <2>1. RecordOf(x) # NoRecord => /\ Leaving(RecordOf(x)) \in Sandbox
                                  /\ Leaving(RecordOf(x)).exec = RecordOf(x).exec
                                  /\ Leaving(RecordOf(x)).end > 0
    BY LeavingType
  <2> QED
    BY <1>8, <2>1 DEF Evict
<1>9. ASSUME NEW x \in Execs, StartRemoving(x) PROVE IndexInv'
  <2>1. /\ Leaving(RecordOf(x)) \in Sandbox
        /\ Leaving(RecordOf(x)).exec = RecordOf(x).exec
        /\ Leaving(RecordOf(x)).end > 0
    BY <1>9, LeavingType DEF StartRemoving
  <2> QED
    BY <1>9, <2>1 DEF StartRemoving
<1>10. ASSUME NEW x \in Execs, RemoverDies(x) PROVE IndexInv'
  BY <1>10 DEF RemoverDies, Sandbox
<1>11. CASE SweepRange
  <2>1. \A x \in Due : Added(x)
    BY DEF Due
  <2> QED
    BY <1>11, <2>1 DEF SweepRange
<1>12. CASE SweepGet
  <2>1. CASE sweep'.pc = "idle"
    <3>1. /\ sweep' = [sweep EXCEPT !.pc = "idle", !.seen = {}, !.at = 0]
          /\ UNCHANGED <<now, record, score, add, unindexing, heal>>
      BY <1>12, <2>1, Zenon DEF SweepGet
    <3> QED
      BY <3>1, Zenon
  <2>2. CASE sweep'.pc # "idle"
    <3>1. /\ sweep' = [sweep EXCEPT !.pc = "got", !.seen = {}, !.at = 0, !.stale = StaleMembers,
                         !.moved = [x \in Execs |-> IF x \in Drifted THEN RecordOf(x).end ELSE 0],
                         !.found = Expired]
          /\ UNCHANGED <<now, record, score, add, unindexing, heal>>
      BY <1>12, <2>2, Zenon DEF SweepGet
    <3> QED
      BY <3>1, Zenon DEF StaleMembers, Drifted
  <2> QED
    BY <2>1, <2>2, Zenon
<1>13. CASE SweepRemove
  BY <1>13 DEF SweepRemove
<1>14. CASE SweepRescore
  BY <1>14 DEF SweepRescore, NoEnds
<1>15. CASE HealRead
  BY <1>15, Zenon DEF HealRead, StoreInv
<1>16. CASE HealScore
  BY <1>16, Zenon DEF HealScore, MissingOnly
<1>17. CASE HealAdd
  <2>1. /\ \A x \in Execs : score'[x] = score[x] \/ (score[x] = 0 /\ score'[x] = heal.batch[x])
        /\ \A x \in Execs : heal'.batch[x] = 0
        /\ UNCHANGED <<now, record, add, unindexing, sweep>>
    BY <1>17 DEF HealAdd, NoEnds
  <2>2. AddInv'
    BY <2>1
  <2>3. PendingInv' /\ EndInv'
    BY <2>1, Zenon
  <2>4. StoredIsIndexed'
    BY <2>1
  <2> QED
    BY <2>2, <2>3, <2>4, Zenon
<1>18. CASE PruneRead \/ PruneRemove
  BY <1>18 DEF PruneRead, PruneRemove
<1>19. CASE Tick
  BY <1>19 DEF Tick
<1>20. CASE UNCHANGED vars
  BY <1>20, Zenon DEF vars
<1> QED
  BY <1>1, <1>2, <1>3, <1>4, <1>5, <1>6, <1>7, <1>8, <1>9, <1>10, <1>11, <1>12, <1>13, <1>14, <1>15, <1>16, <1>17, <1>18, <1>19, <1>20, Zenon
     DEF Next, Add, Write, ExpiredItems, Heal

(* As long as an Add does not take longer than its sandbox lives, a stored  *)
(* sandbox always has its member in the expiration index, so that the       *)
(* evictor will find it: for any sandboxes, executions, window and faults.  *)
THEOREM NothingUnindexed == ASSUME Slow = FALSE PROVE Spec => []StoredIsIndexed
<1>1. Init => TypeOK /\ StoreInv /\ IndexInv
  BY InitType, InitInv, Zenon
<1>2. TypeOK /\ StoreInv /\ IndexInv /\ [Next]_vars => (TypeOK /\ StoreInv /\ IndexInv)'
  BY StepType, StepStore, StepIndex, Zenon
<1>3. IndexInv => StoredIsIndexed
  BY Zenon DEF IndexInv
<1> QED
  BY <1>1, <1>2, <1>3, PTL DEF Spec

(* What holds however slow an Add: its member is there until a sweep that   *)
(* comes after the end of the sandbox takes it, and no ZREM that Remove has *)
(* yet to send names an execution that is stored.                           *)
LateInv ==
  /\ EndInv
  /\ \A x \in Execs :
       /\ add[x].pc = "new" => score[x] = 0 /\ x \notin sweep.seen /\ x \notin sweep.stale
       /\ add[x].pc = "indexed" =>
            /\ add[x].end > 0 /\ score[x] \in {0, add[x].end}
            /\ score[x] = 0 \/ x \in sweep.seen \/ x \in sweep.stale => add[x].end <= now
       /\ x \in unindexing => Added(x) /\ ~Stored(x)
       /\ sweep.moved[x] # 0 \/ heal.batch[x] # 0 => Added(x)

LEMMA InitLate == Init => LateInv
  BY IndexAssumption DEF Init, LateInv, EndInv, Added, Stored, RecordOf, AddAt, NoEnds

LEMMA StepLate ==
  ASSUME TypeOK, StoreInv, LateInv, [Next]_vars
  PROVE  LateInv'
<1> USE IndexAssumption
<1> USE DEF TypeOK, LateInv, EndInv, Added, Stored, RecordOf, Ends, addVars, bgVars
<1>1. CASE \E x \in Execs, end \in Ends : AddMember(x, end)
  <2> PICK x \in Execs, end \in Ends : AddMember(x, end)
    BY <1>1, Zenon
  <2>1. /\ add[x].pc = "new" /\ end > now
        /\ score' = [score EXCEPT ![x] = end]
        /\ add' = [add EXCEPT ![x] = [pc |-> "indexed", start |-> now, end |-> end]]
        /\ UNCHANGED <<now, record, unindexing, sweep, heal>>
    BY Zenon DEF AddMember
  <2> QED
    BY <2>1
<1>2. CASE \E x \in Execs, end \in Ends : Update(x, end)
  BY <1>2 DEF Update, Sandbox
<1>3. ASSUME NEW x \in Execs, AddRecord(x) PROVE LateInv'
  BY <1>3 DEF AddRecord, AddAt, Sandbox, StoreInv
<1>4. ASSUME NEW x \in Execs, AddTeam(x) \/ AddFails(x) PROVE LateInv'
  <2>1. /\ add[x].pc # "new"
        /\ add' = [add EXCEPT ![x] = [pc |-> "done", start |-> 0, end |-> 0]]
        /\ UNCHANGED <<now, record, score, unindexing, sweep, heal>>
    BY <1>4, Zenon DEF AddTeam, AddFails, AddAt
  <2> QED
    BY <2>1
<1>5. ASSUME NEW x \in Execs, Rescore(x) PROVE LateInv'
  BY <1>5 DEF Rescore, StoreInv, Sandbox
<1>6. ASSUME NEW x \in Execs, Remove(x) PROVE LateInv'
  BY <1>6 DEF Remove, StoreInv
<1>7. ASSUME NEW x \in Execs, Unindex(x) PROVE LateInv'
  BY <1>7 DEF Unindex, MembersOf
<1>8. ASSUME NEW x \in Execs, Evict(x) PROVE LateInv'
  <2>1. RecordOf(x) # NoRecord => /\ Leaving(RecordOf(x)) \in Sandbox
                                  /\ Leaving(RecordOf(x)).exec = RecordOf(x).exec
                                  /\ Leaving(RecordOf(x)).end > 0
    BY LeavingType
  <2> QED
    BY <1>8, <2>1, SMTT(60) DEF Evict
<1>9. ASSUME NEW x \in Execs, StartRemoving(x) PROVE LateInv'
  <2>1. /\ Leaving(RecordOf(x)) \in Sandbox
        /\ Leaving(RecordOf(x)).exec = RecordOf(x).exec
        /\ Leaving(RecordOf(x)).end > 0
    BY <1>9, LeavingType DEF StartRemoving
  <2> QED
    BY <1>9, <2>1 DEF StartRemoving
<1>10. ASSUME NEW x \in Execs, RemoverDies(x) PROVE LateInv'
  BY <1>10 DEF RemoverDies, Sandbox
<1>11. CASE SweepRange
  <2>1. \A x \in Due : add[x].pc # "new" /\ (add[x].pc = "indexed" => add[x].end <= now)
    BY DEF Due
  <2>2. PICK seen \in SUBSET Due : sweep' = [sweep EXCEPT !.pc = "ranged", !.at = now, !.seen = seen]
    BY <1>11, Zenon DEF SweepRange
  <2>3. /\ sweep'.seen = seen /\ sweep'.stale = sweep.stale /\ sweep'.moved = sweep.moved
        /\ UNCHANGED <<now, record, score, add, unindexing, heal>>
    BY <1>11, <2>2, Zenon DEF SweepRange
  <2> QED
    BY <2>1, <2>2, <2>3
<1>12. CASE SweepGet
  <2>1. UNCHANGED <<now, record, score, add, unindexing, heal>>
    BY <1>12, Zenon DEF SweepGet
  <2>2. /\ sweep'.seen = {} /\ sweep'.stale \subseteq sweep.stale \cup sweep.seen
        /\ \A x \in Execs : sweep'.moved[x] # 0 => sweep.moved[x] # 0 \/ Stored(x)
    <3>1. CASE sweep' = [sweep EXCEPT !.pc = "idle", !.seen = {}, !.at = 0]
      BY <3>1, Zenon
    <3>2. CASE sweep' = [sweep EXCEPT !.pc = "got", !.seen = {}, !.at = 0, !.stale = StaleMembers,
                           !.moved = [x \in Execs |-> IF x \in Drifted THEN RecordOf(x).end ELSE 0],
                           !.found = Expired]
      BY <3>2, Zenon DEF StaleMembers, Drifted
    <3> QED
      BY <1>12, <3>1, <3>2, Zenon DEF SweepGet
  <2>3. \A x \in Execs : Stored(x) => Added(x)
    BY Zenon DEF StoreInv
  <2> QED
    BY <2>1, <2>2, <2>3
<1>13. CASE SweepRemove
  BY <1>13 DEF SweepRemove
<1>14. CASE SweepRescore
  BY <1>14 DEF SweepRescore, NoEnds
<1>15. CASE HealRead
  BY <1>15, Zenon DEF HealRead, StoreInv
<1>16. CASE HealScore
  BY <1>16, Zenon DEF HealScore, MissingOnly
<1>17. CASE HealAdd
  <2>1. /\ \A x \in Execs : score'[x] = score[x] \/ (score[x] = 0 /\ score'[x] = heal.batch[x])
        /\ \A x \in Execs : heal'.batch[x] = 0
        /\ UNCHANGED <<now, record, add, unindexing, sweep>>
    BY <1>17 DEF HealAdd, NoEnds
  <2> QED
    BY <2>1
<1>18. CASE PruneRead \/ PruneRemove
  BY <1>18 DEF PruneRead, PruneRemove
<1>19. CASE Tick
  BY <1>19 DEF Tick
<1>20. CASE UNCHANGED vars
  BY <1>20, Zenon DEF vars
<1> QED
  BY <1>1, <1>2, <1>3, <1>4, <1>5, <1>6, <1>7, <1>8, <1>9, <1>10, <1>11, <1>12, <1>13, <1>14, <1>15, <1>16, <1>17, <1>18, <1>19, <1>20, Zenon
     DEF Next, Add, Write, ExpiredItems, Heal

(* Which calls take a member away. *)
LEMMA ScoreKept ==
  ASSUME TypeOK, StoreInv, LateInv, [Next]_vars, NEW x \in Execs,
         Stored(x), score[x] # 0, score'[x] = 0
  PROVE  x \in sweep.stale
<1> USE IndexAssumption
<1> USE DEF TypeOK, LateInv, EndInv, Stored, RecordOf, Ends
<1>1. score' # score
  BY Zenon
<1>2. ASSUME NEW y \in Execs, NEW end \in Ends, AddMember(y, end) PROVE FALSE
  BY <1>2 DEF AddMember
<1>3. ASSUME NEW y \in Execs, Rescore(y) PROVE FALSE
  BY <1>3 DEF Rescore, StoreInv, Sandbox
<1>4. ASSUME NEW y \in Execs, Unindex(y) PROVE FALSE
  BY <1>4 DEF Unindex, MembersOf
<1>5. CASE SweepRemove
  BY <1>5 DEF SweepRemove
<1>6. CASE SweepRescore
  BY <1>6 DEF SweepRescore
<1>7. CASE HealAdd
  BY <1>7 DEF HealAdd
<1>8. CASE UNCHANGED score
  BY <1>1, <1>8, Zenon
<1>9. \/ UNCHANGED score \/ SweepRemove \/ SweepRescore \/ HealAdd
      \/ \E y \in Execs : Rescore(y) \/ Unindex(y) \/ \E end \in Ends : AddMember(y, end)
  BY Zenon DEF Next, Add, Write, ExpiredItems, Heal, Update, AddRecord, AddTeam, AddFails, Remove,
               Evict, StartRemoving, RemoverDies, SweepRange, SweepGet, HealRead, HealScore,
               PruneRead, PruneRemove, Tick, vars
<1> QED
  BY <1>2, <1>3, <1>4, <1>5, <1>6, <1>7, <1>8, <1>9, Zenon

(* Only an Add stores an execution, and one without its member is late. *)
LEMMA StoredLate ==
  ASSUME TypeOK, StoreInv, LateInv, [Next]_vars, NEW x \in Execs,
         ~Stored(x), Stored(x)', score'[x] = 0 \/ x \in sweep'.stale
  PROVE  RecordOf(x)'.end <= now
<1> USE IndexAssumption
<1> USE DEF TypeOK, Stored, RecordOf
<1>1. record' # record
  BY Zenon
<1>2. ASSUME NEW y \in Execs, AddRecord(y) PROVE RecordOf(x)'.end <= now
  <2>1. x = y
    BY <1>2 DEF AddRecord
  <2>2. add[x].pc = "indexed" /\ RecordOf(x)'.end = add[x].end /\ UNCHANGED <<score, sweep>>
    BY <1>2, <2>1, Zenon DEF AddRecord, bgVars
  <2> QED
    BY <2>2 DEF LateInv, Ends
<1>3. ASSUME NEW y \in Execs, NEW end \in Ends, Update(y, end) PROVE FALSE
  BY <1>3 DEF Update, Sandbox
<1>4. ASSUME NEW y \in Execs, Remove(y) PROVE FALSE
  BY <1>4, Zenon DEF Remove
<1>5. ASSUME NEW y \in Execs, Evict(y) PROVE FALSE
  <2>1. RecordOf(y) # NoRecord => Leaving(RecordOf(y)).exec = RecordOf(y).exec
    BY LeavingType
  <2> QED
    BY <1>5, <2>1 DEF Evict
<1>6. ASSUME NEW y \in Execs, StartRemoving(y) PROVE FALSE
  <2>1. Leaving(RecordOf(y)).exec = RecordOf(y).exec
    BY <1>6, LeavingType DEF StartRemoving
  <2> QED
    BY <1>6, <2>1 DEF StartRemoving
<1>7. ASSUME NEW y \in Execs, RemoverDies(y) PROVE FALSE
  BY <1>7 DEF RemoverDies, Sandbox
<1>8. \/ UNCHANGED record
      \/ \E y \in Execs : \/ AddRecord(y) \/ Remove(y) \/ Evict(y) \/ StartRemoving(y) \/ RemoverDies(y)
                          \/ \E end \in Ends : Update(y, end)
  BY Zenon DEF Next, Add, Write, ExpiredItems, Heal, AddMember, AddTeam, AddFails, Rescore, Unindex,
               SweepRange, SweepGet, SweepRemove, SweepRescore, HealRead, HealScore, HealAdd,
               PruneRead, PruneRemove, Tick, vars
<1> QED
  BY <1>1, <1>2, <1>3, <1>4, <1>5, <1>6, <1>7, <1>8, Zenon

(* With no proviso on how long an Add takes: the only call that takes the   *)
(* member of a stored sandbox is the ZREM of a sweep that had looked for    *)
(* its record in vain, and what is stored after that look, or without a     *)
(* member, has expired when it is stored.                                   *)
THEOREM MembersKept == Spec => MemberKept
<1>1. Init => TypeOK /\ StoreInv /\ LateInv
  BY InitType, InitInv, InitLate, Zenon
<1>2. TypeOK /\ StoreInv /\ LateInv /\ [Next]_vars => (TypeOK /\ StoreInv /\ LateInv)'
  BY StepType, StepStore, StepLate, Zenon
<1>3. TypeOK /\ StoreInv /\ LateInv /\ [Next]_vars =>
        [\A x \in Execs :
           /\ Stored(x) /\ score[x] # 0 /\ score'[x] = 0 => x \in sweep.stale
           /\ ~Stored(x) /\ Stored(x)' /\ (score'[x] = 0 \/ x \in sweep'.stale)
                => RecordOf(x)'.end <= now]_vars
  BY ScoreKept, StoredLate, Zenon
<1> QED
  BY <1>1, <1>2, <1>3, PTL DEF Spec, MemberKept
==============================================================================
