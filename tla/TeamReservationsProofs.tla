----------------------- MODULE TeamReservationsProofs -----------------------
(***************************************************************************)
(* TeamReservations, for every number of calls and sandboxes, every limit  *)
(* and every staleTTL.                                                     *)
(*                                                                         *)
(* Why the properties hold: a start is reserved under a number of its own, *)
(* in an entry that is its own, and from then on it either has that entry  *)
(* or is counted as lost (EntryInv).  So the script misses no start but    *)
(* the lost ones, neither when it looks for one to join nor when it counts *)
(* against the limit.  The script clears the result when it makes an entry *)
(* and FinishStart clears the entry when it sets a result, so a result is  *)
(* never older than the entry that a waiter saw, except for one set by a   *)
(* start that had lost its entry (ResultInv).                              *)
(***************************************************************************)
EXTENDS TeamReservations, TLAPS, FiniteSetTheorems

(* The calls.  Who starts, joins or has an answer knows the sandbox and the *)
(* start; only who was answered has an answer.                              *)
CallInv(p) ==
  /\ req[p].pc # "idle" => req[p].s \in Sandboxes
  /\ req[p].pc \in StartPCs \cup WaitPCs \cup {"answered"} => req[p].start \in 1..starts
  /\ req[p].pc # "answered" => req[p].answer = None

TypeInv ==
  /\ TypeOK
  /\ \A p \in Procs : CallInv(p)
  /\ \A s \in Sandboxes : pending[s] # None => pending[s].start \in 1..starts

(* The entries.  A start under way either has the entry of its sandbox, or *)
(* is one of the lost ones.                                                *)
HasEntry(p) == pending[req[p].s] # None /\ pending[req[p].s].start = req[p].start

EntryInv ==
  /\ TypeInv
  /\ \A p, q \in Running : req[p].start = req[q].start => p = q
  /\ \A p \in Running, s \in Pending(pending) : pending[s].start = req[p].start => s = req[p].s
  /\ \A p \in Running : req[p].start \in lost \/ HasEntry(p)

(* The joined starts.  What a waiting request finds is at least as recent   *)
(* as the start that it joined, or comes from a lost one; the start is      *)
(* over, or lost, when its entry has been missed.                           *)
JoinInv(p) ==
  req[p].pc \in WaitPCs =>
    /\ pending[req[p].s] # None => pending[req[p].s].start >= req[p].start
    /\ result[req[p].s] # None =>
         result[req[p].s].start >= req[p].start \/ result[req[p].s].start \in lost
    /\ \A q \in Running : req[q].start = req[p].start => req[q].s = req[p].s
    /\ req[p].pc = "reget" => req[p].start \notin Live \ lost

ResultInv ==
  /\ EntryInv
  /\ \A s \in Sandboxes : pending[s] = None \/ result[s] = None
  /\ \A p \in Procs : JoinInv(p)
  /\ JoinedResult

LEMMA InitType == Init => TypeInv
  BY ReservationAssumption DEF Init, TypeInv, TypeOK, CallInv, Idle, Requests, PCs, StartPCs, WaitPCs

(***************************************************************************)
(* The request of a call after a step, by its fields.                      *)
(***************************************************************************)
Becomes(p, l, s, k, a) ==
  /\ req' \in [Procs -> Requests]
  /\ req'[p].pc = l /\ req'[p].s = s /\ req'[p].start = k /\ req'[p].answer = a
  /\ \A q \in Procs \ {p} : req'[q] = req[q]

LEMMA Updated ==
  ASSUME TypeOK, NEW p \in Procs, NEW r \in Requests, req' = [req EXCEPT ![p] = r]
  PROVE  Becomes(p, r.pc, r.s, r.start, r.answer)
  BY Zenon DEF TypeOK, Becomes

LEMMA GotoStep ==
  ASSUME TypeOK, NEW p \in Procs, NEW l \in PCs, Goto(p, l)
  PROVE  Becomes(p, l, req[p].s, req[p].start, req[p].answer)
<1> DEFINE r == [req[p] EXCEPT !.pc = l]
<1>1. req[p] \in Requests
  BY Zenon DEF TypeOK
<1>2. /\ r \in Requests /\ r.pc = l
      /\ r.s = req[p].s /\ r.start = req[p].start /\ r.answer = req[p].answer
  BY <1>1, Zenon DEF Requests
<1>3. req' = [req EXCEPT ![p] = r]
  BY Zenon DEF Goto
<1> HIDE DEF r
<1>4. Becomes(p, r.pc, r.s, r.start, r.answer)
  BY <1>2, <1>3, Updated, Zenon
<1> QED
  BY <1>2, <1>4, Zenon

LEMMA FinishingStep ==
  ASSUME TypeOK, NEW p \in Procs, NEW ok \in BOOLEAN, Finishing(p, ok)
  PROVE  Becomes(p, "finish", req[p].s, req[p].start, req[p].answer)
<1> DEFINE r == [req[p] EXCEPT !.pc = "finish", !.ok = ok]
<1>1. req[p] \in Requests
  BY Zenon DEF TypeOK
<1>2. /\ r \in Requests /\ r.pc = "finish"
      /\ r.s = req[p].s /\ r.start = req[p].start /\ r.answer = req[p].answer
  BY <1>1, Zenon DEF Requests, PCs, StartPCs
<1>3. req' = [req EXCEPT ![p] = r]
  BY Zenon DEF Finishing
<1> HIDE DEF r
<1>4. Becomes(p, r.pc, r.s, r.start, r.answer)
  BY <1>2, <1>3, Updated, Zenon
<1> QED
  BY <1>2, <1>4, Zenon

LEMMA AnswersStep ==
  ASSUME TypeOK, NEW p \in Procs, NEW a \in Outcomes \cup {NoResult}, Answers(p, a)
  PROVE  Becomes(p, "answered", req[p].s, req[p].start, a)
<1> DEFINE r == [req[p] EXCEPT !.pc = "answered", !.answer = a]
<1>1. req[p] \in Requests
  BY Zenon DEF TypeOK
<1>2. /\ r \in Requests /\ r.pc = "answered"
      /\ r.s = req[p].s /\ r.start = req[p].start /\ r.answer = a
  BY <1>1, Zenon DEF Requests, PCs
<1>3. req' = [req EXCEPT ![p] = r]
  BY Zenon DEF Answers
<1> HIDE DEF r
<1>4. Becomes(p, r.pc, r.s, r.start, r.answer)
  BY <1>2, <1>3, Updated, Zenon
<1> QED
  BY <1>2, <1>4, Zenon

LEMMA ReturnsStep ==
  ASSUME TypeOK, NEW p \in Procs, Returns(p)
  PROVE  Becomes(p, "idle", None, None, None)
<1>1. /\ Idle \in Requests /\ Idle.pc = "idle"
      /\ Idle.s = None /\ Idle.start = None /\ Idle.answer = None
  BY Zenon DEF Idle, Requests, PCs
<1>2. Becomes(p, Idle.pc, Idle.s, Idle.start, Idle.answer)
  BY <1>1, Updated, Zenon DEF Returns
<1> QED
  BY <1>1, <1>2, Zenon

LEMMA EntersStep ==
  ASSUME TypeOK, NEW p \in Procs, NEW l \in PCs, NEW s \in Sandboxes,
         req' = [req EXCEPT ![p].pc = l, ![p].s = s]
  PROVE  Becomes(p, l, s, req[p].start, req[p].answer)
<1> DEFINE r == [req[p] EXCEPT !.pc = l, !.s = s]
<1>1. req[p] \in Requests
  BY Zenon DEF TypeOK
<1>2. /\ r \in Requests /\ r.pc = l
      /\ r.s = s /\ r.start = req[p].start /\ r.answer = req[p].answer
  BY <1>1, Zenon DEF Requests
<1>3. req' = [req EXCEPT ![p] = r]
  BY Zenon
<1> HIDE DEF r
<1>4. Becomes(p, r.pc, r.s, r.start, r.answer)
  BY <1>2, <1>3, Updated, Zenon
<1> QED
  BY <1>2, <1>4, Zenon

LEMMA JoinsStep ==
  ASSUME TypeOK, NEW p \in Procs, NEW l \in PCs, NEW s \in Sandboxes, NEW k \in Starts,
         req' = [req EXCEPT ![p].pc = l, ![p].s = s, ![p].start = k]
  PROVE  Becomes(p, l, s, k, req[p].answer)
<1> DEFINE r == [req[p] EXCEPT !.pc = l, !.s = s, !.start = k]
<1>1. req[p] \in Requests
  BY Zenon DEF TypeOK
<1>2. /\ r \in Requests /\ r.pc = l
      /\ r.s = s /\ r.start = k /\ r.answer = req[p].answer
  BY <1>1, Zenon DEF Requests
<1>3. req' = [req EXCEPT ![p] = r]
  BY Zenon
<1> HIDE DEF r
<1>4. Becomes(p, r.pc, r.s, r.start, r.answer)
  BY <1>2, <1>3, Updated, Zenon
<1> QED
  BY <1>2, <1>4, Zenon

(* A step that starts nothing and joins nothing. *)
Moves(p) ==
  /\ req' \in [Procs -> Requests]
  /\ \A q \in Procs \ {p} : req'[q] = req[q]
  /\ CallInv(p)'
  /\ \A P \in {StartPCs, WaitPCs} : req'[p].pc \in P =>
       req[p].pc \in P /\ req'[p].s = req[p].s /\ req'[p].start = req[p].start
  /\ req'[p].pc \in {"place", "add"} => req[p].pc = "place"

LEMMA BecomesMoves ==
  ASSUME TypeInv, NEW p \in Procs, starts' = starts,
         NEW l \in PCs, NEW s, NEW k, NEW a, Becomes(p, l, s, k, a),
         l # "idle" => s \in Sandboxes,
         l \in StartPCs \cup WaitPCs \cup {"answered"} => k \in 1..starts,
         l # "answered" => a = None,
         \A P \in {StartPCs, WaitPCs} : l \in P => req[p].pc \in P /\ s = req[p].s /\ k = req[p].start,
         l \in {"place", "add"} => req[p].pc = "place"
  PROVE  Moves(p)
  BY Zenon DEF Moves, Becomes, CallInv

LEMMA StepMoves ==
  ASSUME TypeInv, NEW p \in Procs, Step(p) \/ GivesUp(p) \/ Crash(p)
  PROVE  Moves(p)
<1> USE DEF PCs, StartPCs, WaitPCs
<1>0. TypeOK /\ CallInv(p)
  BY Zenon DEF TypeInv
<1>1. CASE Place(p)
  <2>1. starts' = starts /\ req[p].pc = "place"
    BY <1>1, Zenon DEF Place
  <2>2. PICK l \in {"add", "finish"} : Becomes(p, l, req[p].s, req[p].start, req[p].answer)
    BY <1>0, <1>1, GotoStep, FinishingStep, Zenon DEF Place
  <2> QED
    BY <1>0, <2>1, <2>2, BecomesMoves, Zenon DEF CallInv
<1>2. CASE Add(p)
  <2>1. starts' = starts /\ req[p].pc = "add"
    BY <1>2, Zenon DEF Add
  <2>2. Becomes(p, "finish", req[p].s, req[p].start, req[p].answer)
    BY <1>0, <1>2, FinishingStep, Zenon DEF Add
  <2> QED
    BY <1>0, <2>1, <2>2, BecomesMoves, Zenon DEF CallInv
<1>3. CASE FinishStart(p) \/ Respond(p) \/ Release(p) \/ GivesUp(p) \/ Crash(p)
  <2>1. starts' = starts /\ Returns(p)
    BY <1>3, Zenon DEF FinishStart, Respond, Release, GivesUp, Crash
  <2>2. Becomes(p, "idle", None, None, None)
    BY <1>0, <2>1, ReturnsStep, Zenon
  <2> QED
    BY <2>1, <2>2, BecomesMoves
<1>4. CASE GetResult(p) \/ CheckPending(p) \/ ReadAgain(p)
  <2>1. starts' = starts /\ req[p].pc \in WaitPCs
    BY <1>4, Zenon DEF GetResult, CheckPending, ReadAgain
  <2>2. req[p].s \in Sandboxes /\ req[p].start \in 1..starts /\ req[p].answer = None
    BY <1>0, <2>1, Zenon DEF CallInv
  <2>3. CASE \E l \in WaitPCs : Goto(p, l)
    <3>1. PICK l \in WaitPCs : Becomes(p, l, req[p].s, req[p].start, req[p].answer)
      BY <1>0, <2>3, GotoStep, Zenon
    <3> QED
      BY <2>1, <2>2, <3>1, BecomesMoves, Zenon
  <2>4. CASE \E a \in Outcomes \cup {NoResult} : Answers(p, a)
    <3>1. PICK a \in Outcomes \cup {NoResult} : Becomes(p, "answered", req[p].s, req[p].start, a)
      BY <1>0, <2>4, AnswersStep, Zenon
    <3> QED
      BY <2>1, <2>2, <3>1, BecomesMoves, Zenon
  <2>5. result[req[p].s] # None => result[req[p].s] \in Outcomes
    BY <1>0, <2>2, Zenon DEF TypeOK
  <2> QED
    BY <1>4, <2>3, <2>4, <2>5, Zenon DEF GetResult, CheckPending, ReadAgain
<1> QED
  BY <1>1, <1>2, <1>3, <1>4, Zenon DEF Step

LEMMA RemoveMoves ==
  ASSUME TypeInv, NEW p \in Procs, NEW s \in Sandboxes,
         Remove(p, s) \/ (req[p].pc = "idle" /\ AlreadyInStorage(p, s))
  PROVE  Moves(p)
<1>1. starts' = starts /\ req[p].pc = "idle" /\ req[p].answer = None
  BY Zenon DEF Remove, AlreadyInStorage, TypeInv, CallInv
<1>2. PICK l \in {"release", "read"} : Becomes(p, l, s, req[p].start, req[p].answer)
  BY EntersStep, Zenon DEF Remove, AlreadyInStorage, TypeInv, PCs
<1> QED
  BY <1>1, <1>2, BecomesMoves, Zenon DEF PCs, StartPCs, WaitPCs

(* The cleanup of Reserve drops entries that are old, and only drops. *)
LEMMA CleanStaleDrops ==
  ASSUME TypeOK
  PROVE  /\ CleanStale \in [Sandboxes -> Entries \cup {None}]
         /\ \A s \in Sandboxes : CleanStale[s] \in {pending[s], None}
         /\ \A s \in Sandboxes : pending[s] # None /\ CleanStale[s] = None => pending[s].age = StaleTTL
<1>1. \A s \in Sandboxes :
        CleanStale[s] = IF pending[s] # None /\ IsStale(pending[s]) THEN None ELSE pending[s]
  BY Zenon DEF CleanStale
<1>2. \A s \in Sandboxes : pending[s] # None /\ IsStale(pending[s]) => pending[s].age = StaleTTL
  BY ReservationAssumption DEF TypeOK, IsStale, Entries
<1> QED
  BY <1>1, <1>2, Zenon DEF TypeOK, CleanStale

LEMMA DropsType ==
  ASSUME TypeOK, NEW z, Drops(z)
  PROVE  lost \subseteq lost' /\ lost' \subseteq Starts
  BY Zenon DEF TypeOK, Drops, Pending, Entries

(* A reservation, by its fields. *)
LEMMA ReservedStep ==
  ASSUME TypeInv, NEW p \in Procs, NEW s \in Sandboxes, Reserved(p, s, CleanStale)
  PROVE  /\ starts' = starts + 1 /\ starts + 1 \in Starts
         /\ Becomes(p, "place", s, starts + 1, req[p].answer)
         /\ pending' \in [Sandboxes -> Entries \cup {None}]
         /\ pending'[s] \in Entries /\ pending'[s].start = starts + 1
         /\ \A t \in Sandboxes \ {s} : pending'[t] = CleanStale[t]
<1>1. starts' = starts + 1 /\ starts + 1 \in Starts
  BY ReservationAssumption DEF Reserved, TypeInv, TypeOK, Starts
<1>2. Becomes(p, "place", s, starts + 1, req[p].answer)
  BY <1>1, JoinsStep, Zenon DEF Reserved, TypeInv, PCs, StartPCs
<1>3. [age |-> 0, start |-> starts + 1] \in Entries
  BY <1>1, ReservationAssumption DEF Entries
<1> QED
  BY <1>1, <1>2, <1>3, CleanStaleDrops, Zenon DEF Reserved, TypeInv

(* A joined start, by its fields. *)
LEMMA JoinedStep ==
  ASSUME TypeInv, NEW p \in Procs, NEW s \in Sandboxes, AlreadyPending(p, s, CleanStale)
  PROVE  \/ req' = req
         \/ /\ Becomes(p, "get", s, pending[s].start, req[p].answer)
            /\ pending[s] # None /\ pending[s].start \in 1..starts
<1>1. CleanStale[s] = pending[s] /\ pending[s] # None
  BY CleanStaleDrops, Zenon DEF AlreadyPending, TypeInv
<1>2. pending[s].start \in 1..starts /\ pending[s].start \in Starts
  BY <1>1, Zenon DEF TypeInv, TypeOK, Entries
<1>3. CASE req' # req
  <2>1. req' = [req EXCEPT ![p].pc = "get", ![p].s = s, ![p].start = pending[s].start]
    BY <1>1, <1>3, Zenon DEF AlreadyPending
  <2> QED
    BY <1>1, <1>2, <2>1, JoinsStep, Zenon DEF TypeInv, PCs, WaitPCs
<1> QED
  BY <1>3, Zenon

LEMMA MovesType ==
  ASSUME TypeInv, NEW p \in Procs, Moves(p), starts' = starts
  PROVE  req' \in [Procs -> Requests] /\ \A q \in Procs : CallInv(q)'
  BY Zenon DEF TypeInv, Moves, CallInv

(* An entry stays as it was, but for its age, or is dropped. *)
OnlyDrops ==
  /\ pending' \in [Sandboxes -> Entries \cup {None}]
  /\ \A s \in Sandboxes : pending'[s] # None => pending[s] # None /\ pending'[s].start = pending[s].start

LEMMA DropOne ==
  ASSUME TypeOK, NEW s \in Sandboxes,
         pending' = [pending EXCEPT ![s] = None] \/ UNCHANGED pending
  PROVE  OnlyDrops
  BY Zenon DEF TypeOK, OnlyDrops

LEMMA CleanDrops ==
  ASSUME TypeOK, pending' = CleanStale
  PROVE  OnlyDrops
  BY CleanStaleDrops, Zenon DEF OnlyDrops

LEMMA TickDrops ==
  ASSUME TypeOK, Tick
  PROVE  OnlyDrops /\ \A s \in Sandboxes : pending'[s] = None <=> pending[s] = None
<1> DEFINE young(s) == pending[s] # None /\ pending[s].age < StaleTTL
<1>1. ASSUME NEW s \in Sandboxes
      PROVE  /\ pending'[s] \in Entries \cup {None}
             /\ pending'[s] = None <=> pending[s] = None
             /\ pending'[s] # None => pending'[s].start = pending[s].start
  <2>1. pending'[s] = IF young(s) THEN [pending[s] EXCEPT !.age = @ + 1] ELSE pending[s]
    BY Zenon DEF Tick
  <2>2. pending[s] \in Entries \cup {None}
    BY Zenon DEF TypeOK
  <2>3. CASE young(s)
    <3>1. pending[s] \in Entries
      BY <2>2, <2>3, Zenon
    <3>2. /\ [pending[s] EXCEPT !.age = @ + 1] \in Entries
          /\ [pending[s] EXCEPT !.age = @ + 1].start = pending[s].start
      BY <2>3, <3>1, ReservationAssumption DEF Entries
    <3> QED
      BY <2>1, <2>3, <3>2, NoneAssumption, Zenon
  <2>4. CASE ~young(s)
    BY <2>1, <2>2, <2>4, Zenon
  <2> QED
    BY <2>3, <2>4, Zenon
<1>2. pending' \in [Sandboxes -> Entries \cup {None}]
  BY <1>1, Zenon DEF Tick
<1> QED
  BY <1>1, <1>2, Zenon DEF OnlyDrops

LEMMA QuietType ==
  ASSUME TypeInv, starts' = starts, OnlyDrops, lost' \subseteq Starts, index' \subseteq Sandboxes,
         result' \in [Sandboxes -> Outcomes \cup {None}],
         req' \in [Procs -> Requests], \A q \in Procs : CallInv(q)'
  PROVE  TypeInv'
  BY Zenon DEF TypeInv, TypeOK, OnlyDrops

LEMMA StepType ==
  ASSUME TypeInv, NEW p \in Procs, Step(p) \/ GivesUp(p) \/ Crash(p)
  PROVE  TypeInv'
<1>0. TypeOK /\ CallInv(p)
  BY Zenon DEF TypeInv
<1>1. Moves(p)
  BY StepMoves, Zenon
<1>2. CASE FinishStart(p) \/ Release(p)
  <2>1. /\ req[p].s \in Sandboxes /\ req[p].ok \in BOOLEAN
        /\ req[p].pc \in StartPCs => req[p].start \in Starts
    BY <1>0, <1>2, ReservationAssumption
       DEF FinishStart, Release, CallInv, TypeOK, Requests, Starts, StartPCs
  <2>2. OnlyDrops
    BY <1>0, <1>2, <2>1, DropOne, Zenon DEF FinishStart, Release
  <2>3. result' \in [Sandboxes -> Outcomes \cup {None}]
    <3>1. CASE FinishStart(p)
      <4>1. [start |-> req[p].start, ok |-> req[p].ok] \in Outcomes
        BY <2>1, <3>1, Zenon DEF FinishStart, Outcomes, StartPCs
      <4> QED
        BY <1>0, <2>1, <3>1, <4>1, Zenon DEF FinishStart, TypeOK
    <3>2. CASE Release(p)
      BY <1>0, <2>1, <3>2, Zenon DEF Release, TypeOK
    <3> QED
      BY <1>2, <3>1, <3>2, Zenon
  <2>4. lost' \subseteq Starts /\ starts' = starts /\ index' = index
    BY <1>0, <1>2, DropsType, Zenon DEF FinishStart, Release
  <2> QED
    BY <1>0, <1>1, <2>2, <2>3, <2>4, MovesType, QuietType, Zenon DEF TypeOK
<1>3. CASE ~(FinishStart(p) \/ Release(p))
  <2>1. UNCHANGED <<pending, result, starts, lost>>
    BY <1>3, Zenon DEF Step, GivesUp, Crash, Place, Add, GetResult, CheckPending, ReadAgain, Respond
  <2>2. index' \in {index, index \cup {req[p].s}} /\ (index' # index => req[p].pc # "idle")
    BY <1>3, Zenon DEF Step, GivesUp, Crash, Place, Add, GetResult, CheckPending, ReadAgain, Respond
  <2>3. index' \subseteq Sandboxes
    BY <1>0, <2>2, Zenon DEF CallInv, TypeOK
  <2> QED
    BY <1>0, <1>1, <2>1, <2>3, MovesType, QuietType, Zenon DEF TypeOK, OnlyDrops
<1> QED
  BY <1>2, <1>3, Zenon

LEMMA ReserveType ==
  ASSUME TypeInv, NEW p \in Procs, NEW s \in Sandboxes, Reserve(p, s)
  PROVE  TypeInv'
<1>0. TypeOK /\ CallInv(p) /\ req[p].pc = "idle" /\ req[p].answer = None
  BY Zenon DEF TypeInv, CallInv, Reserve
<1>1. lost' \subseteq Starts /\ index' = index
  BY <1>0, DropsType, Zenon DEF Reserve
<1>2. CASE Reserved(p, s, CleanStale)
  <2>1. result' \in [Sandboxes -> Outcomes \cup {None}]
    BY <1>0, <1>2, Zenon DEF Reserved, TypeOK
  <2>2. starts' \in 0..MaxStarts /\ starts \in Nat /\ starts' = starts + 1
    BY <1>0, <1>2, ReservedStep, ReservationAssumption DEF Starts, TypeOK
  <2>3. \A q \in Procs : CallInv(q)'
    BY <1>0, <1>2, <2>2, ReservedStep DEF Becomes, TypeInv, CallInv
  <2>4. \A t \in Sandboxes : pending'[t] # None => pending'[t].start \in 1..starts'
    <3> TAKE t \in Sandboxes
    <3>1. CASE t = s
      BY <1>2, <2>2, <3>1, ReservedStep
    <3>2. CASE t # s
      BY <1>0, <1>2, <2>2, <3>2, ReservedStep, CleanStaleDrops DEF TypeInv
    <3> QED
      BY <3>1, <3>2, Zenon
  <2>5. req' \in [Procs -> Requests] /\ pending' \in [Sandboxes -> Entries \cup {None}]
    BY <1>2, ReservedStep, Zenon DEF Becomes
  <2> QED
    BY <1>0, <1>1, <2>1, <2>2, <2>3, <2>4, <2>5, Zenon DEF TypeInv, TypeOK
<1>3. CASE ~Reserved(p, s, CleanStale)
  <2>1. /\ AlreadyInStorage(p, s) \/ AlreadyPending(p, s, CleanStale) \/ Refused(p, s, CleanStale)
        /\ pending' = CleanStale /\ UNCHANGED <<result, starts>>
    BY <1>3, Zenon DEF Reserve, AlreadyInStorage, AlreadyPending, Refused
  <2>2. req' \in [Procs -> Requests] /\ \A q \in Procs : CallInv(q)'
    <3>1. CASE AlreadyInStorage(p, s)
      BY <1>0, <2>1, <3>1, RemoveMoves, MovesType, Zenon
    <3>2. CASE req' = req
      BY <2>1, <3>2 DEF TypeInv, TypeOK, CallInv
    <3>3. CASE AlreadyPending(p, s, CleanStale) /\ req' # req
      BY <1>0, <2>1, <3>3, JoinedStep DEF Becomes, TypeInv, CallInv
    <3> QED
      BY <2>1, <3>1, <3>2, <3>3, Zenon DEF Refused
  <2> QED
    BY <1>0, <1>1, <2>1, <2>2, CleanDrops, QuietType, Zenon DEF TypeOK
<1> QED
  BY <1>2, <1>3, Zenon

LEMMA TypeStep == TypeInv /\ [Next]_vars => TypeInv'
<1> SUFFICES ASSUME TypeInv, [Next]_vars PROVE TypeInv'
  BY Zenon
<1>0. TypeOK
  BY Zenon DEF TypeInv
<1>1. ASSUME NEW p \in Procs, NEW s \in Sandboxes, Remove(p, s) PROVE TypeInv'
  BY <1>0, <1>1, RemoveMoves, MovesType, QuietType, Zenon DEF Remove, TypeOK, OnlyDrops
<1>2. ASSUME NEW s \in Sandboxes, Expire(s) PROVE TypeInv'
  BY <1>0, <1>2, QuietType, Zenon DEF Expire, TypeInv, TypeOK, OnlyDrops, CallInv
<1>3. CASE Tick
  BY <1>0, <1>3, TickDrops, QuietType, Zenon DEF Tick, TypeInv, TypeOK, CallInv
<1>4. CASE UNCHANGED vars
  BY <1>0, <1>4, Zenon DEF vars, TypeInv, TypeOK, CallInv
<1> QED
  BY <1>1, <1>2, <1>3, <1>4, StepType, ReserveType, Zenon DEF Next

(***************************************************************************)
(* The steps other than a reservation: no start and no entry is added, a   *)
(* dropped entry of a start that goes on is recorded, and no sandbox is    *)
(* counted that was not counted before.                                    *)
(***************************************************************************)
Counted == index \cup Pending(pending) \cup Booting

NoNewStart ==
  \A q \in Procs : req'[q].pc \in StartPCs =>
    req[q].pc \in StartPCs /\ req'[q].s = req[q].s /\ req'[q].start = req[q].start

Shrinks ==
  /\ starts' = starts /\ lost \subseteq lost' /\ lost' \subseteq Starts
  /\ OnlyDrops
  /\ \A s \in Sandboxes :
       pending[s] # None /\ pending'[s] = None /\ pending[s].start \in Live' => pending[s].start \in lost'
  /\ NoNewStart
  /\ Counted' \subseteq Counted

LEMMA DropsRecorded ==
  ASSUME TypeOK, NEW z, Drops(z), \A s \in Sandboxes : pending'[s] = z[s]
  PROVE  /\ lost \subseteq lost' /\ lost' \subseteq Starts
         /\ \A s \in Sandboxes :
              pending[s] # None /\ pending'[s] = None /\ pending[s].start \in Live' => pending[s].start \in lost'
<1>1. \A s \in Sandboxes : pending[s] # None /\ pending'[s] = None => s \in Pending(pending) \ Pending(z)
  BY Zenon DEF Pending
<1> QED
  BY <1>1, DropsType, Zenon DEF Drops

LEMMA BootingShrinks ==
  ASSUME OnlyDrops, index' \subseteq Counted,
         \A q \in Procs : req'[q].pc \in {"place", "add"} =>
           req[q].pc \in {"place", "add"} /\ req'[q].s = req[q].s
  PROVE  Counted' \subseteq Counted
<1>1. Booting' \subseteq Booting
  BY Zenon DEF Booting
<1>2. Pending(pending)' \subseteq Pending(pending)
  BY Zenon DEF Pending, OnlyDrops
<1> QED
  BY <1>1, <1>2, Zenon DEF Counted

LEMMA MovesShrinks ==
  ASSUME NEW p \in Procs, Moves(p)
  PROVE  /\ NoNewStart
         /\ \A q \in Procs : req'[q].pc \in {"place", "add"} =>
              req[q].pc \in {"place", "add"} /\ req'[q].s = req[q].s
  BY Zenon DEF Moves, NoNewStart, StartPCs

LEMMA StepShrinks ==
  ASSUME TypeInv, NEW p \in Procs, Step(p) \/ GivesUp(p) \/ Crash(p)
  PROVE  Shrinks
<1>0. TypeOK /\ CallInv(p)
  BY Zenon DEF TypeInv
<1>1. Moves(p)
  BY StepMoves, Zenon
<1>2. CASE FinishStart(p) \/ Release(p)
  <2>1. req[p].s \in Sandboxes
    BY <1>0, <1>2, Zenon DEF FinishStart, Release, CallInv
  <2>2. OnlyDrops
    BY <1>0, <1>2, <2>1, DropOne, Zenon DEF FinishStart, Release
  <2>3. Drops(pending') /\ starts' = starts /\ index' = index
    BY <1>2, Zenon DEF FinishStart, Release
  <2>4. Counted' \subseteq Counted
    BY <1>1, <2>2, <2>3, MovesShrinks, BootingShrinks, Zenon DEF Counted
  <2> QED
    BY <1>0, <1>1, <2>2, <2>3, <2>4, DropsRecorded, MovesShrinks, Zenon DEF Shrinks
<1>3. CASE ~(FinishStart(p) \/ Release(p))
  <2>1. UNCHANGED <<pending, starts, lost>>
    BY <1>3, Zenon DEF Step, GivesUp, Crash, Place, Add, GetResult, CheckPending, ReadAgain, Respond
  <2>2. OnlyDrops
    BY <1>0, <2>1, Zenon DEF OnlyDrops, TypeOK
  <2>3. index' \subseteq Counted
    <3>1. index' = index \/ (req[p].pc = "add" /\ index' = index \cup {req[p].s})
      BY <1>3, Zenon
         DEF Step, GivesUp, Crash, Place, Add, GetResult, CheckPending, ReadAgain, Respond
    <3> QED
      BY <3>1, Zenon DEF Counted, Booting
  <2>4. Counted' \subseteq Counted
    BY <1>1, <2>2, <2>3, MovesShrinks, BootingShrinks, Zenon
  <2> QED
    BY <1>0, <1>1, <2>1, <2>2, <2>4, MovesShrinks, Zenon DEF Shrinks, TypeOK
<1> QED
  BY <1>2, <1>3, Zenon

LEMMA ReserveShrinks ==
  ASSUME TypeInv, NEW p \in Procs, NEW s \in Sandboxes, Reserve(p, s), ~Reserved(p, s, CleanStale)
  PROVE  Shrinks
<1>0. TypeOK /\ req[p].pc = "idle"
  BY Zenon DEF TypeInv, Reserve
<1>1. /\ AlreadyInStorage(p, s) \/ AlreadyPending(p, s, CleanStale) \/ Refused(p, s, CleanStale)
      /\ pending' = CleanStale /\ starts' = starts /\ index' = index /\ Drops(CleanStale)
  BY Zenon DEF Reserve, AlreadyInStorage, AlreadyPending, Refused
<1>2. /\ NoNewStart
      /\ \A q \in Procs : req'[q].pc \in {"place", "add"} =>
           req[q].pc \in {"place", "add"} /\ req'[q].s = req[q].s
  <2>1. CASE AlreadyInStorage(p, s)
    BY <1>0, <2>1, RemoveMoves, MovesShrinks, Zenon
  <2>2. CASE req' = req
    BY <2>2, Zenon DEF NoNewStart
  <2>3. CASE AlreadyPending(p, s, CleanStale) /\ req' # req
    BY <2>3, JoinedStep, Zenon DEF Becomes, NoNewStart, StartPCs
  <2> QED
    BY <1>1, <2>1, <2>2, <2>3, Zenon DEF Refused
<1>3. OnlyDrops
  BY <1>0, <1>1, CleanDrops, Zenon
<1>4. Counted' \subseteq Counted
  BY <1>1, <1>2, <1>3, BootingShrinks, Zenon DEF Counted
<1> QED
  BY <1>0, <1>1, <1>2, <1>3, <1>4, DropsRecorded, Zenon DEF Shrinks

(* Every step shrinks, unless it reserves. *)
LEMMA ShrinksOrReserves ==
  ASSUME TypeInv, [Next]_vars
  PROVE  \/ Shrinks
         \/ \E p \in Procs, s \in Sandboxes : Reserve(p, s) /\ Reserved(p, s, CleanStale)
<1>0. TypeOK
  BY Zenon DEF TypeInv
<1>1. ASSUME NEW p \in Procs, NEW s \in Sandboxes, Remove(p, s) PROVE Shrinks
  <2>1. UNCHANGED <<pending, starts, lost>> /\ index' \subseteq index
    BY <1>1, Zenon DEF Remove
  <2>2. OnlyDrops
    BY <1>0, <2>1, Zenon DEF OnlyDrops, TypeOK
  <2>3. Counted' \subseteq Counted
    BY <1>1, <2>1, <2>2, RemoveMoves, MovesShrinks, BootingShrinks, Zenon DEF Counted
  <2> QED
    BY <1>0, <1>1, <2>1, <2>2, <2>3, RemoveMoves, MovesShrinks, Zenon DEF Shrinks, TypeOK
<1>2. ASSUME UNCHANGED <<index, req, starts, lost>>, OnlyDrops,
             \A s \in Sandboxes : pending'[s] = None <=> pending[s] = None
      PROVE  Shrinks
  <2>1. Counted' \subseteq Counted
    BY <1>2, BootingShrinks, Zenon DEF Counted
  <2> QED
    BY <1>0, <1>2, <2>1, Zenon DEF Shrinks, TypeOK, NoNewStart
<1>3. ASSUME NEW s \in Sandboxes, Expire(s) PROVE Shrinks
  BY <1>0, <1>2, <1>3, Zenon DEF Expire, OnlyDrops, TypeOK
<1>4. CASE Tick
  BY <1>0, <1>2, <1>4, TickDrops, Zenon DEF Tick
<1>5. CASE UNCHANGED vars
  BY <1>0, <1>2, <1>5, Zenon DEF vars, OnlyDrops, TypeOK
<1> QED
  BY <1>1, <1>3, <1>4, <1>5, StepShrinks, ReserveShrinks DEF Next

LEMMA ShrinksEntry ==
  ASSUME EntryInv, TypeInv', Shrinks
  PROVE  EntryInv'
<1>1. Running' \subseteq Running /\ \A p \in Running' : p \in Procs /\ req'[p].s = req[p].s /\ req'[p].start = req[p].start
  BY Zenon DEF Running, Shrinks, NoNewStart
<1>2. \A p, q \in Running' : req'[p].start = req'[q].start => p = q
  BY <1>1 DEF EntryInv
<1>3. \A p \in Running', s \in Pending(pending)' : pending'[s].start = req'[p].start => s = req'[p].s
  BY <1>1 DEF EntryInv, Pending, Shrinks, OnlyDrops
<1>4. ASSUME NEW p \in Running' PROVE req'[p].start \in lost' \/ HasEntry(p)'
  <2>1. req'[p].start \in Live' /\ req'[p].s \in Sandboxes
    BY <1>1, Zenon DEF Live, TypeInv, CallInv, Running, StartPCs
  <2>2. CASE req[p].start \in lost
    BY <1>1, <2>2, Zenon DEF Shrinks
  <2>3. CASE HasEntry(p)
    BY <1>1, <2>1, <2>3 DEF Shrinks, OnlyDrops, HasEntry
  <2> QED
    BY <1>1, <2>2, <2>3, Zenon DEF EntryInv
<1> QED
  BY <1>2, <1>3, <1>4, Zenon DEF EntryInv

LEMMA ReservedEntry ==
  ASSUME EntryInv, TypeInv', NEW p \in Procs, NEW s \in Sandboxes,
         Reserve(p, s), Reserved(p, s, CleanStale)
  PROVE  EntryInv'
<1> USE DEF EntryInv
<1>0. TypeOK /\ TypeInv /\ starts \in Nat /\ req[p].pc = "idle"
  BY DEF TypeInv, TypeOK, Reserve
<1>1. /\ starts' = starts + 1
      /\ req'[p].pc = "place" /\ req'[p].s = s /\ req'[p].start = starts + 1
      /\ \A q \in Procs \ {p} : req'[q] = req[q]
  BY <1>0, ReservedStep, Zenon DEF Becomes
<1>2. Running' = Running \cup {p} /\ p \notin Running
  BY <1>0, <1>1, Zenon DEF Running, StartPCs
<1>3. \A q \in Running : q \in Procs \ {p} /\ req[q].start \in 1..starts /\ req[q].s \in Sandboxes
  BY <1>0, <1>2, Zenon DEF Running, TypeInv, CallInv, StartPCs
<1>4. /\ pending'[s] # None /\ pending'[s].start = starts + 1
      /\ \A t \in Sandboxes \ {s} : pending'[t] = CleanStale[t]
  BY <1>0, ReservedStep, NoneAssumption, Zenon
<1>5. \A t \in Sandboxes : pending[t] # None => pending[t].start \in 1..starts
  BY <1>0, Zenon DEF TypeInv
<1>6. \A q, r \in Running' : req'[q].start = req'[r].start => q = r
  BY <1>0, <1>1, <1>2, <1>3
<1>7. \A q \in Running', t \in Pending(pending)' : pending'[t].start = req'[q].start => t = req'[q].s
  BY <1>0, <1>1, <1>2, <1>3, <1>4, <1>5, CleanStaleDrops DEF Pending
<1>8. ASSUME NEW q \in Running' PROVE req'[q].start \in lost' \/ HasEntry(q)'
  <2>1. CASE q = p
    BY <1>1, <1>4, <2>1, Zenon DEF HasEntry
  <2>2. CASE q # p
    <3>1. q \in Running /\ req'[q] = req[q]
      BY <1>1, <1>2, <2>2, <1>3, Zenon
    <3>2. CASE req[q].start \in lost
      BY <1>0, <3>1, <3>2, DropsType, Zenon DEF Reserve
    <3>3. CASE HasEntry(q)
      <4>1. req[q].s \in Sandboxes /\ req[q].start \in Live'
        BY <1>3, <3>1, Zenon DEF Live
      <4>2. CASE CleanStale[req[q].s] = None
        <5>1. req[q].s \in Pending(pending) \ Pending(CleanStale)
          BY <3>3, <4>1, <4>2, Zenon DEF Pending, HasEntry
        <5> QED
          BY <3>1, <3>3, <4>1, <5>1 DEF Reserve, Drops, HasEntry
      <4>3. CASE CleanStale[req[q].s] = pending[req[q].s] /\ CleanStale[req[q].s] # None
        <5>1. req[q].s # s
          BY <4>3, Zenon DEF Reserved
        <5> QED
          BY <1>4, <3>1, <3>3, <4>1, <4>3, <5>1 DEF HasEntry
      <4> QED
        BY <1>0, <4>1, <4>2, <4>3, CleanStaleDrops, Zenon
    <3> QED
      BY <3>1, <3>2, <3>3, Zenon
  <2> QED
    BY <2>1, <2>2, Zenon
<1> QED
  BY <1>6, <1>7, <1>8, Zenon

LEMMA EntryStep == EntryInv /\ [Next]_vars => EntryInv'
<1> SUFFICES ASSUME EntryInv, [Next]_vars PROVE EntryInv'
  BY Zenon
<1>1. TypeInv /\ TypeInv'
  BY TypeStep, Zenon DEF EntryInv
<1> QED
  BY <1>1, ShrinksOrReserves, ShrinksEntry, ReservedEntry, Zenon

LEMMA InitEntry == Init => EntryInv
  BY InitType DEF Init, EntryInv, Running, Idle, StartPCs

LEMMA EntryOneStart == EntryInv => OneStart
<1> SUFFICES ASSUME EntryInv, NEW p \in Running, NEW q \in Running, p # q, req[p].s = req[q].s
             PROVE  {req[p].start, req[q].start} \cap lost # {}
  BY Zenon DEF OneStart
<1> QED
  BY DEF EntryInv, HasEntry

(* Type correctness: the keys of a team and the calls under way keep their *)
(* types, for every team limit and number of calls and sandboxes.          *)
THEOREM ReservationsTypeCorrect == Spec => []TypeOK
<1>1. Init => TypeInv
  BY InitType, Zenon
<1>2. TypeInv /\ [Next]_vars => TypeInv'
  BY TypeStep, Zenon
<1>3. TypeInv => TypeOK
  BY Zenon DEF TypeInv
<1> QED
  BY <1>1, <1>2, <1>3, PTL DEF Spec

(* A sandbox is not started twice: of two starts of one sandbox under way  *)
(* one has lost the entry by which Reserve would have found it.            *)
THEOREM StartedOnce == Spec => []OneStart
<1>1. Init => EntryInv
  BY InitEntry, Zenon
<1>2. EntryInv /\ [Next]_vars => EntryInv'
  BY EntryStep, Zenon
<1>3. EntryInv => OneStart
  BY EntryOneStart, Zenon
<1> QED
  BY <1>1, <1>2, <1>3, PTL DEF Spec

(* The entry that is dropped is the one of the sandbox that the start is   *)
(* of, and it is dropped by age, by FinishStart or by Release.             *)
LEMMA LostHow ==
  ASSUME EntryInv, Next, NEW p \in Running, req[p].start \in lost' \ lost
  PROVE  \/ pending[req[p].s].age = StaleTTL
         \/ \E q \in Procs \ {p} : req[q].s = req[p].s /\ req[q].pc \in {"release", "finish"}
<1>0. TypeOK /\ p \in Procs
  BY Zenon DEF EntryInv, TypeInv, Running
<1>1. ASSUME NEW z, Drops(z)
      PROVE  req[p].s \in Pending(pending) \ Pending(z) /\ req[p].start \in Live'
  <2>1. PICK s \in Pending(pending) \ Pending(z) : pending[s].start = req[p].start /\ pending[s].start \in Live'
    BY <1>1, Zenon DEF Drops
  <2>2. s = req[p].s
    BY <2>1, Zenon DEF EntryInv
  <2> QED
    BY <2>1, <2>2, Zenon
<1>2. ASSUME NEW q \in Procs, NEW s \in Sandboxes, Reserve(q, s)
      PROVE  pending[req[p].s].age = StaleTTL
  <2>1. req[p].s \in Pending(pending) \ Pending(CleanStale)
    BY <1>1, <1>2, Zenon DEF Reserve
  <2> QED
    BY <1>0, <2>1, CleanStaleDrops, Zenon DEF Pending
<1>3. ASSUME NEW q \in Procs, FinishStart(q) \/ Release(q)
      PROVE  q # p /\ req[q].s = req[p].s /\ req[q].pc \in {"release", "finish"}
  <2>1. req[p].s \in Pending(pending) \ Pending(pending') /\ req[p].start \in Live'
    BY <1>1, <1>3, Zenon DEF FinishStart, Release
  <2>2. req[q].s = req[p].s
    BY <1>0, <1>3, <2>1, Zenon DEF FinishStart, Release, Pending, TypeOK
  <2>3. PICK r \in Running' : req'[r].start = req[p].start
    BY <2>1, Zenon DEF Live
  <2>4. req'[q].pc = "idle" /\ \A o \in Procs \ {q} : req'[o] = req[o]
    BY <1>0, <1>3, ReturnsStep, Zenon DEF FinishStart, Release, Becomes
  <2>5. r # q /\ r \in Running /\ req[r].start = req[p].start
    BY <2>3, <2>4, Zenon DEF Running, StartPCs
  <2>6. r = p
    BY <2>5, Zenon DEF EntryInv
  <2> QED
    BY <1>3, <2>2, <2>5, <2>6, Zenon DEF FinishStart, Release
<1>4. (\E q \in Procs, s \in Sandboxes : Reserve(q, s)) \/ \E q \in Procs : FinishStart(q) \/ Release(q)
  BY Zenon
     DEF Next, Step, GivesUp, Crash, Place, Add, GetResult, CheckPending, ReadAgain, Respond,
         Remove, Expire, Tick
<1> QED
  BY <1>2, <1>3, <1>4, Zenon

(* What costs a start its entry: age, a release after a removal, or the    *)
(* end of another start of the same sandbox, and nothing else.             *)
THEOREM EntriesKept == Spec => EntryKept
<1> DEFINE A == \A p \in Running : req[p].start \in lost' \ lost =>
                  \/ pending[req[p].s].age = StaleTTL
                  \/ \E q \in Procs \ {p} : req[q].s = req[p].s /\ req[q].pc \in {"release", "finish"}
<1>1. Init => EntryInv
  BY InitEntry, Zenon
<1>2. EntryInv /\ [Next]_vars => EntryInv'
  BY EntryStep, Zenon
<1>3. EntryInv /\ [Next]_vars => [A]_vars
  BY LostHow, Zenon
<1> QED
  BY <1>1, <1>2, <1>3, PTL DEF Spec, EntryKept

(***************************************************************************)
(* The limit.  The sandboxes that are being booted without an entry are as *)
(* many as lost starts at most: each of them has a lost start of its own.  *)
(***************************************************************************)
LEMMA LostFinite == TypeOK => IsFiniteSet(lost) /\ IsFiniteSet(Counted)
<1> SUFFICES ASSUME TypeOK PROVE IsFiniteSet(lost) /\ IsFiniteSet(Counted)
  BY Zenon
<1>1. IsFiniteSet(Starts)
  BY FS_Interval, ReservationAssumption DEF Starts
<1>2. IsFiniteSet(lost)
  BY <1>1, FS_Subset, Zenon DEF TypeOK
<1>3. Booting \subseteq Sandboxes \cup {None}
  BY Zenon DEF Booting, TypeOK, Requests
<1>4. IsFiniteSet(Sandboxes \cup {None})
  BY FS_AddElement, ReservationAssumption, Zenon
<1>5. Counted \subseteq Sandboxes \cup {None}
  BY <1>3, Zenon DEF Counted, Pending, TypeOK
<1> QED
  BY <1>2, <1>4, <1>5, FS_Subset, Zenon

LEMMA BootingLost == EntryInv => Cardinality(Booting \ Pending(pending)) <= Cardinality(lost)
<1> SUFFICES ASSUME EntryInv PROVE Cardinality(Booting \ Pending(pending)) <= Cardinality(lost)
  BY Zenon
<1> DEFINE B == Booting \ Pending(pending)
           boots(p, b) == p \in Running /\ req[p].s = b /\ req[p].start \in lost
           f == [b \in B |-> CHOOSE k \in lost : \E p \in Procs : boots(p, b) /\ req[p].start = k]
<1>1. ASSUME NEW b \in B
      PROVE  f[b] \in lost /\ \E p \in Procs : boots(p, b) /\ req[p].start = f[b]
  <2>1. PICK p \in Procs : req[p].pc \in {"place", "add"} /\ req[p].s = b
    BY Zenon DEF Booting
  <2>2. p \in Running /\ req[p].s \in Sandboxes
    BY <2>1, Zenon DEF Running, StartPCs, EntryInv, TypeInv, CallInv
  <2>3. req[p].start \in lost
    BY <2>1, <2>2, Zenon DEF EntryInv, HasEntry, Pending
  <2>4. \E k \in lost : \E q \in Procs : boots(q, b) /\ req[q].start = k
    BY <2>1, <2>2, <2>3, Zenon
  <2> HIDE DEF B, boots
  <2> QED
    BY <2>4, Zenon
<1>2. f \in [B -> lost]
  BY <1>1, Zenon
<1>3. ASSUME NEW b \in B, NEW c \in B, f[b] = f[c] PROVE b = c
  <2>1. PICK p \in Procs : boots(p, b) /\ req[p].start = f[b]
    BY <1>1, Zenon
  <2>2. PICK q \in Procs : boots(q, c) /\ req[q].start = f[c]
    BY <1>1, Zenon
  <2> HIDE DEF f
  <2> QED
    BY <1>3, <2>1, <2>2, Zenon DEF EntryInv
<1>4. f \in Injection(B, lost)
  <2> HIDE DEF f, B
  <2> QED
    BY <1>2, <1>3, Zenon DEF Injection, IsInjective
<1>5. IsFiniteSet(lost)
  BY LostFinite, Zenon DEF EntryInv, TypeInv
<1> HIDE DEF f, B
<1>6. Cardinality(B) <= Cardinality(lost)
  BY <1>4, <1>5, FS_Injection, Zenon
<1> QED
  BY <1>6, Zenon DEF B

LEMMA ReservedLimit ==
  ASSUME EntryInv, EntryInv', NEW p \in Procs, NEW s \in Sandboxes,
         Reserve(p, s), Reserved(p, s, CleanStale), Limit >= 0
  PROVE  Cardinality(Counted') <= Limit + Cardinality(lost')
<1> DEFINE Z == Pending(CleanStale)
           B == Booting' \ Pending(pending')
<1>0. TypeOK /\ TypeInv /\ TypeOK'
  BY Zenon DEF EntryInv, TypeInv
<1>1. Pending(pending') = Z \cup {s}
  BY <1>0, ReservedStep, NoneAssumption, Zenon DEF Pending
<1>2. Counted' = ((index \cup Z) \cup {s}) \cup B
  BY <1>1, Zenon DEF Counted, Reserve
<1>3. IsFiniteSet(index) /\ IsFiniteSet(Z) /\ IsFiniteSet({s})
  BY <1>0, FS_Subset, FS_Singleton, ReservationAssumption, Zenon DEF TypeOK, Pending
<1>4. Cardinality(B) <= Cardinality(lost')
  <2>1. (EntryInv => Cardinality(Booting \ Pending(pending)) <= Cardinality(lost))'
    BY BootingLost, PTL
  <2> QED
    BY <2>1, Zenon
<1>5. IsFiniteSet(B) /\ IsFiniteSet(lost') /\ IsFiniteSet(Counted')
  <2>1. (TypeOK => IsFiniteSet(lost) /\ IsFiniteSet(Counted))'
    BY LostFinite, PTL
  <2>2. B \subseteq Counted'
    BY <1>2, Zenon
  <2> QED
    BY <1>0, <2>1, <2>2, FS_Subset, Zenon
<1>6. Cardinality(index) + Cardinality(Z) < Limit /\ Limit \in Int
  <2>1. /\ Cardinality(index) \in Nat /\ Cardinality(Z) \in Nat /\ Limit \in Int
        /\ ~(Cardinality(index) + Cardinality(Z) >= Limit)
    BY <1>3, FS_CardinalityType, ReservationAssumption, Zenon DEF Reserved, LimitExceeded
  <2> HIDE DEF Z
  <2> QED
    BY <2>1
<1> HIDE DEF Z, B
<1>7. /\ IsFiniteSet(index \cup Z)
      /\ Cardinality(index \cup Z) <= Cardinality(index) + Cardinality(Z)
  <2>1. /\ IsFiniteSet(index \cup Z)
        /\ Cardinality(index \cup Z) = Cardinality(index) + Cardinality(Z) - Cardinality(index \cap Z)
    BY <1>3, FS_Union, Zenon
  <2>2. Cardinality(index \cap Z) \in Nat /\ Cardinality(index) \in Nat /\ Cardinality(Z) \in Nat
    BY <1>3, FS_Subset, FS_CardinalityType, Zenon
  <2> QED
    BY <2>1, <2>2
<1>8. /\ IsFiniteSet((index \cup Z) \cup {s})
      /\ Cardinality((index \cup Z) \cup {s}) <= Cardinality(index \cup Z) + 1
  <2> DEFINE U == index \cup Z
  <2>1. IsFiniteSet(U)
    BY <1>7, Zenon
  <2> HIDE DEF U
  <2>2. /\ IsFiniteSet(U \cup {s})
        /\ Cardinality(U \cup {s}) = IF s \in U THEN Cardinality(U) ELSE Cardinality(U) + 1
    BY <2>1, FS_AddElement, Zenon
  <2>3. Cardinality(U) \in Nat
    BY <2>1, FS_CardinalityType, Zenon
  <2> QED
    BY <2>2, <2>3 DEF U
<1>9. Cardinality(Counted') <= Cardinality((index \cup Z) \cup {s}) + Cardinality(B)
  <2> DEFINE A == (index \cup Z) \cup {s}
  <2>1. IsFiniteSet(A)
    BY <1>8, Zenon
  <2>2. Counted' = A \cup B
    BY <1>2, Zenon
  <2> HIDE DEF A
  <2>3. Cardinality(A \cup B) = Cardinality(A) + Cardinality(B) - Cardinality(A \cap B)
    BY <1>5, <2>1, FS_Union
  <2>4. Cardinality(A \cap B) \in Nat /\ Cardinality(A) \in Nat /\ Cardinality(B) \in Nat
    BY <1>5, <2>1, FS_Subset, FS_CardinalityType, Zenon
  <2> QED
    BY <2>2, <2>3, <2>4 DEF A
<1>10. /\ Cardinality(index) \in Nat /\ Cardinality(Z) \in Nat /\ Cardinality(B) \in Nat
       /\ Cardinality(lost') \in Nat /\ Cardinality(index \cup Z) \in Nat
       /\ Cardinality((index \cup Z) \cup {s}) \in Nat
       /\ Cardinality(Counted') \in Nat
  BY <1>3, <1>5, <1>7, <1>8, FS_CardinalityType, Zenon
<1> QED
  BY <1>4, <1>6, <1>7, <1>8, <1>9, <1>10

LEMMA LimitStep == EntryInv /\ LimitKept /\ [Next]_vars => LimitKept'
<1> SUFFICES ASSUME EntryInv, LimitKept, [Next]_vars, Limit >= 0
             PROVE  Cardinality(Counted') <= Limit + Cardinality(lost')
  BY Zenon DEF LimitKept, Counted
<1>1. EntryInv' /\ TypeInv /\ TypeOK /\ TypeOK'
  BY EntryStep, Zenon DEF EntryInv, TypeInv
<1>2. CASE Shrinks
  <2>1. IsFiniteSet(Counted) /\ IsFiniteSet(lost')
    <3>1. (TypeOK => IsFiniteSet(lost) /\ IsFiniteSet(Counted))'
      BY LostFinite, PTL
    <3> QED
      BY <1>1, <3>1, LostFinite, Zenon
  <2>2. /\ Cardinality(Counted') <= Cardinality(Counted) /\ IsFiniteSet(Counted')
        /\ Cardinality(lost) <= Cardinality(lost') /\ IsFiniteSet(lost)
    BY <1>2, <2>1, FS_Subset, Zenon DEF Shrinks
  <2>3. /\ Cardinality(Counted) \in Nat /\ Cardinality(Counted') \in Nat
        /\ Cardinality(lost) \in Nat /\ Cardinality(lost') \in Nat /\ Limit \in Int
    BY <2>1, <2>2, FS_CardinalityType, ReservationAssumption, Zenon
  <2>4. Cardinality(Counted) <= Limit + Cardinality(lost)
    BY Zenon DEF LimitKept, Counted
  <2> QED
    BY <2>2, <2>3, <2>4
<1> QED
  BY <1>1, <1>2, ShrinksOrReserves, ReservedLimit, Zenon

LEMMA InitLimit == Init => LimitKept
<1> SUFFICES ASSUME Init, Limit >= 0 PROVE Cardinality(Counted) <= Limit + Cardinality(lost)
  BY Zenon DEF LimitKept, Counted
<1>1. Counted = {} /\ lost = {}
  <2>1. \A p \in Procs : req[p].pc = "idle"
    BY Zenon DEF Init, Idle
  <2>2. Booting = {} /\ Pending(pending) = {}
    BY <2>1, Zenon DEF Init, Booting, Pending
  <2> QED
    BY <2>2, Zenon DEF Init, Counted
<1> QED
  BY <1>1, FS_EmptySet, ReservationAssumption

(* The limit of the team holds, up to the starts that go on without their  *)
(* entry, for every limit, staleTTL and number of concurrent calls.        *)
THEOREM TeamLimitKept == Spec => []LimitKept
<1>1. Init => EntryInv /\ LimitKept
  BY InitEntry, InitLimit, Zenon
<1>2. (EntryInv /\ LimitKept) /\ [Next]_vars => (EntryInv /\ LimitKept)'
  BY EntryStep, LimitStep, Zenon
<1> QED
  BY <1>1, <1>2, PTL DEF Spec

(***************************************************************************)
(* The results.  Whatever the step, a start or an entry that was not there *)
(* before is later than all that were.                                     *)
(***************************************************************************)
Fresh ==
  /\ lost \subseteq lost'
  /\ \A q \in Running' : \/ q \in Running /\ req'[q].s = req[q].s /\ req'[q].start = req[q].start
                         \/ req'[q].start = starts + 1
  /\ \A s \in Sandboxes : pending'[s] # None => \/ pending[s] # None /\ pending'[s].start = pending[s].start
                                                \/ pending'[s].start = starts + 1

LEMMA NextFresh ==
  ASSUME TypeInv, [Next]_vars
  PROVE  Fresh
<1>1. CASE Shrinks
  BY <1>1, Zenon DEF Shrinks, Fresh, OnlyDrops, NoNewStart, Running
<1>2. ASSUME NEW p \in Procs, NEW s \in Sandboxes, Reserve(p, s), Reserved(p, s, CleanStale)
      PROVE  Fresh
  <2>0. TypeOK
    BY Zenon DEF TypeInv
  <2>1. lost \subseteq lost'
    BY <1>2, <2>0, DropsType, Zenon DEF Reserve
  <2>2. \A q \in Running' : \/ q \in Running /\ req'[q].s = req[q].s /\ req'[q].start = req[q].start
                            \/ req'[q].start = starts + 1
    BY <1>2, ReservedStep, Zenon DEF Becomes, Running
  <2>3. \A t \in Sandboxes : pending'[t] # None => \/ pending[t] # None /\ pending'[t].start = pending[t].start
                                                   \/ pending'[t].start = starts + 1
    BY <1>2, <2>0, ReservedStep, CleanStaleDrops, Zenon
  <2> QED
    BY <2>1, <2>2, <2>3, Zenon DEF Fresh
<1> QED
  BY <1>1, <1>2, ShrinksOrReserves, Zenon

(* What the request finds after the step is what it would have found       *)
(* before, or nothing, or as good as JoinInv has it.                       *)
FindsLater(q) ==
  \/ result'[req[q].s] \in {result[req[q].s], None}
  \/ req[q].pc \notin WaitPCs
  \/ result'[req[q].s].start >= req[q].start
  \/ result'[req[q].s].start \in lost'

(* A request that goes on waiting for the start that it joined. *)
LEMMA KeepsWaiting ==
  ASSUME EntryInv, NEW p \in Procs, JoinInv(p), Fresh,
         req'[p].pc \in WaitPCs =>
           req[p].pc \in WaitPCs /\ req'[p].s = req[p].s /\ req'[p].start = req[p].start,
         req'[p].pc = "reget" => req[p].pc = "reget" \/ pending[req[p].s] = None,
         FindsLater(p)
  PROVE  JoinInv(p)'
<1> SUFFICES ASSUME req'[p].pc \in WaitPCs
             PROVE  JoinInv(p)'
  BY Zenon DEF JoinInv
<1>1. req[p].pc \in WaitPCs /\ req'[p].s = req[p].s /\ req'[p].start = req[p].start
  BY Zenon
<1>2. req[p].s \in Sandboxes /\ req[p].start \in 1..starts /\ starts \in Nat
  BY <1>1 DEF EntryInv, TypeInv, TypeOK, CallInv, WaitPCs
<1>3. pending'[req[p].s] # None => pending'[req[p].s].start >= req[p].start
  BY <1>1, <1>2 DEF JoinInv, Fresh
<1>4. result'[req[p].s] # None =>
        result'[req[p].s].start >= req[p].start \/ result'[req[p].s].start \in lost'
  BY <1>1, Zenon DEF JoinInv, Fresh, FindsLater
<1>5. \A q \in Running' : req'[q].start = req[p].start =>
        q \in Running /\ req'[q].s = req[q].s /\ req[q].start = req[p].start
  BY <1>2 DEF Fresh
<1>6. \A q \in Running' : req'[q].start = req[p].start => req'[q].s = req[p].s
  BY <1>1, <1>5, Zenon DEF JoinInv
<1>7. ASSUME req'[p].pc = "reget" PROVE req[p].start \notin Live' \ lost'
  <2> SUFFICES ASSUME req[p].start \in Live', req[p].start \notin lost' PROVE FALSE
    BY Zenon
  <2>1. PICK q \in Running : req[q].start = req[p].start
    BY <1>5, Zenon DEF Live
  <2>2. req[p].start \in Live /\ req[p].start \notin lost
    BY <2>1, Zenon DEF Live, Fresh
  <2>3. pending[req[p].s] = None
    BY <1>1, <1>7, <2>2, Zenon DEF JoinInv
  <2>4. req[q].s = req[p].s
    BY <1>1, <2>1, Zenon DEF JoinInv
  <2> QED
    BY <2>1, <2>2, <2>3, <2>4, Zenon DEF EntryInv, HasEntry
<1> QED
  BY <1>1, <1>3, <1>4, <1>6, <1>7, Zenon DEF JoinInv

(* A step of p after which no other request waits for something new. *)
LEMMA OthersWait ==
  ASSUME ResultInv, NEW p \in Procs, Fresh, JoinInv(p)',
         \A q \in Procs \ {p} : req'[q] = req[q],
         \A q \in Procs \ {p} : FindsLater(q)
  PROVE  \A q \in Procs : JoinInv(q)'
<1>1. ASSUME NEW q \in Procs \ {p} PROVE JoinInv(q)'
  BY KeepsWaiting, Zenon DEF ResultInv
<1> QED
  BY <1>1, Zenon

LEMMA StepJoin ==
  ASSUME ResultInv, EntryInv', NEW p \in Procs, Step(p) \/ GivesUp(p) \/ Crash(p), Fresh
  PROVE  /\ \A s \in Sandboxes : pending'[s] = None \/ result'[s] = None
         /\ \A q \in Procs : JoinInv(q)'
<1>0. EntryInv /\ TypeInv /\ TypeOK /\ CallInv(p) /\ JoinInv(p)
  BY Zenon DEF ResultInv, EntryInv, TypeInv
<1>1. /\ \A q \in Procs \ {p} : req'[q] = req[q]
      /\ req'[p].pc \in WaitPCs =>
           req[p].pc \in WaitPCs /\ req'[p].s = req[p].s /\ req'[p].start = req[p].start
  BY <1>0, StepMoves, Zenon DEF Moves
<1>2. CASE FinishStart(p)
  <2>1. req[p].s \in Sandboxes /\ p \in Running
    BY <1>0, <1>2, Zenon DEF FinishStart, CallInv, Running, StartPCs
  <2>2. req'[p].pc = "idle"
    BY <1>0, <1>2, ReturnsStep, Zenon DEF FinishStart, Becomes
  <2>3. JoinInv(p)'
    BY <2>2, Zenon DEF JoinInv, WaitPCs
  <2>4. \/ pending'[req[p].s] = None /\ result'[req[p].s] = [start |-> req[p].start, ok |-> req[p].ok]
        \/ pending'[req[p].s] \in {None, pending[req[p].s]} /\ result'[req[p].s] = result[req[p].s]
    BY <1>0, <1>2, <2>1, Zenon DEF FinishStart, TypeOK
  <2>5. \A s \in Sandboxes \ {req[p].s} : pending'[s] = pending[s] /\ result'[s] = result[s]
    BY <1>0, <1>2, <2>1, Zenon DEF FinishStart, TypeOK
  <2>6. ASSUME NEW q \in Procs \ {p}, result'[req[q].s] # result[req[q].s], req[q].pc \in WaitPCs
        PROVE  result'[req[q].s].start >= req[q].start \/ result'[req[q].s].start \in lost'
    <3>1. req[q].s \in Sandboxes /\ req[q].start \in 1..starts /\ JoinInv(q)
      BY <1>0, <2>6, Zenon DEF TypeInv, CallInv, WaitPCs, ResultInv
    <3>2. req[q].s = req[p].s /\ result'[req[q].s].start = req[p].start
      BY <2>4, <2>5, <2>6, <3>1
    <3>3. CASE req[p].start \in lost
      BY <3>2, <3>3, Zenon DEF Fresh
    <3>4. CASE HasEntry(p)
      BY <2>6, <3>1, <3>2, <3>4, Zenon DEF HasEntry, JoinInv
    <3> QED
      BY <1>0, <2>1, <3>3, <3>4, Zenon DEF EntryInv
  <2>7. \A q \in Procs : JoinInv(q)'
    <3>1. \A q \in Procs \ {p} : FindsLater(q)
      BY <2>6, Zenon DEF FindsLater
    <3> QED
      BY <1>1, <2>3, <3>1, OthersWait, Zenon
  <2> QED
    BY <2>4, <2>5, <2>7, Zenon DEF ResultInv
<1>3. CASE Release(p)
  <2>1. req[p].s \in Sandboxes
    BY <1>0, <1>3, Zenon DEF Release, CallInv
  <2>2. req'[p].pc = "idle"
    BY <1>0, <1>3, ReturnsStep, Zenon DEF Release, Becomes
  <2>3. JoinInv(p)'
    BY <2>2, Zenon DEF JoinInv, WaitPCs
  <2>4. \A s \in Sandboxes : \/ pending'[s] = pending[s] /\ result'[s] = result[s]
                             \/ pending'[s] = None /\ result'[s] = None
    BY <1>0, <1>3, <2>1, Zenon DEF Release, TypeOK
  <2>5. ASSUME NEW q \in Procs, req[q].pc \in WaitPCs PROVE req[q].s \in Sandboxes
    BY <1>0, <2>5, Zenon DEF TypeInv, CallInv, WaitPCs
  <2>6. \A q \in Procs : JoinInv(q)'
    <3>1. \A q \in Procs \ {p} : FindsLater(q)
      BY <2>4, <2>5, Zenon DEF FindsLater
    <3> QED
      BY <1>1, <2>3, <3>1, OthersWait, Zenon
  <2> QED
    BY <2>4, <2>6, Zenon DEF ResultInv
<1>4. CASE ~(FinishStart(p) \/ Release(p))
  <2>1. UNCHANGED <<pending, result>>
    BY <1>4, Zenon DEF Step, GivesUp, Crash, Place, Add, GetResult, CheckPending, ReadAgain, Respond
  <2>2. req'[p].pc = "reget" => pending[req[p].s] = None
    <3>1. CASE CheckPending(p)
      <4>1. Becomes(p, IF pending[req[p].s] = None THEN "reget" ELSE "get", req[p].s, req[p].start, req[p].answer)
        BY <1>0, <3>1, GotoStep, Zenon DEF CheckPending, PCs, WaitPCs
      <4> QED
        BY <4>1, Zenon DEF Becomes
    <3>2. CASE ~CheckPending(p)
      BY <1>0, <1>4, <3>2
         DEF Step, GivesUp, Crash, Place, Add, GetResult, ReadAgain, Respond,
             Goto, Finishing, Answers, Returns, Idle, TypeOK, Requests
    <3> QED
      BY <3>1, <3>2, Zenon
  <2>3. JoinInv(p)'
    BY <1>0, <1>1, <2>1, <2>2, KeepsWaiting, Zenon DEF FindsLater
  <2>4. \A q \in Procs \ {p} : FindsLater(q)
    BY <2>1, Zenon DEF FindsLater
  <2> QED
    BY <1>1, <2>1, <2>3, <2>4, OthersWait, Zenon DEF ResultInv
<1> QED
  BY <1>2, <1>3, <1>4, Zenon

LEMMA ReserveJoin ==
  ASSUME ResultInv, EntryInv', NEW p \in Procs, NEW s \in Sandboxes, Reserve(p, s), Fresh
  PROVE  /\ \A t \in Sandboxes : pending'[t] = None \/ result'[t] = None
         /\ \A q \in Procs : JoinInv(q)'
<1>0. EntryInv /\ TypeInv /\ TypeOK /\ req[p].pc = "idle"
  BY Zenon DEF ResultInv, EntryInv, TypeInv, Reserve
<1>1. CASE Reserved(p, s, CleanStale)
  <2>1. req'[p].pc = "place" /\ \A q \in Procs \ {p} : req'[q] = req[q]
    BY <1>0, <1>1, ReservedStep, Zenon DEF Becomes
  <2>2. JoinInv(p)'
    BY <2>1, Zenon DEF JoinInv, WaitPCs
  <2>3. \A t \in Sandboxes : result'[t] \in {None, result[t]} /\ (t = s => result'[t] = None)
    BY <1>0, <1>1, Zenon DEF Reserved, TypeOK
  <2>4. \A t \in Sandboxes \ {s} : pending'[t] \in {None, pending[t]}
    BY <1>0, <1>1, ReservedStep, CleanStaleDrops, Zenon
  <2>5. \A q \in Procs : req[q].pc \in WaitPCs => req[q].s \in Sandboxes
    BY <1>0, Zenon DEF TypeInv, CallInv, WaitPCs
  <2>6. \A q \in Procs : JoinInv(q)'
    <3>1. \A q \in Procs \ {p} : FindsLater(q)
      BY <2>3, <2>5, Zenon DEF FindsLater
    <3> QED
      BY <2>1, <2>2, <3>1, OthersWait, Zenon
  <2> QED
    BY <2>3, <2>4, <2>6, Zenon DEF ResultInv
<1>2. CASE ~Reserved(p, s, CleanStale)
  <2>1. /\ AlreadyInStorage(p, s) \/ AlreadyPending(p, s, CleanStale) \/ Refused(p, s, CleanStale)
        /\ pending' = CleanStale /\ result' = result
    BY <1>2, Zenon DEF Reserve, AlreadyInStorage, AlreadyPending, Refused
  <2>2. \A t \in Sandboxes : pending'[t] = None \/ result'[t] = None
    BY <1>0, <2>1, CleanStaleDrops, Zenon DEF ResultInv
  <2>a. \A q \in Procs : FindsLater(q)
    BY <2>1, Zenon DEF FindsLater
  <2>3. CASE req' = req
    <3>1. ASSUME NEW q \in Procs PROVE JoinInv(q)'
      <4>1. req'[q] = req[q] /\ JoinInv(q)
        BY <2>3, Zenon DEF ResultInv
      <4> QED
        BY <1>0, <2>a, <4>1, KeepsWaiting, Zenon
    <3> QED
      BY <2>2, <3>1, Zenon
  <2>4. CASE AlreadyInStorage(p, s)
    <3>1. Moves(p)
      BY <1>0, <2>4, RemoveMoves, Zenon
    <3>2. req'[p].pc \notin WaitPCs
      BY <1>0, <3>1, Zenon DEF Moves, WaitPCs
    <3>3. JoinInv(p)'
      BY <3>2, Zenon DEF JoinInv
    <3> QED
      BY <2>2, <2>a, <3>1, <3>3, OthersWait, Zenon DEF Moves
  <2>5. CASE AlreadyPending(p, s, CleanStale) /\ req' # req
    <3>1. /\ Becomes(p, "get", s, pending[s].start, req[p].answer)
          /\ pending[s] # None /\ pending[s].start \in 1..starts /\ starts \in Nat
      BY <1>0, <2>5, JoinedStep DEF TypeOK
    <3>2. pending'[s] = pending[s] /\ result'[s] = None
      BY <1>0, <2>1, <2>2, <2>5, CleanStaleDrops, Zenon DEF AlreadyPending
    <3>3. req'[p].pc = "get" /\ req'[p].s = s /\ req'[p].start = pending[s].start
      BY <3>1, Zenon DEF Becomes
    <3>4. ASSUME NEW q \in Running', req'[q].start = req'[p].start PROVE req'[q].s = req'[p].s
      <4>1. s \in Pending(pending)'
        BY <3>1, <3>2, Zenon DEF Pending
      <4> QED
        BY <3>2, <3>3, <3>4, <4>1, Zenon DEF EntryInv
    <3>5. JoinInv(p)'
      BY <3>1, <3>2, <3>3, <3>4 DEF JoinInv
    <3> QED
      BY <2>2, <2>a, <3>1, <3>5, OthersWait, Zenon DEF Becomes
  <2>6. \A q \in Procs : JoinInv(q)'
    BY <2>1, <2>3, <2>4, <2>5, Zenon DEF Refused
  <2> QED
    BY <2>2, <2>6, Zenon
<1> QED
  BY <1>1, <1>2, Zenon

(* An answer is what the request has found, and only a waiting one finds. *)
LEMMA AnswersFound ==
  ASSUME EntryInv, TypeInv', Next, NEW p \in Procs, req'[p].answer # None
  PROVE  \/ req'[p] = req[p]
         \/ /\ GetResult(p) \/ ReadAgain(p)
            /\ req'[p].s = req[p].s /\ req'[p].start = req[p].start
            /\ req'[p].answer = IF result[req[p].s] # None THEN result[req[p].s] ELSE NoResult
<1>0. EntryInv /\ TypeInv /\ TypeOK
  BY Zenon DEF EntryInv, TypeInv
<1>1. req'[p].pc = "answered"
  BY Zenon DEF TypeInv, CallInv
<1>2. ASSUME NEW q \in Procs, Step(q) \/ GivesUp(q) \/ Crash(q), q # p PROVE req'[p] = req[p]
  BY <1>0, <1>2, StepMoves, Zenon DEF Moves
<1>3. ASSUME NEW q \in Procs, NEW s \in Sandboxes, Remove(q, s) PROVE req'[p] = req[p]
  <2>1. Becomes(q, "release", s, req[q].start, req[q].answer)
    BY <1>0, <1>3, EntersStep, Zenon DEF Remove, PCs
  <2> QED
    BY <1>1, <2>1, Zenon DEF Becomes
<1>4. ASSUME NEW q \in Procs, NEW s \in Sandboxes, Reserve(q, s) PROVE req'[p] = req[p]
  <2>1. CASE Reserved(q, s, CleanStale)
    BY <1>0, <1>1, <2>1, ReservedStep, Zenon DEF Becomes
  <2>2. CASE AlreadyInStorage(q, s)
    <3>1. Becomes(q, "read", s, req[q].start, req[q].answer)
      BY <1>0, <2>2, EntersStep, Zenon DEF AlreadyInStorage, PCs
    <3> QED
      BY <1>1, <3>1, Zenon DEF Becomes
  <2>3. CASE AlreadyPending(q, s, CleanStale)
    BY <1>0, <1>1, <2>3, JoinedStep, Zenon DEF Becomes
  <2> QED
    BY <1>4, <2>1, <2>2, <2>3, Zenon DEF Reserve, Refused
<1>5. CASE GetResult(p) \/ ReadAgain(p)
  <2>1. req[p].s \in Sandboxes
    BY <1>0, <1>5, Zenon DEF GetResult, ReadAgain, TypeInv, CallInv
  <2>2. ASSUME NEW a \in Outcomes \cup {NoResult}, Answers(p, a)
        PROVE  req'[p].s = req[p].s /\ req'[p].start = req[p].start /\ req'[p].answer = a
    BY <1>0, <2>2, AnswersStep, Zenon DEF Becomes
  <2>3. result[req[p].s] # None => result[req[p].s] \in Outcomes
    BY <1>0, <2>1, Zenon DEF TypeOK
  <2>4. CASE Goto(p, "score")
    BY <1>0, <1>1, <2>4, GotoStep DEF Becomes, PCs, WaitPCs
  <2> QED
    BY <1>5, <2>2, <2>3, <2>4, Zenon DEF GetResult, ReadAgain
<1>6. CASE Place(p) \/ Add(p) \/ FinishStart(p) \/ CheckPending(p) \/ Respond(p) \/ Release(p)
           \/ GivesUp(p) \/ Crash(p)
  <2>1. \/ Returns(p) \/ Finishing(p, TRUE) \/ Finishing(p, FALSE)
        \/ \E l \in {"add", "get", "reget"} : Goto(p, l)
    BY <1>6, Zenon DEF Place, Add, FinishStart, CheckPending, Respond, Release, GivesUp, Crash
  <2>2. PICK l \in {"idle", "finish", "add", "get", "reget"} : \E s, k, a : Becomes(p, l, s, k, a)
    BY <1>0, <2>1, ReturnsStep, FinishingStep, GotoStep, Zenon DEF PCs, StartPCs, WaitPCs
  <2> QED
    BY <1>1, <2>2, Zenon DEF Becomes
<1> QED
  BY <1>2, <1>3, <1>4, <1>5, <1>6, Zenon DEF Next, Step, Expire, Tick

LEMMA JoinedStepKept ==
  ASSUME ResultInv, TypeInv', [Next]_vars, lost \subseteq lost'
  PROVE  JoinedResult'
<1> SUFFICES ASSUME NEW p \in Procs, req'[p].answer \in Outcomes, req'[p].answer.start < req'[p].start
             PROVE  req'[p].answer.start \in lost'
  BY Zenon DEF JoinedResult
<1>0. EntryInv /\ TypeInv /\ TypeOK /\ CallInv(p) /\ JoinInv(p) /\ JoinedResult
  BY Zenon DEF ResultInv, EntryInv, TypeInv
<1>1. CASE req'[p] = req[p]
  BY <1>0, <1>1, Zenon DEF JoinedResult
<1>2. CASE req'[p] # req[p]
  <2>1. /\ GetResult(p) \/ ReadAgain(p)
        /\ req'[p].s = req[p].s /\ req'[p].start = req[p].start
        /\ req'[p].answer = result[req[p].s] /\ result[req[p].s] # None
    BY <1>0, <1>2, AnswersFound, NoneAssumption, Zenon DEF vars
  <2>2. req[p].pc \in WaitPCs
    BY <2>1, Zenon DEF GetResult, ReadAgain, WaitPCs
  <2>3. req[p].s \in Sandboxes /\ req[p].start \in 1..starts /\ starts \in Nat
    BY <1>0, <2>2 DEF CallInv, TypeOK, WaitPCs
  <2>4. result[req[p].s].start \in Nat
    BY <1>0, <2>1, <2>3, ReservationAssumption DEF TypeOK, Outcomes, Starts
  <2> QED
    BY <1>0, <2>1, <2>2, <2>3, <2>4 DEF JoinInv
<1> QED
  BY <1>1, <1>2, Zenon

LEMMA ResultStep == ResultInv /\ [Next]_vars => ResultInv'
<1> SUFFICES ASSUME ResultInv, [Next]_vars PROVE ResultInv'
  BY Zenon
<1>0. EntryInv /\ TypeInv /\ TypeOK /\ EntryInv' /\ TypeInv'
  BY EntryStep, Zenon DEF ResultInv, EntryInv, TypeInv
<1>1. Fresh /\ lost \subseteq lost'
  BY <1>0, NextFresh, Zenon DEF Fresh
<1>2. JoinedResult'
  BY <1>0, <1>1, JoinedStepKept, Zenon
<1> DEFINE Good == /\ \A s \in Sandboxes : pending'[s] = None \/ result'[s] = None
                   /\ \A q \in Procs : JoinInv(q)'
<1>3. ASSUME NEW p \in Procs, NEW s \in Sandboxes, Remove(p, s) PROVE Good
  <2>1. Moves(p) /\ UNCHANGED <<pending, result>>
    BY <1>0, <1>3, RemoveMoves, Zenon DEF Remove
  <2>2. req'[p].pc \notin WaitPCs
    BY <1>3, <2>1, Zenon DEF Moves, Remove, WaitPCs
  <2>3. JoinInv(p)' /\ \A q \in Procs : FindsLater(q)
    BY <2>1, <2>2, Zenon DEF JoinInv, FindsLater
  <2> QED
    BY <1>1, <2>1, <2>3, OthersWait, Zenon DEF Moves, ResultInv
<1>4. ASSUME req' = req, \A s \in Sandboxes : result'[s] \in {result[s], None},
             \A s \in Sandboxes : pending'[s] = None <=> pending[s] = None
      PROVE  Good
  <2>1. ASSUME NEW q \in Procs PROVE JoinInv(q)'
    <3>1. req'[q] = req[q] /\ JoinInv(q)
      BY <1>4, Zenon DEF ResultInv
    <3>2. FindsLater(q)
      BY <1>0, <1>4, Zenon DEF FindsLater, TypeInv, CallInv, WaitPCs
    <3> QED
      BY <1>0, <1>1, <3>1, <3>2, KeepsWaiting, Zenon
  <2> QED
    BY <1>4, <2>1, Zenon DEF ResultInv
<1>5. ASSUME NEW s \in Sandboxes, Expire(s) PROVE Good
  <2>1. UNCHANGED <<req, pending>> /\ \A t \in Sandboxes : result'[t] \in {result[t], None}
    BY <1>0, <1>5, Zenon DEF Expire, TypeOK
  <2> QED
    BY <1>4, <2>1, Zenon
<1>6. ASSUME Tick PROVE Good
  <2>1. UNCHANGED <<req, result>> /\ \A t \in Sandboxes : pending'[t] = None <=> pending[t] = None
    BY <1>0, <1>6, TickDrops, Zenon DEF Tick
  <2> QED
    BY <1>4, <2>1, Zenon
<1>7. ASSUME UNCHANGED vars PROVE Good
  BY <1>4, <1>7, Zenon DEF vars
<1>8. ASSUME NEW p \in Procs, Step(p) \/ GivesUp(p) \/ Crash(p) PROVE Good
  BY <1>0, <1>1, <1>8, StepJoin, Zenon
<1>9. ASSUME NEW p \in Procs, NEW s \in Sandboxes, Reserve(p, s) PROVE Good
  BY <1>0, <1>1, <1>9, ReserveJoin, Zenon
<1>10. Good
  <2> HIDE DEF Good
  <2> QED
    BY <1>3, <1>5, <1>6, <1>7, <1>8, <1>9, Zenon DEF Next
<1> QED
  BY <1>0, <1>2, <1>10, Zenon DEF ResultInv

LEMMA InitResult == Init => ResultInv
<1> SUFFICES ASSUME Init PROVE ResultInv
  BY Zenon
<1>1. \A p \in Procs : req[p].pc = "idle" /\ req[p].answer = None
  BY Zenon DEF Init, Idle
<1>2. JoinedResult /\ \A p \in Procs : JoinInv(p)
  BY <1>1, NoneAssumption, Zenon DEF JoinedResult, JoinInv, WaitPCs
<1> QED
  BY <1>2, InitEntry, Zenon DEF ResultInv, Init

(* Who joins a start is not answered with the result of an earlier one,    *)
(* unless that start is among the ones that go on without their entry.     *)
THEOREM JoinedAnswered == Spec => []JoinedResult
<1>1. Init => ResultInv
  BY InitResult, Zenon
<1>2. ResultInv /\ [Next]_vars => ResultInv'
  BY ResultStep, Zenon
<1>3. ResultInv => JoinedResult
  BY Zenon DEF ResultInv
<1> QED
  BY <1>1, <1>2, <1>3, PTL DEF Spec

LEMMA NoResultTrue ==
  ASSUME ResultInv, [Next]_vars, NEW p \in Procs, req'[p].answer = NoResult, req[p].answer # NoResult
  PROVE  result[req[p].s] = None /\ req[p].start \notin Live \ lost
<1>0. EntryInv /\ TypeInv /\ TypeOK /\ CallInv(p) /\ JoinInv(p) /\ TypeInv'
  BY TypeStep, Zenon DEF ResultInv, EntryInv, TypeInv
<1>1. /\ GetResult(p) \/ ReadAgain(p)
      /\ req'[p].answer = IF result[req[p].s] # None THEN result[req[p].s] ELSE NoResult
  BY <1>0, AnswersFound, NoneAssumption, Zenon DEF vars
<1>2. req[p].pc \in {"get", "reget"} /\ req[p].s \in Sandboxes
  BY <1>0, <1>1, Zenon DEF GetResult, ReadAgain, CallInv
<1>3. result[req[p].s] = None
  BY <1>0, <1>1, <1>2, NoneAssumption, Zenon DEF TypeOK
<1>4. ~GetResult(p)
  <2> SUFFICES ASSUME GetResult(p) PROVE FALSE
    BY Zenon
  <2>1. Becomes(p, "score", req[p].s, req[p].start, req[p].answer)
    BY <1>0, <1>3, GotoStep, Zenon DEF GetResult, PCs, WaitPCs
  <2> QED
    BY <2>1, Zenon DEF Becomes
<1> QED
  BY <1>0, <1>1, <1>3, <1>4, Zenon DEF ReadAgain, JoinInv, WaitPCs

(* A request is told that its start is over without a result only when     *)
(* there is none and that start is over, or goes on without its entry.     *)
THEOREM NoResultTold == Spec => ToldNoResult
<1> DEFINE A == \A p \in Procs : req'[p].answer = NoResult /\ req[p].answer # NoResult =>
                  result[req[p].s] = None /\ req[p].start \notin Live \ lost
<1>1. Init => ResultInv
  BY InitResult, Zenon
<1>2. ResultInv /\ [Next]_vars => ResultInv'
  BY ResultStep, Zenon
<1>3. ResultInv /\ [Next]_vars => [A]_vars
  BY NoResultTrue, Zenon
<1> QED
  BY <1>1, <1>2, <1>3, PTL DEF Spec, ToldNoResult
=============================================================================
