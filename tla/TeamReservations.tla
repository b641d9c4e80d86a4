-------------------------- MODULE TeamReservations --------------------------
(***************************************************************************)
(* The reservations of a team: the start of a sandbox is admitted by a Lua *)
(* script against the team's limit, later requests for the same sandbox    *)
(* wait for its result, and the removal of a sandbox releases what is left *)
(* (api/internal/sandbox/reservations/redis, Store.Reserve, Store.Remove   *)
(* and the frame of Orchestrator.CreateSandbox).                           *)
(*                                                                         *)
(* A process is one call of CreateSandbox or of Store.Remove on some API   *)
(* instance.  Each call to Redis is one step; a crash ends a process       *)
(* between any two.  Starts are numbered in the order of their             *)
(* reservations; the number is carried along to tell the starts of one     *)
(* sandbox apart, and the code decides nothing on it.  Of a score only its *)
(* age counts, and an age beyond staleTTL is like staleTTL.                *)
(***************************************************************************)
EXTENDS Integers, FiniteSets

CONSTANTS
  Procs, Sandboxes,
  Limit,       (* the team's SandboxConcurrency, negative for none *)
  StaleTTL,    (* staleTTL, in ticks *)
  MaxStarts,   (* bound: reservations *)
  None, NoResult

ASSUME ReservationAssumption ==
  /\ Limit \in Int /\ StaleTTL \in Nat \ {0} /\ MaxStarts \in Nat
  /\ IsFiniteSet(Procs) /\ IsFiniteSet(Sandboxes)

VARIABLES
  index,     (* the storage index: the sandboxes of the team that have a record *)
  pending,   (* the pending zset: the start, and the age of the score, by sandbox *)
  result,    (* the result keys *)
  req,       (* the processes *)
  starts,    (* how many reservations were made *)
  lost       (* starts whose entry was dropped while they were under way *)

vars == <<index, pending, result, req, starts, lost>>

Starts == 1..MaxStarts
Entries == [age : 0..StaleTTL, start : Starts]
Outcomes == [start : Starts, ok : BOOLEAN]

ASSUME NoneAssumption ==
  /\ None \notin Sandboxes /\ None \notin Starts /\ None \notin Entries /\ None \notin Outcomes
  /\ NoResult \notin Outcomes /\ NoResult # None

StartPCs == {"place", "add", "finish"}
WaitPCs == {"get", "score", "reget"}
PCs == StartPCs \cup WaitPCs \cup {"idle", "read", "answered", "release"}

Requests ==
  [pc : PCs, s : Sandboxes \cup {None}, start : Starts \cup {None},
   ok : BOOLEAN, answer : Outcomes \cup {None, NoResult}]

Idle == [pc |-> "idle", s |-> None, start |-> None, ok |-> FALSE, answer |-> None]

(* Type invariant of the Redis keys of a team and of the calls under way. *)
TypeOK ==
  /\ index \subseteq Sandboxes
  /\ pending \in [Sandboxes -> Entries \cup {None}]
  /\ result \in [Sandboxes -> Outcomes \cup {None}]
  /\ req \in [Procs -> Requests]
  /\ starts \in 0..MaxStarts /\ lost \subseteq Starts

Init ==
  /\ index = {}
  /\ pending = [s \in Sandboxes |-> None]
  /\ result = [s \in Sandboxes |-> None]
  /\ req = [p \in Procs |-> Idle]
  /\ starts = 0 /\ lost = {}

(* The starts under way, and the entries in a pending set. *)
Running == {p \in Procs : req[p].pc \in StartPCs}
Live == {req[p].start : p \in Running}
Pending(z) == {s \in Sandboxes : z[s] # None}

(* The entries that are not in z are dropped, some from a start that goes on. *)
Drops(z) == lost' = lost \cup {pending[s].start : s \in
              {s \in Pending(pending) \ Pending(z) : pending[s].start \in Live'}}

Returns(p) == req' = [req EXCEPT ![p] = Idle]
Answers(p, a) == req' = [req EXCEPT ![p].pc = "answered", ![p].answer = a]
Goto(p, label) == req' = [req EXCEPT ![p].pc = label]

(***************************************************************************)
(* Reserve.                                                                *)
(***************************************************************************)

(* Mutant: entries become stale a tick early. *)
IsStaleEarly(e) == e.age >= StaleTTL - 1

(* ZREMRANGEBYSCORE takes the cutoff in. *)
IsStale(e) == e.age >= StaleTTL

CleanStale ==
  [s \in Sandboxes |-> IF pending[s] # None /\ IsStale(pending[s]) THEN None ELSE pending[s]]

(* Mutant: the limit counts only the sandboxes that have a record. *)
LimitExceededStored(z) == Limit >= 0 /\ Cardinality(index) >= Limit

LimitExceeded(z) == Limit >= 0 /\ Cardinality(index) + Cardinality(Pending(z)) >= Limit

AlreadyInStorage(p, s) ==
  /\ s \in index
  /\ req' = [req EXCEPT ![p].pc = "read", ![p].s = s]
  /\ UNCHANGED <<result, starts>>

(* The request waits, or is refused because it demands a filesystem boot. *)
AlreadyPending(p, s, z) ==
  /\ s \notin index /\ z[s] # None
  /\ \/ req' = [req EXCEPT ![p].pc = "get", ![p].s = s, ![p].start = z[s].start]
     \/ UNCHANGED req
  /\ UNCHANGED <<result, starts>>

Refused(p, s, z) ==
  /\ s \notin index /\ z[s] = None /\ LimitExceeded(z)
  /\ UNCHANGED <<req, result, starts>>

(* Mutant: the result of the previous start is kept. *)
ReservedOver(p, s, z) ==
  /\ s \notin index /\ z[s] = None /\ ~LimitExceeded(z)
  /\ starts < MaxStarts /\ starts' = starts + 1
  /\ UNCHANGED result
  /\ pending' = [z EXCEPT ![s] = [age |-> 0, start |-> starts + 1]]
  /\ req' = [req EXCEPT ![p].pc = "place", ![p].s = s, ![p].start = starts + 1]

(* Mutant: the start is not added to the pending set. *)
ReservedUnlisted(p, s, z) ==
  /\ s \notin index /\ z[s] = None /\ ~LimitExceeded(z)
  /\ starts < MaxStarts /\ starts' = starts + 1
  /\ result' = [result EXCEPT ![s] = None]
  /\ pending' = z
  /\ req' = [req EXCEPT ![p].pc = "place", ![p].s = s, ![p].start = starts + 1]

Reserved(p, s, z) ==
  /\ s \notin index /\ z[s] = None /\ ~LimitExceeded(z)
  /\ starts < MaxStarts /\ starts' = starts + 1
  /\ result' = [result EXCEPT ![s] = None]
  /\ pending' = [z EXCEPT ![s] = [age |-> 0, start |-> starts + 1]]
  /\ req' = [req EXCEPT ![p].pc = "place", ![p].s = s, ![p].start = starts + 1]

Reserve(p, s) ==
  /\ req[p].pc = "idle"
  /\ LET z == CleanStale IN
       \/ (AlreadyInStorage(p, s) \/ AlreadyPending(p, s, z) \/ Refused(p, s, z)) /\ pending' = z
       \/ Reserved(p, s, z)
  /\ Drops(CleanStale)
  /\ UNCHANGED index

(***************************************************************************)
(* CreateSandbox, once the reservation is made.                            *)
(***************************************************************************)
Finishing(p, ok) == req' = [req EXCEPT ![p].pc = "finish", ![p].ok = ok]

(* The template data, the node and the boot; any of them may fail. *)
Place(p) ==
  /\ req[p].pc = "place"
  /\ Goto(p, "add") \/ Finishing(p, FALSE)
  /\ UNCHANGED <<index, pending, result, starts, lost>>

(* Mutant: the index is by execution. *)
AddExecution(p) ==
  /\ req[p].pc = "add"
  /\ index' = index \cup {req[p].start} /\ Finishing(p, TRUE)
  /\ UNCHANGED <<pending, result, starts, lost>>

(* A call that fails may have stored the record all the same. *)
Add(p) ==
  /\ req[p].pc = "add"
  /\ \/ index' = index \cup {req[p].s} /\ Finishing(p, TRUE)
     \/ index' \in {index \cup {req[p].s}, index} /\ Finishing(p, FALSE)
  /\ UNCHANGED <<pending, result, starts, lost>>

(* finishStartScript; or the result cannot be encoded; or the call fails.  *)
(* ZREM goes by the sandbox, whoever's entry it is.                        *)
FinishStart(p) ==
  /\ req[p].pc = "finish"
  /\ LET s == req[p].s IN
       \/ /\ pending' = [pending EXCEPT ![s] = None]
          /\ \/ result' = [result EXCEPT ![s] = [start |-> req[p].start, ok |-> req[p].ok]]
             \/ UNCHANGED result
       \/ UNCHANGED <<pending, result>>
  /\ Returns(p)
  /\ Drops(pending')
  /\ UNCHANGED <<index, starts>>

(***************************************************************************)
(* waitForStart.  A wakeup by PubSub and a tick of the fallback ticker     *)
(* both lead to the next probe.                                            *)
(***************************************************************************)
GetResult(p) ==
  /\ req[p].pc = "get"
  /\ IF result[req[p].s] # None THEN Answers(p, result[req[p].s]) ELSE Goto(p, "score")
  /\ UNCHANGED <<index, pending, result, starts, lost>>

(* Mutant: the result is not read again. *)
CheckPendingOnce(p) ==
  /\ req[p].pc = "score"
  /\ IF pending[req[p].s] = None THEN Answers(p, NoResult) ELSE Goto(p, "get")
  /\ UNCHANGED <<index, pending, result, starts, lost>>

(* Mutant: a sandbox that is no longer pending is waited for. *)
CheckPendingOn(p) ==
  /\ req[p].pc = "score"
  /\ Goto(p, "get")
  /\ UNCHANGED <<index, pending, result, starts, lost>>

CheckPending(p) ==
  /\ req[p].pc = "score"
  /\ Goto(p, IF pending[req[p].s] = None THEN "reget" ELSE "get")
  /\ UNCHANGED <<index, pending, result, starts, lost>>

ReadAgain(p) ==
  /\ req[p].pc = "reget"
  /\ Answers(p, IF result[req[p].s] # None THEN result[req[p].s] ELSE NoResult)
  /\ UNCHANGED <<index, pending, result, starts, lost>>

(* The request is cancelled, or its call to Redis fails. *)
GivesUp(p) ==
  /\ req[p].pc \in WaitPCs
  /\ Returns(p)
  /\ UNCHANGED <<index, pending, result, starts, lost>>

(* The answer goes to the client; of an existing sandbox, what Get finds. *)
Respond(p) ==
  /\ req[p].pc \in {"answered", "read"}
  /\ Returns(p)
  /\ UNCHANGED <<index, pending, result, starts, lost>>

(***************************************************************************)
(* Store.Remove.  Its caller began a transition of the sandbox, which had  *)
(* a record; the transition may lapse, and another removal begin.  Where   *)
(* the lock or the script fails, or the record is gone by then, the index  *)
(* stays; the release follows all the same.                                *)
(***************************************************************************)
Remove(p, s) ==
  /\ req[p].pc = "idle" /\ s \in index
  /\ req' = [req EXCEPT ![p].pc = "release", ![p].s = s]
  /\ index' \in {index \ {s}, index}
  /\ UNCHANGED <<pending, result, starts, lost>>

(* releaseScript, or the call fails. *)
Release(p) ==
  /\ req[p].pc = "release"
  /\ \/ /\ pending' = [pending EXCEPT ![req[p].s] = None]
        /\ result' = [result EXCEPT ![req[p].s] = None]
     \/ UNCHANGED <<pending, result>>
  /\ Returns(p)
  /\ Drops(pending')
  /\ UNCHANGED <<index, starts>>

(***************************************************************************)
(* The environment.                                                        *)
(***************************************************************************)

(* The result key has resultTTL. *)
Expire(s) ==
  /\ result[s] # None
  /\ result' = [result EXCEPT ![s] = None]
  /\ UNCHANGED <<index, pending, req, starts, lost>>

Crash(p) ==
  /\ req[p].pc \in StartPCs \cup {"release"}
  /\ Returns(p)
  /\ UNCHANGED <<index, pending, result, starts, lost>>

Tick ==
  /\ \E s \in Pending(pending) : pending[s].age < StaleTTL
  /\ pending' = [s \in Sandboxes |->
       IF pending[s] # None /\ pending[s].age < StaleTTL
         THEN [pending[s] EXCEPT !.age = @ + 1] ELSE pending[s]]
  /\ UNCHANGED <<index, result, req, starts, lost>>

Step(p) ==
  \/ Place(p) \/ Add(p) \/ FinishStart(p)
  \/ GetResult(p) \/ CheckPending(p) \/ ReadAgain(p) \/ Respond(p)
  \/ Release(p)

Next ==
  \/ \E p \in Procs : Step(p) \/ GivesUp(p) \/ Crash(p)
  \/ \E p \in Procs, s \in Sandboxes : Reserve(p, s) \/ Remove(p, s)
  \/ \E s \in Sandboxes : Expire(s)
  \/ Tick

Spec == Init /\ [][Next]_vars

(* Placement and boot have deadlines, and the waiter a ticker. *)
FairSpec == Spec /\ \A p \in Procs : WF_vars(Step(p))

(***************************************************************************)
(* Properties.                                                             *)
(***************************************************************************)

(* The sandboxes that are being booted and have no record yet. *)
Booting == {req[p].s : p \in {p \in Procs : req[p].pc \in {"place", "add"}}}

(* The limit of the team: the sandboxes that have a record, are reserved   *)
(* or are being booted exceed it by no more than the starts that lost      *)
(* their entry.                                                            *)
LimitKept ==
  Limit >= 0 => Cardinality(index \cup Pending(pending) \cup Booting) <= Limit + Cardinality(lost)

(* Of two starts of one sandbox that are under way at once, one has lost   *)
(* its entry: otherwise the second request joins the first.                *)
OneStart ==
  \A p, q \in Running : p # q /\ req[p].s = req[q].s => {req[p].start, req[q].start} \cap lost # {}

(* A request that joins a start is answered with the result of that start  *)
(* or of a later one, never of an earlier one, unless the earlier start    *)
(* goes on without its entry.                                              *)
JoinedResult ==
  \A p \in Procs : req[p].answer \in Outcomes /\ req[p].answer.start < req[p].start
                     => req[p].answer.start \in lost

(* A start under way loses its entry only to age, to the release that      *)
(* follows the removal of its sandbox, or to the end of another start of   *)
(* its sandbox.                                                            *)
EntryKept ==
  [][\A p \in Running : req[p].start \in lost' \ lost =>
       \/ pending[req[p].s].age = StaleTTL
       \/ \E q \in Procs \ {p} : req[q].s = req[p].s /\ req[q].pc \in {"release", "finish"}]_vars

(* A request that is told "no longer pending and has no result" was told   *)
(* the truth: there is no result, and the start it joined is over, or has  *)
(* lost its entry.                                                         *)
ToldNoResult ==
  [][\A p \in Procs : req'[p].answer = NoResult /\ req[p].answer # NoResult =>
       result[req[p].s] = None /\ req[p].start \notin Live \ lost]_vars

(* An entry whose start is no longer under way. *)
Abandoned(s) == pending[s] # None /\ pending[s].start \notin Live

(* A request that waits is answered in the end, unless the sandbox stays   *)
(* reserved for a start that crashed or could not say that it ended; only  *)
(* another Reserve of the team clears such an entry.                       *)
WaitersAnswered ==
  \A p \in Procs : []<>(req[p].pc \notin WaitPCs \/ Abandoned(req[p].s))
=============================================================================
