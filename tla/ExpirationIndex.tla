--------------------------- MODULE ExpirationIndex ---------------------------
(***************************************************************************)
(* The global expiration index of the API's sandbox store                  *)
(* (packages/api/internal/sandbox/storage/redis): a Redis sorted set with  *)
(* one member per execution, scored with the end time of the sandbox.  The *)
(* evictors find expired sandboxes through it, and only through it.        *)
(*                                                                         *)
(* Record and index live in different Redis slots, so no script spans      *)
(* both: every operation is a sequence of Redis calls, and an action here  *)
(* is one of them.  Update and Remove hold the lock of the record until    *)
(* their last call; Add, the sweep of ExpiredItems, the healer and the     *)
(* pruning of the teams index take no lock.  The state machine of a        *)
(* removal is SandboxLifecycle's: here a record is running, leaving        *)
(* (somebody is removing it) or stuck (whoever was removing it died).      *)
(*                                                                         *)
(* The sandboxes belong to one team.  Times are ticks, from 1 on; 0 is the *)
(* score of an absent member, as it is for ZMSCORE.                        *)
(***************************************************************************)
EXTENDS Naturals, FiniteSets

CONSTANTS Ids,          \* sandbox IDs
          Execs,        \* execution IDs
          SandboxOf,    \* the sandbox ID of each execution
          NoRecord,     \* an absent record
          Window,       \* expiredItemsBatchSize
          StaleCutoff,  \* sandboxtypes.StaleCutoff, in ticks
          Grace,        \* healGracePeriod, in ticks
          MaxEnd,       \* bound on the end times
          MaxTime,      \* bound on the clock
          MaxFaults,    \* bound on failed calls and dead processes
          Slow          \* may an Add take longer than the sandbox is to live?

VARIABLES now,         \* wall clock
          record,      \* the stored record of each sandbox ID
          score,       \* globalExpirationSet: the score of each member
          teamScore,   \* globalTeamsSet: the score of the team
          add,         \* progress of the Add of each execution
          rescoring,   \* executions whose Update has yet to ZADD
          unindexing,  \* executions whose Remove has yet to ZREM
          sweep,       \* a call of ExpiredItems
          heal,        \* a pass of the healer
          pruning,     \* has TeamsWithSandboxCount found the team stale?
          evicting,    \* executions ExpiredItems has returned to the evictor
          faults       \* faults so far

addVars == <<teamScore, add>>
bgVars == <<sweep, heal, pruning>>
vars == <<now, record, score, addVars, rescoring, unindexing, bgVars, evicting, faults>>

Ends == 0 .. MaxEnd

NoEnds == [x \in Execs |-> 0]

Sandbox == [exec : Execs, start : Nat, end : Ends, state : {"running", "leaving", "stuck"}]

ASSUME IndexAssumption ==
  /\ SandboxOf \in [Execs -> Ids]
  /\ NoRecord \notin Sandbox
  /\ Window \in Nat \ {0} /\ StaleCutoff \in Nat /\ Grace \in Nat
  /\ MaxEnd \in Nat /\ MaxTime \in Nat /\ MaxFaults \in Nat
  /\ Slow \in BOOLEAN

RecordOf(x) == record[SandboxOf[x]]

Stored(x) == RecordOf(x) # NoRecord /\ RecordOf(x).exec = x

Locked(id) == \E x \in rescoring \cup unindexing : SandboxOf[x] = id

IsExpired(r, t) == t > r.end

IsStale(r) == now > r.end + StaleCutoff

Fault == faults < MaxFaults /\ faults' = faults + 1

(* An Add that holds no sandbox, or no longer. *)
AddAt(pc) == [pc |-> pc, start |-> 0, end |-> 0]

Init ==
  /\ now = 1
  /\ record = [id \in Ids |-> NoRecord]
  /\ score = NoEnds
  /\ teamScore = 0
  /\ add = [x \in Execs |-> AddAt("new")]
  /\ rescoring = {} /\ unindexing = {}
  /\ sweep = [pc |-> "idle", at |-> 0, seen |-> {}, stale |-> {}, moved |-> NoEnds, found |-> {}]
  /\ heal = [pc |-> "idle", batch |-> NoEnds]
  /\ pruning = FALSE
  /\ evicting = {}
  /\ faults = 0

(********************************** Add ************************************)

(* ZADD of the member.  The reservation that precedes Add refuses a sandbox *)
(* ID that is stored or being started.                                      *)
AddMember(x, end) ==
  /\ add[x].pc = "new"
  /\ RecordOf(x) = NoRecord
  /\ \A y \in Execs : SandboxOf[y] = SandboxOf[x] => add[y].pc # "indexed"
  /\ end > now
  /\ score' = [score EXCEPT ![x] = end]
  /\ add' = [add EXCEPT ![x] = [pc |-> "indexed", start |-> now, end |-> end]]
  /\ UNCHANGED <<now, record, teamScore, rescoring, unindexing, bgVars, evicting, faults>>

(* addSandboxScript. *)
AddRecord(x) ==
  /\ add[x].pc = "indexed"
  /\ record' = [record EXCEPT ![SandboxOf[x]] =
                  [exec |-> x, start |-> add[x].start, end |-> add[x].end, state |-> "running"]]
  /\ add' = [add EXCEPT ![x] = AddAt("stored")]
  /\ UNCHANGED <<now, score, teamScore, rescoring, unindexing, bgVars, evicting, faults>>

(* ZADD of the team; a failure is logged and ignored. *)
AddTeam(x) ==
  /\ add[x].pc = "stored"
  /\ \/ teamScore' = now /\ UNCHANGED faults
     \/ Fault /\ UNCHANGED teamScore
  /\ add' = [add EXCEPT ![x] = AddAt("done")]
  /\ UNCHANGED <<now, record, score, rescoring, unindexing, bgVars, evicting>>

(* The script fails, or the pod dies before it. *)
AddFails(x) ==
  /\ add[x].pc = "indexed"
  /\ add' = [add EXCEPT ![x] = AddAt("done")]
  /\ Fault
  /\ UNCHANGED <<now, record, score, teamScore, rescoring, unindexing, bgVars, evicting>>

(***************************** Update, Remove ******************************)

(* Update by KeepAliveFor: obtain the lock, GET, SET.  Add does not come    *)
(* between the last two: it waits until the record is gone.                 *)
Update(x, end) ==
  /\ Stored(x) /\ RecordOf(x).state = "running"
  /\ ~Locked(SandboxOf[x])
  /\ end >= now /\ end # RecordOf(x).end
  /\ record' = [record EXCEPT ![SandboxOf[x]].end = end]
  /\ rescoring' = rescoring \cup {x}
  /\ UNCHANGED <<now, score, addVars, unindexing, bgVars, evicting, faults>>

(* Its ZADD, which the pod may not live to send; the lock ends either way. *)
Rescore(x) ==
  /\ x \in rescoring
  /\ \/ score' = [score EXCEPT ![x] = RecordOf(x).end] /\ UNCHANGED faults
     \/ Fault /\ UNCHANGED score
  /\ rescoring' = rescoring \ {x}
  /\ UNCHANGED <<now, record, addVars, unindexing, bgVars, evicting>>

(* Mutant: a state the store does not know. *)
LeavingAsKilled(r) == [r EXCEPT !.state = "killed"]

(* The record as StartRemoving writes it: expired, and not re-scored. *)
Leaving(r) == [r EXCEPT !.state = "leaving", !.end = IF IsExpired(r, now) THEN @ ELSE now]

(* A request kills or pauses the sandbox. *)
StartRemoving(x) ==
  /\ Stored(x) /\ RecordOf(x).state = "running"
  /\ ~Locked(SandboxOf[x])
  /\ record' = [record EXCEPT ![SandboxOf[x]] = Leaving(@)]
  /\ UNCHANGED <<now, score, addVars, rescoring, unindexing, bgVars, evicting, faults>>

(* The remover dies before Remove. *)
RemoverDies(x) ==
  /\ Stored(x) /\ RecordOf(x).state = "leaving"
  /\ record' = [record EXCEPT ![SandboxOf[x]].state = "stuck"]
  /\ Fault
  /\ UNCHANGED <<now, score, addVars, rescoring, unindexing, bgVars, evicting>>

(* Remove: obtain the lock, removeSandboxScript. *)
Remove(x) ==
  /\ Stored(x) /\ RecordOf(x).state = "leaving"
  /\ ~Locked(SandboxOf[x])
  /\ record' = [record EXCEPT ![SandboxOf[x]] = NoRecord]
  /\ unindexing' = unindexing \cup {x}
  /\ UNCHANGED <<now, score, addVars, rescoring, bgVars, evicting, faults>>

(* Mutant: one member per sandbox ID, whatever the execution. *)
MembersOfSandbox(x) == {y \in Execs : SandboxOf[y] = SandboxOf[x]}

(* expirationMember: what the ZREM of Remove names. *)
MembersOf(x) == {x}

(* Its ZREM; a failure is logged and ignored. *)
Unindex(x) ==
  /\ x \in unindexing
  /\ \/ /\ score' = [y \in Execs |-> IF y \in MembersOf(x) THEN 0 ELSE score[y]]
        /\ UNCHANGED faults
     \/ Fault /\ UNCHANGED score
  /\ unindexing' = unindexing \ {x}
  /\ UNCHANGED <<now, record, addVars, rescoring, bgVars, evicting>>

(* The evictor's RemoveSandbox on what ExpiredItems returned: it looks at   *)
(* the record again, whichever execution that is, gives way to a removal in *)
(* flight, and takes over one that has been stuck for long.                 *)
Evict(x) ==
  /\ x \in evicting
  /\ ~Locked(SandboxOf[x])
  /\ evicting' = evicting \ {x}
  /\ LET r    == RecordOf(x)
         goes == /\ r # NoRecord
                 /\ \/ r.state = "running" /\ IsExpired(r, now)
                    \/ r.state = "stuck" /\ IsStale(r)
     IN  record' = IF goes THEN [record EXCEPT ![SandboxOf[x]] = Leaving(@)] ELSE record
  /\ UNCHANGED <<now, score, addVars, rescoring, unindexing, bgVars, faults>>

(****************************** ExpiredItems *******************************)

Due == {x \in Execs : score[x] \in 1 .. now}

(* ZRANGEBYSCORE with LIMIT: the lowest scores, ties in any order. *)
SweepRange ==
  /\ sweep.pc = "idle"
  /\ \E seen \in SUBSET Due :
       /\ seen # {}
       /\ Cardinality(seen) <= Window
       /\ Cardinality(seen) = Window \/ seen = Due
       /\ \A x \in seen, y \in Due \ seen : score[x] <= score[y]
       /\ sweep' = [sweep EXCEPT !.pc = "ranged", !.at = now, !.seen = seen]
  /\ UNCHANGED <<now, record, score, addVars, rescoring, unindexing, heal, pruning, evicting, faults>>

(* Orphans and dead executions. *)
StaleMembers == {x \in sweep.seen : ~Stored(x)}

(* Live members with a score from before an Update. *)
Drifted == {x \in sweep.seen : Stored(x) /\ ~IsExpired(RecordOf(x), sweep.at)}

(* What the evictor is told to remove. *)
Expired == {x \in sweep.seen : /\ Stored(x) /\ IsExpired(RecordOf(x), sweep.at)
                               /\ RecordOf(x).state = "running" \/ IsStale(RecordOf(x))}

(* MGET, and the sorting of what it returned; a failure ends the sweep. *)
SweepGet ==
  /\ sweep.pc = "ranged"
  /\ \/ /\ sweep' = [sweep EXCEPT !.pc = "got", !.seen = {}, !.at = 0,
                                  !.stale = StaleMembers,
                                  !.moved = [x \in Execs |-> IF x \in Drifted THEN RecordOf(x).end ELSE 0],
                                  !.found = Expired]
        /\ UNCHANGED faults
     \/ Fault /\ sweep' = [sweep EXCEPT !.pc = "idle", !.seen = {}, !.at = 0]
  /\ UNCHANGED <<now, record, score, addVars, rescoring, unindexing, heal, pruning, evicting>>

(* ZREM of the stale members; a failure is logged and ignored. *)
SweepRemove ==
  /\ sweep.pc = "got"
  /\ \/ /\ score' = [x \in Execs |-> IF x \in sweep.stale THEN 0 ELSE score[x]]
        /\ UNCHANGED faults
     \/ sweep.stale # {} /\ Fault /\ UNCHANGED score
  /\ sweep' = [sweep EXCEPT !.pc = "swept", !.stale = {}]
  /\ UNCHANGED <<now, record, addVars, rescoring, unindexing, heal, pruning, evicting>>

(* ZADD XX of the drifted members, a failure of which is logged and         *)
(* ignored; the result goes to the evictor.                                 *)
SweepRescore ==
  /\ sweep.pc = "swept"
  /\ \/ /\ score' = [x \in Execs |-> IF sweep.moved[x] # 0 /\ score[x] # 0
                                       THEN sweep.moved[x] ELSE score[x]]
        /\ UNCHANGED faults
     \/ sweep.moved # NoEnds /\ Fault /\ UNCHANGED score
  /\ evicting' = evicting \cup sweep.found
  /\ sweep' = [sweep EXCEPT !.pc = "idle", !.moved = NoEnds, !.found = {}]
  /\ UNCHANGED <<now, record, addVars, rescoring, unindexing, heal, pruning>>

(******************************* the healer ********************************)

(* forEachSandboxBatch: the records of the listed teams, past their grace. *)
HealRead ==
  /\ heal.pc = "idle"
  /\ teamScore # 0
  /\ heal' = [pc |-> "read",
              batch |-> [x \in Execs |-> IF Stored(x) /\ now >= RecordOf(x).start + Grace
                                           THEN RecordOf(x).end ELSE 0]]
  /\ UNCHANGED <<now, record, score, addVars, rescoring, unindexing, sweep, pruning, evicting, faults>>

(* Mutant: the members that are there, instead of the missing ones. *)
PresentOnly(batch) == [x \in Execs |-> IF score[x] = 0 THEN 0 ELSE batch[x]]

(* ZMSCORE keeps the candidates that have no score. *)
MissingOnly(batch) == [x \in Execs |-> IF score[x] # 0 THEN 0 ELSE batch[x]]

HealScore ==
  /\ heal.pc = "read"
  /\ heal' = [pc |-> "scored", batch |-> MissingOnly(heal.batch)]
  /\ UNCHANGED <<now, record, score, addVars, rescoring, unindexing, sweep, pruning, evicting, faults>>

(* ZADD NX; the failure of a call ends the pass for the team. *)
HealAdd ==
  /\ heal.pc = "scored"
  /\ \/ /\ score' = [x \in Execs |-> IF score[x] = 0 THEN heal.batch[x] ELSE score[x]]
        /\ UNCHANGED faults
     \/ heal.batch # NoEnds /\ Fault /\ UNCHANGED score
  /\ heal' = [pc |-> "idle", batch |-> NoEnds]
  /\ UNCHANGED <<now, record, addVars, rescoring, unindexing, sweep, pruning, evicting>>

(*************************** TeamsWithSandboxCount *************************)

(* ZRANGE and SCARD: no sandbox, and a score that is old enough. *)
PruneRead ==
  /\ ~pruning
  /\ teamScore # 0
  /\ \A id \in Ids : record[id] = NoRecord
  /\ teamScore + StaleCutoff < now
  /\ pruning' = TRUE
  /\ UNCHANGED <<now, record, score, addVars, rescoring, unindexing, sweep, heal, evicting, faults>>

(* ZREM; a failure is logged and ignored. *)
PruneRemove ==
  /\ pruning
  /\ \/ teamScore' = 0 /\ UNCHANGED faults
     \/ Fault /\ UNCHANGED teamScore
  /\ pruning' = FALSE
  /\ UNCHANGED <<now, record, score, add, rescoring, unindexing, sweep, heal, evicting>>

(****************************** specification ******************************)

(* Unless Slow, an Add is over before the sandbox it adds has expired. *)
Tick ==
  /\ now < MaxTime
  /\ Slow \/ \A x \in Execs : add[x].pc = "indexed" => now + 1 < add[x].end
  /\ now' = now + 1
  /\ UNCHANGED <<record, score, addVars, rescoring, unindexing, bgVars, evicting, faults>>

Add(x) == AddRecord(x) \/ AddTeam(x)

Write(x) == Rescore(x) \/ Remove(x) \/ Unindex(x)

ExpiredItems == SweepRange \/ SweepGet \/ SweepRemove \/ SweepRescore

Heal == HealRead \/ HealScore \/ HealAdd

Next ==
  \/ \E x \in Execs : \/ \E end \in Ends : AddMember(x, end) \/ Update(x, end)
                      \/ Add(x) \/ AddFails(x) \/ Write(x) \/ Evict(x)
                      \/ StartRemoving(x) \/ RemoverDies(x)
  \/ ExpiredItems \/ Heal \/ PruneRead \/ PruneRemove \/ Tick

Spec == Init /\ [][Next]_vars

(* A live process finishes what it began, the evictors and the healers run *)
(* for ever (pollInterval, healInterval), and time passes.  Nobody has to  *)
(* start a sandbox, extend it or remove it.                                *)
Fairness ==
  /\ \A x \in Execs : WF_vars(Add(x)) /\ WF_vars(Write(x)) /\ WF_vars(Evict(x))
  /\ WF_vars(ExpiredItems) /\ WF_vars(Heal) /\ WF_vars(Tick)

FairSpec == Spec /\ Fairness

(******************************* properties ********************************)

(* Type invariant. *)
TypeOK ==
  /\ now \in Nat /\ faults \in Nat /\ teamScore \in Nat /\ pruning \in BOOLEAN
  /\ record \in [Ids -> Sandbox \cup {NoRecord}]
  /\ score \in [Execs -> Ends]
  /\ add \in [Execs -> [pc : {"new", "indexed", "stored", "done"}, start : Nat, end : Ends]]
  /\ rescoring \subseteq Execs /\ unindexing \subseteq Execs /\ evicting \subseteq Execs
  /\ sweep \in [pc : {"idle", "ranged", "got", "swept"}, at : Nat, seen : SUBSET Execs,
                stale : SUBSET Execs, moved : [Execs -> Ends], found : SUBSET Execs]
  /\ heal \in [pc : {"idle", "read", "scored"}, batch : [Execs -> Ends]]

(* A stored record has its member in the expiration index, whatever Add,    *)
(* Remove, the sweep and the healer do at the same time: "Add to the index  *)
(* before adding to the cache, so there's no possibility of leaking".       *)
StoredIsIndexed == \A x \in Execs : Stored(x) => score[x] # 0

(* However slow an Add: a stored sandbox loses its member only to a sweep   *)
(* that had not found its record, and a sandbox that is stored without a    *)
(* member, or that a sweep is about to take from the index, has expired by  *)
(* then.  Remove never takes the member of a later execution along.         *)
MemberKept ==
  [][\A x \in Execs :
       /\ Stored(x) /\ score[x] # 0 /\ score'[x] = 0 => x \in sweep.stale
       /\ ~Stored(x) /\ Stored(x)' /\ (score'[x] = 0 \/ x \in sweep'.stale)
            => RecordOf(x)'.end <= now]_vars

(* A record that neither the sweep nor the healer can find: it has no       *)
(* member, and its team is not in the teams index.                          *)
Lost(id) == record[id] # NoRecord /\ score[record[id].exec] = 0 /\ teamScore = 0

(* Members whose execution is no longer stored: the ZREM of Remove failed,  *)
(* an Add stopped half way, or the healer planted them again.               *)
Orphans == {x \in Execs : score[x] # 0 /\ add[x].pc = "done" /\ ~Stored(x)}

Unsettled == Orphans \cup {x \in Execs : Stored(x) /\ ~Lost(SandboxOf[x])}

(* No stored sandbox lives for ever, unless it is lost, and no member       *)
(* outlives its sandbox: the store and the index come to be empty together. *)
(* The sweep, with its bounded window, finds every record whose time has    *)
(* passed, although dead members, failed re-scorings and stuck removals     *)
(* take places in that window; the healer first gives back the member that  *)
(* a stalled Add has lost; and what it planted too late is swept again.     *)
IndexSettles == Unsettled # {} ~> Unsettled = {}

(* A team with a stored sandbox is in the teams index: TeamsWithSandboxCount *)
(* prunes a team only if its entry "is old enough", since "a fresh score    *)
(* means an Add happened recently and SCARD==0 may be a transient race".    *)
TeamListed == \A x \in Execs : (Stored(x) /\ add[x].pc = "done") => teamScore # 0
==============================================================================
