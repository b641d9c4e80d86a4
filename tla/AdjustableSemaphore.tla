------------------------- MODULE AdjustableSemaphore -------------------------
(***************************************************************************)
(* The semaphore that bounds the sandboxes a node starts at once           *)
(* (packages/shared/pkg/utils/resizable_semaphore.go): a counter and a     *)
(* limit under a mutex, and a condition variable for those who wait.       *)
(*                                                                         *)
(* Every caller asks for one permit.  A critical section is one step,      *)
(* except that Acquire is cut between its look at the context and the      *)
(* moment cond.Wait has put it on the list of waiters: the callback that   *)
(* context.AfterFunc runs broadcasts without the mutex, so it may fall     *)
(* into that gap.                                                          *)
(***************************************************************************)
EXTENDS Naturals, FiniteSets

CONSTANTS Callers,   \* the goroutines that ask for a permit
          Limits,    \* the values the limit may be given
          NoCaller   \* the mutex is free

ASSUME SemaphoreAssumption ==
  /\ Limits \subseteq Nat \ {0} /\ Limits # {}
  /\ IsFiniteSet(Callers) /\ NoCaller \notin Callers

VARIABLES used,      \* permits given out
          limit,
          mu,        \* the caller inside Acquire that holds the mutex
          sem,       \* where each caller stands
          ctxDone    \* the callers whose context has ended

semVars == <<used, limit, mu, sem, ctxDone>>

Holders == {p \in Callers : sem[p] = "held"}

InAcquire(p) == sem[p] \in {"parking", "waiting", "woken"}

SemTypeOK ==
  /\ used \in Nat /\ limit \in Limits
  /\ mu \in Callers \cup {NoCaller}
  /\ sem \in [Callers -> {"out", "parking", "waiting", "woken", "held"}]
  /\ ctxDone \subseteq Callers

SemInit ==
  /\ used = 0 /\ limit \in Limits /\ mu = NoCaller
  /\ sem = [p \in Callers |-> "out"]
  /\ ctxDone = {}

(***************************************************************************)
(* sync.Cond                                                               *)
(***************************************************************************)
Broadcast(s) == [p \in Callers |-> IF s[p] = "waiting" THEN "woken" ELSE s[p]]

(***************************************************************************)
(* One turn of Acquire's loop, with the mutex: take a permit, give up      *)
(* because the context has ended, or go to sleep.  The next call of p has  *)
(* a context of its own.                                                   *)
(***************************************************************************)
(* Mutant: a permit too many. *)
GrantedOver(p) ==
  /\ used <= limit
  /\ used' = used + 1
  /\ sem' = [sem EXCEPT ![p] = "held"]
  /\ UNCHANGED <<mu, ctxDone>>

Granted(p) ==
  /\ used + 1 <= limit
  /\ used' = used + 1
  /\ sem' = [sem EXCEPT ![p] = "held"]
  /\ UNCHANGED <<mu, ctxDone>>

GivesUp(p) ==
  /\ used + 1 > limit /\ p \in ctxDone
  /\ sem' = [sem EXCEPT ![p] = "out"]
  /\ ctxDone' = ctxDone \ {p}
  /\ UNCHANGED <<used, mu>>

GoesToSleep(p) ==
  /\ used + 1 > limit /\ p \notin ctxDone
  /\ sem' = [sem EXCEPT ![p] = "parking"]
  /\ mu' = p
  /\ UNCHANGED <<used, ctxDone>>

AcquireLoop(p) ==
  /\ mu = NoCaller
  /\ Granted(p) \/ GivesUp(p) \/ GoesToSleep(p)
  /\ UNCHANGED limit

Acquire(p) == sem[p] = "out" /\ AcquireLoop(p)

Wake(p) == sem[p] = "woken" /\ AcquireLoop(p)

(* cond.Wait joins the list of waiters, then lets go of the mutex. *)
CondWait(p) ==
  /\ sem[p] = "parking" /\ mu = p
  /\ sem' = [sem EXCEPT ![p] = "waiting"]
  /\ mu' = NoCaller
  /\ UNCHANGED <<used, limit, ctxDone>>

(* The context of a caller inside Acquire ends, and the callback of        *)
(* AfterFunc wakes those who wait, without the mutex.                      *)
CtxEnds(p) ==
  /\ p \notin ctxDone /\ InAcquire(p)
  /\ ctxDone' = ctxDone \cup {p}
  /\ sem' = Broadcast(sem)
  /\ UNCHANGED <<used, limit, mu>>

TryAcquire(p) ==
  /\ sem[p] = "out" /\ mu = NoCaller
  /\ IF used + 1 > limit
     THEN UNCHANGED <<used, sem>>
     ELSE used' = used + 1 /\ sem' = [sem EXCEPT ![p] = "held"]
  /\ UNCHANGED <<limit, mu, ctxDone>>

(* Mutant: two permits come back for one. *)
ReleaseTwo(p) ==
  /\ sem[p] = "held" /\ mu = NoCaller
  /\ used >= 1
  /\ used' = used - 2
  /\ sem' = Broadcast([sem EXCEPT ![p] = "out"])
  /\ ctxDone' = ctxDone \ {p}
  /\ UNCHANGED <<limit, mu>>

(* Mutant: nobody is woken. *)
ReleaseQuiet(p) ==
  /\ sem[p] = "held" /\ mu = NoCaller
  /\ used >= 1
  /\ used' = used - 1
  /\ sem' = [sem EXCEPT ![p] = "out"]
  /\ ctxDone' = ctxDone \ {p}
  /\ UNCHANGED <<limit, mu>>

(* A release of more than was acquired panics. *)
Release(p) ==
  /\ sem[p] = "held" /\ mu = NoCaller
  /\ used >= 1
  /\ used' = used - 1
  /\ sem' = Broadcast([sem EXCEPT ![p] = "out"])
  /\ ctxDone' = ctxDone \ {p}
  /\ UNCHANGED <<limit, mu>>

SetLimit(n) ==
  /\ n # limit /\ mu = NoCaller
  /\ limit' = n
  /\ sem' = Broadcast(sem)
  /\ UNCHANGED <<used, mu, ctxDone>>
=============================================================================
