# The sandbox lifecycle of E2B on AWS, in TLA+

This directory holds TLA+ models of six parts of the system in which much of
its concurrency lives:

- the lifecycle: what the API does to a sandbox from the moment it is started or
  resumed until it is paused, killed or evicted;
- the expiration index, through which the evictors find expired sandboxes;
- the reservations through which the API instances admit the starts of a team;
- the sandbox RPCs of an orchestrator node, over its registry of sandboxes and the
  semaphore that bounds its starts;
- the network slot pool of a node, with the cleanup that gives a slot back;
- the fetching of a build's data, from a peer or from storage, through the cache
  that its readers share.

The models are checked with TLC on small instances. The safety properties that
hold are also proved with TLAPS, for every number of processes, sandboxes, nodes,
slots, readers and blocks; the liveness properties are model-checked only.

Paths below are relative to `src/packages/`.

## 1. The system

| Part | State | Operations | Code |
|---|---|---|---|
| Sandbox store | one record per sandbox ID, team index, expiration index, lock, transition key with its lock, result keys (all in Redis) | Add, Get, Remove, Update, StartRemoving and its completion callback, WaitForStateChange, ExpiredItems, Reconcile, heal | `api/internal/sandbox/storage/redis` |
| Start reservations | pending set per team, result key per sandbox | Reserve, finishStart, Release, waitForStart | `api/internal/sandbox/reservations/redis` |
| Sandbox operations | none of their own | create/resume, pause, kill, checkpoint, extend | `api/internal/orchestrator`, `api/internal/handlers` |
| Evictor | in-flight set, concurrency limiter | periodic sweep, one removal per expired sandbox | `api/internal/orchestrator/evictor` |
| Node manager | node list, resource accounting | sync, reconcile, place | `api/internal/orchestrator/nodemanager` |
| Routing catalog | route per sandbox ID | store, conditional delete, get | `shared/pkg/sandbox-catalog` |
| Snapshot row | last successful snapshot per sandbox ID | upsert, soft delete, look up | Postgres, through `api/internal/db` |
| Orchestrator node | VMs by sandbox ID, network slots, NBD devices, chunk caches, cleanup stacks | Create, Pause, Checkpoint, Delete, List | `orchestrator/pkg` |
| Shared utilities | semaphore with a changing limit, set-once values | acquire, release, set limit | `shared/pkg/utils` |

How they interact: several API pods serve requests and run an evictor each. They
share nothing but Redis, the database and the nodes. A removal takes the lock of
the record, moves the record into a transition state together with a transition
key, drops the route, calls the node, deletes the record, releases the
reservation and finally writes the result and deletes the transition key.
Requests that meet a transition wait for it. A start reserves the sandbox ID,
places a VM, stores the record, publishes the route and finishes the reservation.
Meanwhile each pod lists the VMs of every node and kills those that are not
stored.

What makes this hard: every step is a separate network call; any pod may die
between two of them; locks, transition keys, results and reservations have TTLs;
`Add` takes no lock; the node and the reconciliation know VMs by sandbox ID and
not by execution; several writes (`SET` in Update, the transition script, `DEL`
in the callback) do not compare what they overwrite.

The inventory with one entry per component, and the list of hazards with the
line at which each one bites, are in `PROJECT.json`.

## 2. The modules

| Module | Contents |
|---|---|
| `SandboxStates` | states, actions, effects, `AllowedTransitions` (`sandboxtypes/states.go`) |
| `SandboxStorage` | the Redis keys of one sandbox ID and every operation on them, one action per Redis call |
| `SandboxLifecycle` | extends it with requests, evictors, reservation, route, snapshot row, VMs, reconciliation, crashes and the clock; `Init`, `Next`, fairness and all properties |
| `SandboxRecord` | what the store promises about a record: every operation takes effect at once |
| `MCSandboxLifecycle` | model values and symmetry for TLC |
| `LifecycleProofs` | type correctness; one owner per transition; pinned removals; the record: index, end time, eviction, allowed moves; successful pauses; the refinement of `SandboxRecord` |
| `ExpirationIndex` | the records, the expiration index and the teams index of one team, with the sweep, the healer and the pruning |
| `MCExpirationIndex` | its instances for TLC |
| `ExpirationIndexProofs` | type correctness; a stored record is indexed; what a slow Add may cost |
| `NetworkPool` | `Pool` and `StorageLocal` of a node, the namespaces, and the `Cleanup` of each sandbox |
| `SlotLeases` | what the pool promises: exclusive slots whose network stays up while they are used |
| `MCNetworkPool` | its instance for TLC |
| `NetworkPoolProofs` | type correctness, ownership of slots, leaked namespaces, closing, the refinement of `SlotLeases` |
| `TeamReservations` | the pending set, results and storage index of one team, with the calls that start and remove its sandboxes |
| `TeamReservationsProofs` | type correctness, entries and starts, the limit, the results that waiters get |
| `AdjustableSemaphore` | the semaphore of starts: mutex, condition variable, context callbacks |
| `CountingSemaphore` | what the semaphore promises: a set of holders below a movable capacity |
| `SandboxMap` | the live map, the lifecycles and the network index of a node |
| `NodeServer` | extends the semaphore and the map with the RPC handlers, the VMs and what follows their exit |
| `NodeHandlerProofs` | how the handlers move, with what in hand |
| `NodeServerProofs` | type correctness, permits, the refinement of `CountingSemaphore`, addresses |
| `NodeRegistryProofs` | no VM out of reach; snapshots exclude each other |
| `ChunkFetch` | the chunker, its fetch sessions and cache, and the switch of a build from peer to storage |
| `ChunkFetchProofs` | type correctness, wakeups, what is written, cached and returned |
| `MCTeamReservations`, `MCNodeServer`, `MCChunkFetch` | their instances for TLC |

The next four subsections describe the lifecycle; the other models follow.

### State

`record`, `indexed`, `lock`, `tkey`, `tlock` and `failed` are the Redis keys of
the sandbox. `failed` holds the transitions whose result key contains an error;
an empty or missing result is read as success, so the two are not told apart.
`pending` is the sandbox's entry in the reservation set, `route` its entry in the
catalog, `snap` the execution that the snapshot row can resume, `vm` the execution
that each node runs under the sandbox ID, `listed` and `kills` the reconciliations
and background kills under way. `strays` are the executions that a node runs and
does not know by the ID, because `Create` found it taken (`MarkRunning`, below):
nobody looks for a live VM of the sandbox before a start is placed. `pc`, `opts`, `sbx`, `tid` and `cb` are the locals of each process: where
it is, what was asked, its copy of the record, the transition it owns or waits
for, and the error that its callback will get.

A process is one API request (used once) or the eviction loop of one pod (starts
over after each eviction). The execution a request starts carries the name of
the request.

### From code to actions

| Code | Actions |
|---|---|
| `StartRemoving` | `ObtainForRemoval`, `CheckTransition`, `StartTransition`; a transition in flight leads to `WaitForTransition` and either back to `ObtainForRemoval` or to `AlreadyDone` |
| `createCallback` | `RestoreRead`, `RestoreWrite` (only a transient action that succeeded), `FinishResult`, `FinishDelete` |
| `Update` from `KeepAliveFor` | `UpdateRead`, `UpdateWrite` |
| `RemoveSandbox` | the above, then `Unroute`, `KillOnNode` or `PauseOnNode`, `StoreRemove`, `ReleaseReservation`, callback, `Return` |
| kill handler | `NotFound` and `Return` also drop the snapshot row |
| `CheckpointSandbox` | `CheckpointOnNode`; after an error the same process goes on with a kill |
| resume handler, `CreateSandbox` | `ResumeGet`, `WaitForStateChange`, `ResumeLookup`, `Reserve`, `WaitForStart`, `Place`, `Rollback`, `StoreAdd` or `StoreAddFails`, `AddRoute`, `FinishStart` |
| evictor | `Evict` (the sweep that found the sandbox), then as `RemoveSandbox` |
| `Node.Sync`, `Reconcile` | `ReconcileList`, `ReconcileCheck`, `BackgroundKill` |
| TTLs | `LockExpires`, `TransitionLockExpires`, `TransitionExpires`, `ResultExpires` |
| contexts that end | `GiveUp` (waits that belong to a request), `LockTimesOut` (detached work) |
| a pod dies | `Crash` |

An action is one Redis call (a Lua script is one call) with the Go code that acts
on its answer. Two merges need a word. Obtaining a lock and the GET right after it
are one action: nobody else writes the record under the lock except `Add`, and an
`Add` between the two commutes with the Obtain. Release of the lock is part of the
last step under it, for the same reason. `Remove` takes the lock, runs its script
and releases the lock in one action.

### The environment

`Slow` chooses between two environments. With `Slow = FALSE`, live work ends
within the TTLs: a lock or transition key expires only if its owner is dead, a
pending entry is purged only if no start is under way, a VM is not listed for
reconciliation while it is being started, and an error result outlives its
waiters. That is the intention stated in the code (`transitionKeyTTL`: "Should be
longer than the longest expected state transition time"; `staleTTL`: "well beyond
any realistic sandbox creation time"). With `Slow = TRUE` all of these may happen
at any time.

A call to a node may succeed, fail without effect, or take effect and be reported
as failed. A snapshot that failed leaves no usable row.

### The expiration index

Record and index are in different Redis slots, so every operation is a sequence of
calls, and an action is one of them.

| Code | Actions |
|---|---|
| `Add` | `AddMember`, `AddRecord`, `AddTeam`; `AddFails` |
| `Update` | `Update` (GET and SET), `Rescore` |
| `StartRemoving`, `Remove` | `StartRemoving`, `Remove`, `Unindex`; `RemoverDies` |
| `ExpiredItems` | `SweepRange`, `SweepGet`, `SweepRemove`, `SweepRescore` |
| evictor | `Evict`, on what a sweep returned earlier |
| healer | `HealRead`, `HealScore`, `HealAdd` |
| `TeamsWithSandboxCount` | `PruneRead`, `PruneRemove` |

`score` is the sorted set, 0 standing for an absent member as it does for ZMSCORE.
`sweep` and `heal` hold what a pass has read and not used yet. `rescoring` and
`unindexing` hold the executions whose Update or Remove has one call left and still
has the lock of the record. The failure of a call is a branch of its action.

A record is running, leaving or stuck: the transitions themselves are in
`SandboxLifecycle`. The GET and SET of `Update` are one action because `Add` waits
for the reservation, and with it for the removal of the record. With
`Slow = FALSE` an `Add` is over before the sandbox it adds expires.

### The network pool

A goroutine is Populate, Close, or a sandbox that takes a slot and gives it back,
over and over. A step is a select, a critical section or a call that changes a
namespace.

| Code | Actions |
|---|---|
| `Populate`, `createNetworkSlot` | `PopulateAcquire`, `CreateNetwork`, `PopulateOffer`, `PopulateExit` |
| `Get` | `GetReused` (first select), `GetNew`, `GetClosed`, `GetCancelled` (second), `configureSlot` |
| `Cleanup.Add`, `Cleanup.Run` | `Add`, `AddAppend`; `CleanupRun`, `CleanupList` |
| `ReturnAsync` | `ReturnAsync` inside the step that calls it; `returnSlot`, `recycle`, `tryReuse` |
| `cleanup` | `RemoveNetwork`, `Release` |
| `Close` | `CloseDone`, `CloseLock`, `CloseWait`, `CloseDrain` |

A channel is the set of the slots in it. `Foreign` is the set of namespaces that
startup reclaim could not remove. A return has no context that ends, because
`Cleanup` uses `context.WithoutCancel`; the context of Populate ends only when the
orchestrator itself returns, so that exit is left out. An `Acquire` that fails
changes nothing and is no step.

### The reservations of a team

`SandboxLifecycle` has one sandbox and one pending entry. `TeamReservations` has
the sandboxes of a team, which compete for its limit.

| Code | Actions |
|---|---|
| `Reserve` with its script | `Reserve`: `CleanStale`, then `AlreadyInStorage`, `AlreadyPending`, `Refused` or `Reserved` |
| `CreateSandbox` after that | `Place`, `Add`, `FinishStart` |
| `waitForStart` | `GetResult`, `CheckPending`, `ReadAgain`; `GivesUp`; `Respond` |
| `Store.Remove` | `Remove`, `Release` |
| TTLs, crashes | `Expire`, `Tick`, `Crash` |

`pending` and `result` are Redis keys, `index` is the storage index the script
counts. Starts are numbered to tell those of one sandbox apart; no guard looks at
the number. `lost` records the starts that go on after somebody dropped their
entry; no guard looks at it either.

### The RPC server of a node

A handler serves one request after the other. Each boot of a VM is a new lifecycle.

| Code | Actions |
|---|---|
| `Create` (also a resume) | `Create`, `Permit`, `Boot`, `NoResources`, `BootFails`, `Booted`, `Upgrade`, `MarkLive`, `Track` |
| `Delete`, `Pause` | `Get`, `MarkOld`, `StopOld`; `Snapshot`, `Exported` |
| `Checkpoint` with a fresh resume | `Get`, `Permit`, `MarkOld`, `Snapshot`, `Exported`, the boot as above, `Upload`, `StopOld` |
| `Checkpoint` in place | `Get`, `Permit`, `BeginInPlace`, `InPlace`, `Lost` |
| deferred `Release` of the permit | `GiveBack` |
| `Acquire`, `TryAcquire`, `SetLimit` | `Permit`, `Sleep`, `TimesOut`, `RefreshLimit` |
| `setupSandboxLifecycle`, `Close` | `Killed` or `Crash`, then `Cleanup`, `Close` |
| `returnSlot` | `Notify`, `Recycle` |

`Acquire` is cut between its look at the context and the moment `cond.Wait` has
put it on the list, because `context.AfterFunc` broadcasts without the mutex and
may fall into that gap. `MarkRunning` is cut between its two maps.

`Create` does not ask whether its sandbox ID is live on the node or being started,
and neither does the model: starts of one ID may overlap. `MarkRunning` of an ID
that is taken does nothing and reports nothing.

### Chunk fetching

A reader makes one read; a session is the fetch of one chunk in a goroutine of its
own, which may outlive the reader that began it.

| Code | Actions |
|---|---|
| `StorageDiff.Slice`, `resolve`, `Chunker.Slice` | `Read` with `Resolves` |
| `recoverFromPeerTransition`, `reloadAfterPeerTransition` | `Recover` with `Reload`: the retry after the peer's transition |
| `getOrCreateSession` | `Lookup` |
| `registerAndWait` | `Wait`, `Enqueue`, `Cancel` |
| `sliceDirect` | `SliceDirect` |
| `runFetch` | `Open`, `Receive`, `Breaks`, `Verify`, `SetIsCached`, `SetDone`, `ReleaseSession` |
| the peer's uploaded flag | `UseStorage` |

Where the bytes come from and how the file is cut are two things. The upstream is the
peer or storage. The geometry is that of the frame table a read is made with: 4 MiB
chunks of a stream without one, frames with one. `resolve` gives the loaded header's
table once there is one; with the peer, the caller's table if it brought one (the
frames of a compressed build) and else none. So both geometries may be
read from the peer at once. `Stored` says whether the build is stored in frames; if
not, or before version 4 of the header, reads keep to chunks of a stream also after
the reload. In `Open` the peer serves the range, or has said that the build is in
storage (the transition), or misses; then storage is asked for the object that the
read's frame table names, which exists only if the geometry is `Stored`.

Offsets are in blocks. The bytes of a block are unwritten, those of the build, or
corrupt; `mem` is the mapping and `cached` the tracker. A reader's slice is taken
as a copy of what the mapping holds at that moment, as `ReadAt` makes one. The
model of a session is dropped with its last reader, and its number used again.
`early` records which blocks a reader took from a stream before its end, and `shared`
which blocks a session set out to fetch while one of the other geometry was fetching
them, or had fetched them but not the rest of the chunk. No guard looks at either.

## 3. What is checked

Each cfg gives the constants. Deadlock checking is off: requests are served and
executions added once, a closed pool does nothing more, and starts, boots and
reads are bounded, so each system may come to rest.

The lifecycle (`MCSandboxLifecycle`):

| Run | Instance | Distinct states | Shows |
|---|---|---|---|
| `Requests` | 3 requests, all kinds except pinned kills | 1,563,000 | `SingleOwner`, `IndexAgrees`, `PausedIsResumable` |
| `Eviction` | 2 requests, 1 evictor, clock to 2, 1 fault | 1,139,000 | `RemovingIsExpired`, `RecordMoves`, `EvictOnlyExpired`, `StoreIsAtomic` |
| `Slow` | 2 requests, `Slow`, clock to 1, 1 fault | 1,613,000 | `PinHolds` |
| `Answered` | 2 requests, 1 fault, fair | 124,000 | every request is answered |
| `Gone` | 1 request, 1 evictor, clock to 3, 2 faults, fair | 146,000 | an expired sandbox is cleaned up for good |

The other models:

| Run | Distinct states | Shows |
|---|---|---|
| `Indexed` | 1,250,000 | `StoredIsIndexed` |
| `IndexProgress` | 211,000 | `IndexSettles`, fair, `Slow` |
| `Pool` | 211,000 | `OneOwner`, `LeaksRecorded`, `CloseDrains`, `ShutdownReleases`, `PoolRefills`, fair |
| `Node` | 387,000 | `NoOrphan`, `AddressOwner`, `SnapshotExclusive` |
| `NodeProgress` | 77,000 | `PermitsCounted`, `CountsPermits`, `HandlersReturn`, fair |
| `Reservations` | 536,000 | `LimitKept`, `OneStart`, `JoinedResult`, `EntryKept`, `ToldNoResult`, `WaitersAnswered`, fair |
| `Chunks` | 384,000 | `ReadsVerified`, `CachedGood`, `OneFetch`, `NoMissedWakeup`, `ReadsReturn`, fair |

Each model has a type invariant `TypeOK`, checked with one of its safety runs. The
lifecycle properties are split over the runs; those that are proved hold in all of
them where `Slow` is `FALSE`.

- `SingleOwner`: the callback deletes the transition key without comparing it. It
  is safe because the key always names the transition of the one process between
  the start script and the end of its callback.
- `IndexAgrees`: three places write the record without looking whether it still
  exists. None of them brings back a record that was removed.
- `RemovingIsExpired`: a sandbox being removed has its end in the past, so
  an evictor that is shown it does not take it for live, whatever extensions race
  with the removal.
- `RecordMoves`: over any interleaving of blind writes, an execution moves only
  along `AllowedTransitions`.
- `EvictOnlyExpired`: an acknowledged extension wins against an eviction that
  was decided earlier.
- `StoreIsAtomic`: refinement. GET, check and SET are separate calls and several
  writes compare nothing; seen from outside, each operation on the record still
  happens at one moment, on what is stored then. The specification makes two
  exceptions. `Add` takes no lock. And the removal of a record that was found
  stale does not look again: `Remove` of `SandboxRecord` has no guard, since with
  three requests, two of them kills, TLC finds it removing what a resume has
  stored in between.
- `PinHolds`: the compare in the transition script, and not the lock, is what
  protects a newer execution. No request handler sets `ExpectExecutionID` today;
  the model has a pinned kill so that the contract of `RemoveOpts` is checked.
- `PausedIsResumable`: a pause that reports success has stopped the VM it read and
  left a snapshot, also for those that only joined it. It needs the absence of
  crashes, and a VM that was started where its ID was taken is excepted (see below
  for both).
- `Answered`, `EventuallyGone`: progress after crashes; the latter is about the record
  and the VMs under the sandbox ID, since nothing lists or stops a stray.
- `StoredIsIndexed`: a sandbox that is not indexed is never evicted. No ZREM of a
  Remove or of a sweep, based on an older read, takes the member of a stored
  execution.
- `IndexSettles`: stored sandboxes and members that a failed ZREM, a half-done Add
  or a late healer left behind all go away. Dead members, drifted scores and stuck
  removals do not keep the bounded window of the sweep from reaching an expired
  sandbox, and the healer gives back the member a stalled Add has lost. The
  exception, `Lost`, is a record without a member whose team is not listed either:
  nothing looks for it. Executions are added once, so the store comes to rest; the
  property is about the moments at which nothing is left to do. A record has no
  auto-pause flag here; the case of `FirstAuto` below is outside this model.
- `OneOwner`: no slot is handed out twice, and none is lost, through failing system
  calls and closing.
- `LeaksRecorded`, `PoolRefills`: a namespace whose teardown failed is remembered,
  and handed out again when nothing else is left.
- `CloseDrains`, `ShutdownReleases`: Close ends, with nothing left in the channels,
  and the slots sandboxes still hold are released when they end. A slot stranded by
  the race in `Cleanup.Add` (below) counts as held by its sandbox and is excepted.
- `PermitsCounted`: every way out of Create and Checkpoint gives the permit back
  once, so that Release neither panics nor leaves the node unable to start VMs.
- `CountsPermits`: refinement. Whatever the mutex, the condition variable and the
  callbacks do, permits are granted as by a `CountingSemaphore`, also when the
  limit is lowered below what is in use.
- `NoOrphan`: a running VM that is not in the live map is in the hands of a handler
  or was told to stop, and the one step that ends this is a `MarkRunning` that finds
  the sandbox ID taken. Pause, Delete, Checkpoint, a crash and the cleanup of an
  earlier lifecycle all take entries out, and none of them those of another VM.
- `AddressOwner`: slots are reused and entries removed by IP alone, and still an
  address leads to the lifecycle that has the slot.
- `SnapshotExclusive`: two snapshots of one VM overlap only if one is in place and
  the other has taken the sandbox out. The node itself does not exclude that pair;
  the transitions of the API do.
- `HandlersReturn`: every request is answered, although the broadcast for an
  ended context may come before the wait it should end.
- `LimitKept`, `TeamReservations!OneStart`: the limit and the single start hold up
  to the starts whose entry was dropped while they went on. `EntryKept` says what
  may drop it: age, the Release behind a removal, the end of another start.
- `JoinedResult`, `ToldNoResult`: results live on under the sandbox ID, and a
  waiter reads twice without a lock; still it gets no older start's result, and
  "no result" only when that is so.
- `WaitersAnswered`: a waiter is answered unless its start died.
- `OneFetch`: two sessions fetch the same block at once only as part of a chunk and of
  a frame, and one of them from the peer. Never twice in one geometry, and never
  twice from storage.
- `CachedGood`: what the tracker has as present has bytes, and verified ones, except
  in the blocks that were fetched in both geometries (`shared`).
- `ReadsVerified`: no read returns unwritten bytes; the readers of a frame wait for
  its checksum; corrupt bytes come only from a block of a stream that was taken
  before its end, or from one in `shared`.
- `NoMissedWakeup`, `ReadsReturn`: no reader sleeps on a session that has what it
  needs or is over, and every read returns.

### Bounds

Three requests are the smallest number with which an owner, a joiner and a third
party meet (a second transition while one waits for the first). Two requests are
enough beside an evictor, which acts as a third process; in `Eviction` it is also the
evictor that pauses (`FirstAuto`). `MaxFaults` counts crashes and failed Adds. `Timeout` and `StaleCutoff` are one tick; `MaxTime` 2 lets a
sandbox expire and an extension outlive that, `MaxTime` 3 lets it become stale,
which is what `EventuallyGone` needs. In `Slow` one tick is enough: keys expire
there at any time, and with `StaleCutoff` 0 a record whose end time a kill has
brought forward is stale one tick later. A transition that begins on a record which
a start has just displaced (`MovesDisplaced` of `SandboxRecord`) takes four requests;
the runs do not reach it, the proof of `StoreImplements` covers it. One node
suffices except where a VM stays behind on one and a resume goes to another
(`OrphansKilled`). Symmetry over the requests is used in safety runs only.

For the index, the instance is one sandbox that is started and later resumed: two
executions are enough for the member of a dead one to compete with that of a live
one for a window of one (`Window`). Several sandbox IDs at once are covered by the
proof of `NothingUnindexed` and not by the runs, so the liveness results are for
one ID. `MaxEnd` 2 and `MaxTime` 4 let the sandbox expire, be extended and go
stale (`StaleCutoff` is one tick; `IndexProgress` has 0, and a clock to 3).
`MaxFaults` counts failed calls, Adds that stop half
way and removers that die. `IndexProgress` checks `OrderedSpec`, which is `FairSpec`
up to the names of the executions: the one that is added first is `a1`.

For the pool, two sandboxes and capacities of one make both channels full and
empty. Of three slots one is foreign: a run out of clean slots, which forces the
leaked ones to be used, needs few. A channel `newSlots` without a buffer is not
covered.

For the node, two handlers on one sandbox compete for a permit (the limit moves
between one and two), and two boots and two addresses let a lifecycle be replaced
while the old one is being cleaned up. `NodeProgress` has one boot. For the
reservations, a limit of one makes two sandboxes compete, and the third process
joins or removes; `StaleTTL` is one tick. For the chunks, a chunk of a stream has two
blocks and a frame one, as 4 MiB and 2 MiB in the code. `MaxSessions` bounds the
sessions at a time; a reader that finds none free waits, which the code never
does. Two are enough for two frames or for a chunk and a frame. One reader asks for
the whole file and the other for its first block or all (`Ranges`), and only the
latter's context ends (`Cancellable`), which keeps the liveness check short. The
invariants were also checked, without liveness, with all ranges and both contexts
(2.2 million states), the same with `Stored = "chunk"` (210,000), and for a file of
four blocks with a frame of three (4.9 million).

### Fairness

In the lifecycle, `FairSpec` assumes that a process that can go on does (weak fairness of its
steps), that a sweep finds an expired sandbox again and again, that TTLs run out,
that the node sync repeats and that the clock advances to its bound. Taking a lock
gets strong fairness: `Obtain` retries with a bounded backoff and is woken by every
release, while a holder keeps the lock for two Redis calls. Nothing is assumed of
the environment: requests need not come, callers need not give up, nothing has to
fail.

The index, the pool, the reservations and the chunks need weak fairness only. In the
index, a live process
finishes the operation it began, sweeps and healer passes repeat
(`pollInterval`, `healInterval`, with the healer's flag on), evictions are carried
out and time passes. In the pool, goroutines run on and sandboxes end; nobody has
to ask for a slot or close the pool. `PoolRefills` speaks of the pool and not of
one waiter: that each waiter is served in turn is a property of Go channels. A
start and a waiter of the reservations go on (placement and boot have deadlines, the
waiter a ticker); nobody has to call Reserve, and results need not expire. Readers
and fetches go on, the latter because `fetchTimeout` bounds a stream; contexts of
readers need not end.

On the node, handlers and the goroutines behind a VM go on, a VM that was told to
stop exits, and the context of a waiter ends (`acquireTimeout`). The steps that take
the semaphore's mutex, `Permit` and `GiveBack`, get strong fairness: Go's mutex
hands itself over to a waiter it has kept too long. VMs need not crash and the
limit need not move.

### What the code does not keep

The modules state further properties that TLC refutes, and for which no run is
kept. To see one, check it with the constants of the run in the second column,
changed as said there, with `Spec` and without symmetry unless the table says fair
(`FairSpec`).

| Property | Constants | What happens |
|---|---|---|
| `EventuallyGone` | `Gone`, fair, `FirstAuto = TRUE`, `MaxFaults = 1` | a kill of an auto-pause sandbox dies half way; the evictor asks for a pause, which is not allowed from Killing, for ever |
| `SandboxLifecycle!OneStart` | `Requests`, `Ops` pause and resume | a removal deletes the record, a resume reserves, the removal's Release drops that reservation, another resume reserves too |
| `KilledIsStopped` | `Answered`, `FirstSnaps = {None}`, no faults, `Ops` kill | the joiner of a failed kill reports success |
| `PausedIsResumable` | `Answered`, `FirstSnaps = {None}`, `Ops` pause | the joiner of a pause whose pod died reports success |
| `NoStray` | `Requests` | a refused pause leaves its VM on the node; a resume boots another one beside it (`create_instance.go:372-380` prefers that node), finds the ID taken and is stored all the same |
| `PausedIsResumable` with no exception for `strays` | `Requests` | after that, a pause of the new execution stops and snapshots the old VM and reports success; nothing stops the new one |
| `StartsSurvive` | `Answered`, `FirstSnaps = {None}`, no faults, `Ops` pause and resume | the old VM is listed, a new one is placed on the same node, the record is not stored yet, the kill hits the new VM |
| `OrphansKilled` | `Answered`, fair, nodes `n1` and `n2`, no faults, `Ops` pause and resume | a refused pause leaves a VM; a resume elsewhere stores a record under the same ID, and the VM is never an orphan again |
| `WaitersReleased` | `Answered`, fair, `FirstPaused = TRUE`, `Ops` resume | only `Reserve` purges stale reservations, a waiter does not |
| `TeamListed` | `Indexed`, `StaleCutoff = 0`, `MaxEnd = 4`, no faults | the pruning reads an old score, an Add refreshes it, the ZREM removes the entry all the same |
| `StoredIsIndexed` | `Indexed`, `Slow = TRUE`, `MaxTime = 3`, no faults | an Add stalls between its two calls until its end time has passed; its member is swept as an orphan, then the record is stored |
| `CleanupComplete` | `Pool`, `SlotsSize = 2`, `Foreign = {}`, no faults | `Cleanup.Add` sees that cleanup has not run, Run goes through the list, Add appends to it |
| `GetsASlot` | the same | Close and the exit of Populate come between the two selects of Get, which then receives nil from the closed channel |
| `ClosedIsGone` | `Node` | the VM exits between `setupSandboxLifecycle` and `markSandboxLive`; its cleanup is over before it is registered, and the dead lifecycle stays in the maps |
| `NoOrphan` with no `FindsTaken` | `Node` | the second start of an ID finds it taken; `MarkRunning` does nothing, Create reports success and the VM runs on unregistered |
| `LimitKept` with no `lost` | `Reservations` | the Release behind a removal, or age, drops the entry of a start that goes on; one more start is admitted |
| `WaitersAnswered` with no `Abandoned` | `Reservations`, fair | as `WaitersReleased` |
| `NoCorruptRead` | `Chunks` | a reader has passed a block of a peer's stream, the stream breaks, the build moves to storage, and a corrupt frame is written over the block before the reader slices it (`streaming_chunk.go:293-296`, `330-333` say otherwise) |
| `RetryHitsStorage` | `Chunks` | the retry after the peer's transition finds the failed session still listed (`seekable.go:66-68` says otherwise) |
| `OneWriter` | `Chunks` | one reader brings a frame table and another none, the peer serves both; the chunk is not contained in the frame that is being fetched, and a second session writes the same block |
| `NoCorruptCache`, `ReadsVerified` with no `shared` | `Chunks` | the same, and the frame comes from storage: a corrupt one is written over blocks that the chunk's session marks as cached; the frame's own session fails, the cache serves them from then on |

The exception in `Answered` for a request that joined a dead start is the
behaviour that `WaitersReleased` exhibits.

## 4. What is proved

| Theorem | States | Assumes |
|---|---|---|
| `TypeCorrect` | `Spec => []TypeOK` | the named assumptions on constants |
| `TransitionOwned` | `Spec => []SingleOwner` | and `~Slow` |
| `IndexCorrect` | `Spec => []IndexAgrees` | and `~Slow` |
| `RemovalExpires` | `Spec => []RemovingIsExpired` | and `~Slow` |
| `EvictionSafe` | `Spec => EvictOnlyExpired` | and `~Slow` |
| `StatesAllowed` | `Spec => RecordMoves` | and `~Slow` |
| `PinRespected` | `Spec => PinHolds` | the named assumptions on constants |
| `StoreImplements` | `Spec => StoreIsAtomic` | and `~Slow` |
| `PausesResumable` | `Spec => []PausedIsResumable` | and `~Slow`, `MaxFaults = 0` |
| `IndexTypeCorrect` | `Spec => []TypeOK` | `IndexAssumption` |
| `NothingUnindexed` | `Spec => []StoredIsIndexed` | and `Slow = FALSE` |
| `MembersKept` | `Spec => MemberKept` | `IndexAssumption` |
| `PoolTypeCorrect` | `Spec => []TypeOK` | `PoolAssumption` |
| `SlotsOwned` | `Spec => []OneOwner` | `PoolAssumption` |
| `NoLeakForgotten` | `Spec => []LeaksRecorded` | `PoolAssumption` |
| `CloseIsClean` | `Spec => []CloseDrains` | `PoolAssumption` |
| `PoolLeases` | `Spec => LeasesSlots` | `PoolAssumption` |
| `NodeServerProofs!TypeCorrect` | `Spec => []TypeOK` | `SemaphoreAssumption`, `NodeAssumption` |
| `PermitsCorrect` | `Spec => []PermitsCounted` | the same |
| `SemaphoreImplements` | `Spec => CountsPermits` | the same |
| `AddressesCorrect` | `Spec => []AddressOwner` | the same |
| `NoOrphanCorrect` | `Spec => NoOrphan` | the same |
| `SnapshotsCorrect` | `Spec => []SnapshotExclusive` | the same |
| `ReservationsTypeCorrect` | `Spec => []TypeOK` | the named assumptions on constants |
| `StartedOnce` | `Spec => []OneStart` | the same |
| `EntriesKept` | `Spec => EntryKept` | the same |
| `TeamLimitKept` | `Spec => []LimitKept` | the same |
| `JoinedAnswered` | `Spec => []JoinedResult` | the same |
| `NoResultTold` | `Spec => ToldNoResult` | the same |
| `ChunkTypeCorrect` | `Spec => []TypeOK` | the named assumptions on constants |
| `WakeupsKept` | `Spec => []NoMissedWakeup` | the same |
| `ReadsAreVerified` | `Spec => []ReadsVerified` | the same |
| `CacheVerified` | `Spec => []CachedGood` | the same |
| `FetchesApart` | `Spec => []OneFetch` | the same |

The assumptions of the lifecycle (`NoneAssumption`, `SlowAssumption`,
`LifecycleAssumption`) say only that the sets of names are what they stand for and that the absent value is
none of them. The sets of processes and nodes may have any size.

The argument for the lifecycle, in six layers:

1. `TypeInv` adds to `TypeOK` what the local copies depend on: a process that owns
   a transition knows its ID, a process in a critical section or working on a
   transition has a copy of the record, and only requests resume.
2. `OwnerInv` adds that whoever is in a critical section of the record holds the
   lock, and that there is no transition key while a process is about to run the
   transition script. A key can only be written under that lock, so between the
   check and the script none appears. With the owner's key not expiring under it,
   `SingleOwner` is inductive.
3. `RecordInv` adds `CopyInv`: under the lock the copy is still the stored record,
   unless another execution was Added meanwhile; what was checked of the copy
   still holds when the script runs; a copy in a removing state is expired. The
   exception is harmless by `FreshInv`: nobody has a copy of an execution before
   its own start Adds it. The blind writes then write what they read, changed in
   the intended way, which gives the four properties of the record.
4. `PinInv` needs none of this. A pinned process has a copy of the pinned
   execution, and the script compares; so it holds with `Slow` too.
5. `PauseInv`, over `RecordInv`, is for `MaxFaults = 0`: after a crash the record may
   stay in Pausing with nobody behind it, and the property fails. `HomeInv`: if
   an execution runs under the sandbox ID, then on the node its record names, so that
   after the node's pause, which goes by sandbox ID, it does not.
   `SeesPause`: who finds the record in Pausing finds it while its pause is still
   before the removal, since the removal needs the lock; so the transition key that
   is read next names that pause. `OutcomeInv` then follows an owner and its joiners:
   while the key names the transition its owner pauses the joiner's execution, and
   afterwards there is an error result, or the VM is stopped and a snapshot is left.
   A stopped execution never runs again (`FreshInv`), and only a kill takes the
   snapshot away. TLC has checked `PauseInv` on the instance of `Requests`, and on
   one with two requests, an evictor, two nodes and a clock to 3.
6. `AtomicInv` adds `FindsInv` and `KindInv` (among others, evictions are those of
   eviction loops) to `RecordInv`, for the refinement. The record is mapped to itself and the owners to the processes that work on a transition. A write then
   has to be explained by what is stored at that moment, and not by the copy it was
   computed from: if another execution was Added in between, it is still running; and
   the owner of a transition finds its target state or a running sandbox, so that a
   restore never writes over a sandbox that somebody is removing. Every action is
   shown to be one step of `SandboxRecord` or to leave its variables alone. TLC has
   checked `FindsInv` on the instance of `Eviction` with pauses as requests too, and
   with the refinement on one with four requests and two nodes that only pause and resume, where displaced
   records do occur.

The argument for the index. `StoreInv` says that an execution whose Add is in
flight meets no record, and that at most one such Add per sandbox ID is under way;
a pending re-scoring belongs to a stored execution. `IndexInv` adds that an Add in
flight has a score in the future, so that no sweep has seen its member (this is
where `Slow = FALSE` is needed), and `PendingInv`: every member that a pending ZREM
names was added and is no longer stored. An execution is added once, so such a ZREM
cannot hit a stored record, however old the read behind it.

Without the proviso `StoredIsIndexed` fails (see the table above). `MemberKept` says
how far: a ZREM of Remove is never to blame, and the sandbox had expired before it was
stored. `LateInv` takes the place of `IndexInv`: the member of an Add in flight is
missing, seen by a sweep or about to be swept only after the end of its sandbox.
`MemberKept` is proved only; no run lists it, but TLC has checked it together with
`LateInv` on the instance of `IndexProgress` with two faults.

The argument for the pool. `PoolInv` adds to the three properties `Roles` and
`Holders` (where each goroutine can be, and that it has a slot in hand exactly
there), `Owners` (`OneOwner` slot by slot), `Free` (a leaked slot is not acquired,
so the fallback of Acquire hands out nothing twice) and `Closing` (what the
progress of Close says about `closed`, the counted returns and the channels). After
`closed` is set no return is counted and no slot is sent to `reused`, so once Close
has waited, what it drains stays drained.

`LeasesSlots` says that the pool implements `SlotLeases`: `acquired` are the leased
slots, `ns` those whose network is up, and a sandbox is live from Get until its slot
is reused or torn down. The invariant it needs, `Ready`, is that slots in a channel,
slots that Populate is about to offer and slots of live sandboxes have their
namespace, and that nothing foreign is acquired or recorded as leaked. Then each
action is a grant, a return, a teardown of what nobody uses, and so on, or is not
visible. `LeasesSlots` too is proved only; TLC has checked it on the instance of
`Pool`.

The argument for the node. `HandlerInv` types everything but the semaphore and adds
`Where`, what a handler has in hand at each label. On top of it:

1. `BaseInv` adds `TypeOK` and `PermitsCounted`. Each step of the semaphore grants,
   returns or keeps a permit, and a handler leaves `acquire` exactly with a grant and
   `return` exactly with a return. Those are the steps of `CountingSemaphore`, which
   gives the refinement.
2. `AddrInv` adds to `AddressOwner` that no two lifecycles have one address, that a
   slot goes back only after the exit of its VM, and that the index was told before
   the slot is free. So the removal by IP hits its own entry.
3. `NodeInv` (`HandlerInv`, `RegInv`, `Named`) says who may touch which lifecycle: a
   live entry is that of its own sandbox, what one handler is starting or has taken
   out is not live and not in the hands of another, and nobody looked up a lifecycle
   before it was live. So a step takes away only what its handler then holds, and
   the one hold it gives up without a successor is that of a start whose ID is
   taken. `BusyInv` adds that a checkpoint in place owns its marker.

The argument for the reservations, in three layers over `TypeInv`:

1. `EntryInv`: every start has a number of its own, entries do not change hands, and
   a start under way either still has the entry of its sandbox or is one of `lost`.
   So the script, which looks at entries, misses no start but those. That gives
   `OneStart` and `EntryKept`.
2. `LimitKept` is inductive on top of it. Only the script adds to what is counted,
   and at that moment it counts everything but the starts without entry, which are
   finitely many and each in `lost`.
3. `ResultInv` adds `JoinInv`: the script clears the result as it makes an entry, and
   `FinishStart` clears the entry as it sets a result, so an entry and a result never
   stand together, and what a waiter finds is no older than the start it joined,
   unless a lost start has set it. The second read of a waiter, after the entry was
   missed, is covered by the last conjunct.

The constants are any limit (negative: none), any `StaleTTL` above 0, and finite sets
of calls and sandboxes; `None` and `NoResult` are none of the values.

The argument for the chunks, in two layers. The file, chunks and frames may have any
size above 0, and `None` is no error.

1. `Shape` adds to `TypeOK` that a waiting reader is with a session that covers the
   chunk of its next block and is not dropped, and that it goes to sleep only on a
   session that is not done and not ready that far. Every step that raises `ready`
   or sets `done` wakes the sleepers with it, under the session's mutex.
2. `Bytes` follows the content. Per session, `Framed` (its chunk is one of its
   geometry, written from the left), `Underway` (storage is asked only for the
   geometry it has), `Clean` (what is cached in the chunk of a session that may still
   write is in `shared`), `Written` (what is ready or written has bytes, and good
   ones or in `shared` while the stream is intact) and `Ended` (a session ends
   without error only once its chunk is cached; the readers of a frame get nothing
   before that). Between sessions, `Apart`: two that are listed have no block in
   common if they are of one geometry, and if both may still write, only blocks in
   `shared`. Per reader, `Taken`: each block it has passed is cached, or was taken
   early and has bytes. A lookup that finds no session covering its chunk and the
   chunk not cached creates one. A session of its own geometry with a block of the
   chunk would have covered it, so that whatever it meets is of the other geometry or
   cached in part, and `Overlap` records just that.

No relation between the sizes of chunks and frames is assumed: the code enforces
none (`FrameSizeKB` is never compared with `MemoryChunkSize`). `OneFetch` follows from
`Apart` and `Underway`: of two sessions of different geometry only one can be of the
geometry that is stored. `Bytes` itself was checked with TLC on the instance of
`Chunks`, and with `Stored = "chunk"`, before it was proved.

Model-checked only: the liveness properties `Answered`, `EventuallyGone`,
`IndexSettles`, `ShutdownReleases`, `PoolRefills`, `HandlersReturn`,
`WaitersAnswered` and `ReadsReturn`, which hold under fairness and are out of the
reach of this prover.

## 5. What is not modelled

- Failures of single Redis commands other than a failed `Add`. A pod that stops in
  the middle is a crash; a removal or callback that cannot get its lock is
  `LockTimesOut`.
- PubSub. Waits end on their fallback ticker, which is what the code relies on
  when a message is lost.
- The snapshot cache of the API; the snapshot row is read as it is.
- The maximum instance length, the forwarding of a new end time to the node, nodes
  of remote clusters (which have no route in the catalog). In the lifecycle a start
  may be refused at any time; the team limit is in `TeamReservations`.
- Whether a joined start returned a sandbox or an error; both end in `done`.
- In the lifecycle, the expiration index: `Evict` sees every stored sandbox that
  qualifies, and so may come earlier than the index would let it, since the score
  of a sandbox in removal is not refreshed.
- With `Slow`, a lock that expires between Obtain and GET, or inside `Remove`.
- In the index, more than one team, members that do not parse, and the reads that
  only list sandboxes.
- In the index, `AddMember` assumes what the reservation before it is for: no record
  of the sandbox is stored and no other Add of it is under way. Neither `Add` nor its
  script looks. The assumption fails where a start has lost its entry
  (`TeamReservations!OneStart`, and the counterexample to `SandboxLifecycle!OneStart`
  in section 3): then an Add replaces a stored record, possibly between the GET and
  the SET of an Update, and `StoredIsIndexed` and `IndexSettles` say nothing of that.
- In the index, `Evict` of a stale record succeeds whatever its state was. In the
  code the evictor asks for a kill or, for an auto-pause sandbox, for a pause, which
  is refused from Killing; `IndexSettles` is about records whose removal is not
  refused. `SandboxLifecycle` has the refusal, and `EventuallyGone` with
  `FirstAuto = TRUE` (section 3) shows what it leads to.
- In the reservations, `Remove` starts from a record, as its callers do, which begin a
  transition first; they are in `SandboxLifecycle`. Removals of one sandbox may
  overlap, since a transition may lapse.
- In the pool, version 2 (`network/v2`), the order of slots in a channel, the
  release notification, and what firewall and DSCP rules say.
- Of `Cleanup`, the priority functions and every function but the one that returns
  the slot.
- On the node: Update, List, the chunk service and the drain at shutdown; failures of
  the steps of `Close` (`Cleanup` runs them all); the subscribers of the map.
- In the chunks: closing the cache while fetches run, soft-deleted builds,
  zero-length reads, metrics. The build starts with a peer; a source without one,
  which loads its header before the first read, is the model after the reload.
  Frames have one size, where a frame table may hold several. Bytes from the peer
  and of a stream from storage, which carry no checksum here, are taken to be those of
  the build; only frames from storage may be corrupt.
- In the reservations: several teams, which share no key, and the poll interval.
- Everything listed as `not_modelled` in `PROJECT.json`, with its reason there.

The models cover the concurrent core and a small share of the repository's lines.
Most of the rest is generated code (API and gRPC bindings, queries), build
pipelines, the guest agent, and request handling without shared protocol state.

## 6. Plan

What would come next, in order of importance; each item is a module with its runs.

1. Routing: routes against executions, with the late `AddRoute` and the proxy.
2. The NBD `DevicePool`.
3. Snapshot templates as a second kind of checkpoint; header mapping arithmetic
   as pure operators against a reference.

Modules meant for proofs use no recursive operators.
