----------------------------- MODULE ChunkFetch -----------------------------
(***************************************************************************)
(* Reads of a build's data file through the streaming chunker              *)
(* (orchestrator/pkg/sandbox/block, StorageDiff and peerSeekable).  A read *)
(* is served from the cache, or waits for the fetch session of every chunk *)
(* that it spans.  Sessions run in goroutines of their own, are shared by  *)
(* the readers, and may outlive them.  While the build is still being      *)
(* uploaded its bytes come from the peer orchestrator, afterwards from     *)
(* storage.                                                                *)
(*                                                                         *)
(* A read cuts the file into chunks of a stream, whose bytes are given out *)
(* as they come, or into the frames of a compressed build, whose checksum  *)
(* is known only at their end.  Which of the two is up to the frame table  *)
(* that the read is made with, not to the source of the bytes: a caller    *)
(* may bring the frame table of a build that its peer still serves.        *)
(*                                                                         *)
(* Offsets are in blocks.  A block of the mapping is unwritten, as in the  *)
(* build, or corrupt.                                                      *)
(***************************************************************************)
EXTENDS Integers

CONSTANTS
  Readers,
  Ranges,      (* the ranges that each reader may ask for *)
  Cancellable, (* the readers whose context may end *)
  MaxSessions, (* bound: fetch sessions at a time *)
  Size,        (* of the file *)
  ChunkSize,   (* MemoryChunkSize for "chunk", the frame size for "frame" *)
  Stored,      (* how the build is stored: in frames, or not compressed *)
  None

ASSUME ChunkAssumption ==
  /\ Size \in Nat \ {0} /\ MaxSessions \in Nat \ {0}
  /\ ChunkSize \in [{"chunk", "frame"} -> Nat \ {0}] /\ Stored \in {"chunk", "frame"}

VARIABLES
  source,     (* StorageDiff.source: where the next read goes *)
  uploaded,   (* peerHandle.uploaded *)
  mem,        (* Cache.mmap *)
  cached,     (* the blocks that Cache.tracker has as present *)
  fs,         (* the fetch sessions *)
  rd,         (* the readers, each of one read *)
  shared      (* history: blocks that were fetched in both geometries at once *)

vars == <<source, uploaded, mem, cached, fs, rd, shared>>

Blocks == 0..Size - 1
Sessions == 1..MaxSessions
Sources == {"peer", "storage"}
Geometries == {"chunk", "frame"}
Errors == {"transitioned", "failed", "cancelled"}

ASSUME NoneAssumption == None \notin Errors

Chunk(lo, hi) == {b \in Blocks : lo <= b /\ b < hi}

(* locateChunk: the chunk of block b, clamped to the size of the file. *)
ChunkLo(geo, b) == (b \div ChunkSize[geo]) * ChunkSize[geo]
ChunkHi(geo, b) ==
  IF ChunkLo(geo, b) + ChunkSize[geo] < Size THEN ChunkLo(geo, b) + ChunkSize[geo] ELSE Size

SessionPCs == {"free", "open", "read", "cache", "done", "release", "over"}

(* upstream: where the bytes come from; ready: bytesReady; wrote, intact:  *)
(* while the fetch runs, blocks are written up to here, none corrupt.      *)
FetchSessions ==
  [pc : SessionPCs, geo : Geometries, upstream : Sources, lo : 0..Size, hi : 0..Size, wrote : 0..Size,
   ready : 0..Size, intact : BOOLEAN, done : BOOLEAN, err : Errors \cup {None}]

Blank == [pc |-> "free", geo |-> "chunk", upstream |-> "peer", lo |-> 0, hi |-> 0, wrote |-> 0,
          ready |-> 0, intact |-> TRUE, done |-> FALSE, err |-> None]

ReaderPCs == {"idle", "lookup", "wait", "enqueue", "sleep", "slice", "recover", "returned"}

(* geo, upstream: what resolve returned; cur: the block that the read is   *)
(* at; early: the blocks that it took from a session before its end;       *)
(* unwritten, corrupt: the blocks that it returned without bytes of the    *)
(* build in them.                                                          *)
Reads ==
  [pc : ReaderPCs, geo : Geometries, upstream : Sources, try : 0..2, lo : 0..Size, hi : 0..Size,
   cur : 0..Size, s : Sessions \cup {None}, cancelled : BOOLEAN, early : SUBSET Blocks,
   unwritten : SUBSET Blocks, corrupt : SUBSET Blocks, err : Errors \cup {None}]

Idle == [pc |-> "idle", geo |-> "chunk", upstream |-> "peer", try |-> 0, lo |-> 0, hi |-> 0,
         cur |-> 0, s |-> None, cancelled |-> FALSE, early |-> {},
         unwritten |-> {}, corrupt |-> {}, err |-> None]

(* Every field stays in its range: no fetch writes past its chunk and no  *)
(* read is made a third time.                                              *)
TypeOK ==
  /\ source \in Sources /\ uploaded \in BOOLEAN
  /\ mem \in [Blocks -> {"none", "good", "bad"}]
  /\ cached \subseteq Blocks
  /\ fs \in [Sessions -> FetchSessions]
  /\ rd \in [Readers -> Reads]
  /\ shared \subseteq Blocks

Init ==
  /\ source = "peer" /\ uploaded = FALSE
  /\ mem = [b \in Blocks |-> "none"]
  /\ cached = {}
  /\ fs = [s \in Sessions |-> Blank]
  /\ rd = [r \in Readers |-> Idle]
  /\ shared = {}

(* fetchSessions: from getOrCreateSession to releaseSession. *)
Listed == {s \in Sessions : fs[s].pc \notin {"free", "over"}}

(* A session that is over is dropped with its last reader. *)
Collect(f, readers) ==
  [s \in Sessions |->
     IF f[s].pc = "over" /\ \A r \in Readers : readers[r].s # s THEN Blank ELSE f[s]]

(***************************************************************************)
(* StorageDiff.Slice and Chunker.Slice.                                    *)
(***************************************************************************)

(* The bytes are in the mapping as the read returns; of those that it took *)
(* early only the corrupt ones matter from here on.                        *)
Returns(r, lo, hi, early) ==
  LET corrupt == {b \in Chunk(lo, hi) : mem[b] = "bad"}
  IN  rd' = [rd EXCEPT ![r] = [Idle EXCEPT !.pc = "returned", !.early = early \cap corrupt,
                                !.corrupt = corrupt,
                                !.unwritten = {b \in Chunk(lo, hi) : mem[b] = "none"}]]

(* Cache.Slice, or the first chunk of the range. *)
Slice(r, geo, upstream, try, lo, hi, cancelled) ==
  IF Chunk(lo, hi) \subseteq cached THEN Returns(r, lo, hi, {})
  ELSE rd' = [rd EXCEPT ![r] = [Idle EXCEPT !.pc = "lookup", !.geo = geo, !.upstream = upstream,
                                            !.try = try, !.lo = lo, !.hi = hi, !.cur = lo,
                                            !.cancelled = cancelled]]

(* resolve: the frame table of the loaded header; or, with the peer, the   *)
(* one that the caller brought or none.                                    *)
Resolves(geo) == geo = Stored \/ (geo = "chunk" /\ source = "peer")

Read(r, geo, lo, hi) ==
  /\ rd[r].pc = "idle" /\ <<lo, hi>> \in Ranges[r] /\ lo < hi /\ Resolves(geo)
  /\ Slice(r, geo, source, 1, lo, hi, FALSE)
  /\ UNCHANGED <<source, uploaded, mem, cached, fs, shared>>

(* The rest of the range from block b. *)
Continue(r, b, early) ==
  rd' = [rd EXCEPT ![r] =
    IF b >= rd[r].hi
      THEN [Idle EXCEPT !.pc = "slice", !.lo = rd[r].lo, !.hi = rd[r].hi,
                        !.cur = b, !.early = early]
    ELSE IF b = ChunkHi(rd[r].geo, rd[r].cur)
      THEN [@ EXCEPT !.pc = "lookup", !.cur = b, !.s = None, !.early = early]
    ELSE [@ EXCEPT !.pc = "wait", !.cur = b, !.early = early]]

(* A read fails; of the first attempt, a peer that has moved on is         *)
(* recovered from.                                                         *)
Fails(r, e) ==
  rd' = [rd EXCEPT ![r] =
    IF e = "transitioned" /\ rd[r].try = 1
      THEN [Idle EXCEPT !.pc = "recover", !.try = 1, !.lo = rd[r].lo, !.hi = rd[r].hi,
                        !.cancelled = rd[r].cancelled]
      ELSE [Idle EXCEPT !.pc = "returned", !.err = e]]

(* Mutant: a session does not contain its own last block. *)
CoversShort(s, lo, hi) == fs[s].lo <= lo /\ fs[s].hi > hi

(* fetchSession.contains. *)
Covers(s, lo, hi) == fs[s].lo <= lo /\ fs[s].hi >= hi

(* Mutant: the cache is not checked again under fetchMu. *)
IsCachedNever(lo, hi) == FALSE

IsCached(lo, hi) == Chunk(lo, hi) \subseteq cached

(* A session that will not write any more: its peer says that the build is *)
(* in storage.                                                             *)
Yields(s) == fs[s].pc = "open" /\ fs[s].upstream = "peer" /\ uploaded

Running(s) == fs[s].pc \in {"open", "read", "cache", "done"} /\ ~Yields(s)

(* The blocks of a new session that one of the other geometry is fetching, *)
(* or has fetched without the others of the chunk.                         *)
Overlap(geo, upstream, lo, hi) ==
  {b \in Chunk(lo, hi) :
     /\ upstream = "peer" => ~uploaded
     /\ \/ b \in cached /\ ~(Chunk(lo, hi) \subseteq cached)
        \/ \E t \in Sessions : Running(t) /\ fs[t].geo # geo /\ b \in Chunk(fs[t].lo, fs[t].hi)}

(* getOrCreateSession, under fetchMu. *)
Lookup(r) ==
  LET lo == ChunkLo(rd[r].geo, rd[r].cur)
      hi == ChunkHi(rd[r].geo, rd[r].cur)
      found == {s \in Listed : Covers(s, lo, hi)}
  IN  /\ rd[r].pc = "lookup"
      /\ \/ \E s \in found : /\ rd' = [rd EXCEPT ![r].pc = "wait", ![r].s = s]
                             /\ UNCHANGED <<fs, shared>>
         \/ /\ found = {} /\ IsCached(lo, hi)
            /\ Continue(r, hi, rd[r].early)
            /\ UNCHANGED <<fs, shared>>
         \/ /\ found = {} /\ ~IsCached(lo, hi)
            /\ \E s \in Sessions :
                 /\ fs[s].pc = "free" /\ \A t \in 1..s - 1 : fs[t].pc # "free"
                 /\ fs' = [fs EXCEPT ![s] = [Blank EXCEPT !.pc = "open", !.geo = rd[r].geo,
                              !.upstream = rd[r].upstream, !.lo = lo, !.hi = hi, !.wrote = lo, !.ready = lo]]
                 /\ rd' = [rd EXCEPT ![r].pc = "wait", ![r].s = s]
            /\ shared' = shared \cup Overlap(rd[r].geo, rd[r].upstream, lo, hi)
      /\ UNCHANGED <<source, uploaded, mem, cached>>

(* registerAndWait: one turn of the loop, under the session's mutex. *)
Wait(r) ==
  LET f == fs[rd[r].s]
      b == rd[r].cur
  IN  /\ rd[r].pc = "wait"
      /\ \/ b < f.ready /\ Continue(r, b + 1, rd[r].early \cup
                                   {c \in {b} : f.geo = "chunk" /\ ~(f.done /\ f.err = None)})
         \/ b >= f.ready /\ f.done /\ b \in cached /\ Continue(r, b + 1, rd[r].early)
         \/ b >= f.ready /\ f.done /\ b \notin cached /\ Fails(r, f.err)
         \/ b >= f.ready /\ ~f.done /\ rd[r].cancelled /\ Fails(r, "cancelled")
         \/ b >= f.ready /\ ~f.done /\ ~rd[r].cancelled /\ rd' = [rd EXCEPT ![r].pc = "enqueue"]
      /\ fs' = Collect(fs, rd')
      /\ UNCHANGED <<source, uploaded, mem, cached, shared>>

(* cond.Wait: the reader is on the list, then lets go of the mutex. *)
Enqueue(r) ==
  /\ rd[r].pc = "enqueue"
  /\ rd' = [rd EXCEPT ![r].pc = "sleep"]
  /\ UNCHANGED <<source, uploaded, mem, cached, fs, shared>>

(* cond.Broadcast. *)
Broadcast(s, readers) ==
  [r \in Readers |-> IF readers[r].s = s /\ readers[r].pc = "sleep"
                       THEN [readers[r] EXCEPT !.pc = "wait"] ELSE readers[r]]

(* The reader's context ends; AfterFunc broadcasts without the mutex. *)
Cancel(r) ==
  /\ r \in Cancellable /\ rd[r].pc \in {"wait", "enqueue", "sleep"} /\ ~rd[r].cancelled
  /\ rd' = Broadcast(rd[r].s, [rd EXCEPT ![r].cancelled = TRUE])
  /\ UNCHANGED <<source, uploaded, mem, cached, fs, shared>>

(* sliceDirect, after every block of the range was found ready. *)
SliceDirect(r) ==
  /\ rd[r].pc = "slice"
  /\ Returns(r, rd[r].lo, rd[r].hi, rd[r].early)
  /\ UNCHANGED <<source, uploaded, mem, cached, fs, shared>>

(* reloadAfterPeerTransition: the header is loaded again, and what it says *)
(* is opened in storage, unless another reader did so.                     *)
Reload == source' = "storage"

(* recoverFromPeerTransition, and the read is made once more.  The wait    *)
(* before it may end with the reader's context, and the load may fail.     *)
Recover(r) ==
  /\ rd[r].pc = "recover"
  /\ \/ /\ Reload
        /\ Slice(r, Stored, "storage", 2, rd[r].lo, rd[r].hi, rd[r].cancelled)
     \/ UNCHANGED source /\ Fails(r, "failed")
  /\ UNCHANGED <<uploaded, mem, cached, fs, shared>>

(***************************************************************************)
(* runFetch.                                                               *)
(***************************************************************************)

(* Mutant: advance does not take the mutex. *)
MutexIgnored(s) == TRUE

(* Steps that change what the readers wait for need the session's mutex. *)
MutexFree(s) == \A r \in Readers : ~(rd[r].s = s /\ rd[r].pc = "enqueue")

(* Mutant: the fetch ends, its session does not. *)
FailQuiet(s, e) ==
  /\ fs' = [fs EXCEPT ![s].pc = "release"]
  /\ UNCHANGED rd

Fail(s, e) ==
  /\ MutexFree(s)
  /\ fs' = [fs EXCEPT ![s] = [@ EXCEPT !.pc = "release", !.done = TRUE, !.err = e,
                                        !.wrote = fs[s].lo, !.intact = TRUE]]
  /\ rd' = Broadcast(s, rd)

Opens(s) == fs[s].upstream = "peer" => ~uploaded

(* OpenRangeReader.  A peer that cannot serve the range, and has not said  *)
(* that the build is in storage, is passed over for what storage may have  *)
(* under the name of the frame table's compression type.                   *)
Open(s) ==
  /\ fs[s].pc = "open"
  /\ \/ Opens(s) /\ fs' = [fs EXCEPT ![s].pc = "read"] /\ UNCHANGED rd
     \/ /\ fs[s].upstream = "peer" /\ ~uploaded /\ fs[s].geo = Stored
        /\ fs' = [fs EXCEPT ![s].pc = "read", ![s].upstream = "storage"]
        /\ UNCHANGED rd
     \/ Fail(s, IF fs[s].upstream = "peer" /\ uploaded THEN "transitioned" ELSE "failed")
  /\ UNCHANGED <<source, uploaded, mem, cached, shared>>

(* Mutant: one block more is read than the chunk has. *)
MoreByOne(s) == fs[s].wrote <= fs[s].hi

More(s) == fs[s].wrote < fs[s].hi

(* Mutant: the readers of a frame go on before it is verified. *)
StreamsAlways(s) == TRUE

Streams(s) == fs[s].geo = "chunk"

(* progressiveFetch, one batch: the readers of a chunk of a stream may go  *)
(* on.  Frames of storage may be corrupt; a peer sends bytes of the build. *)
Receive(s, v) ==
  LET b == fs[s].wrote
  IN  /\ fs[s].pc = "read" /\ More(s)
      /\ (v = "bad" => fs[s].geo = "frame" /\ fs[s].upstream = "storage") /\ (Streams(s) => MutexFree(s))
      /\ mem' = [mem EXCEPT ![b] = v]
      /\ fs' = [fs EXCEPT ![s].wrote = b + 1, ![s].intact = @ /\ v = "good",
                          ![s].ready = IF Streams(s) THEN b + 1 ELSE @]
      /\ rd' = IF Streams(s) THEN Broadcast(s, rd) ELSE rd
      /\ UNCHANGED <<source, uploaded, cached, shared>>

(* The stream breaks, or the fetch exceeds its timeout or panics. *)
Breaks(s) ==
  /\ fs[s].pc = "read"
  /\ Fail(s, "failed")
  /\ UNCHANGED <<source, uploaded, mem, cached, shared>>

(* The reader is closed, which verifies a frame. *)
Verify(s) ==
  /\ fs[s].pc = "read" /\ fs[s].wrote = fs[s].hi
  /\ IF fs[s].intact THEN fs' = [fs EXCEPT ![s].pc = "cache"] /\ UNCHANGED rd ELSE Fail(s, "failed")
  /\ UNCHANGED <<source, uploaded, mem, cached, shared>>

SetIsCached(s) ==
  /\ fs[s].pc = "cache"
  /\ cached' = cached \cup Chunk(fs[s].lo, fs[s].hi)
  /\ fs' = [fs EXCEPT ![s].pc = "done"]
  /\ UNCHANGED <<source, uploaded, mem, rd, shared>>

SetDone(s) ==
  /\ fs[s].pc = "done" /\ MutexFree(s)
  /\ fs' = [fs EXCEPT ![s].pc = "release", ![s].done = TRUE, ![s].ready = fs[s].hi]
  /\ rd' = Broadcast(s, rd)
  /\ UNCHANGED <<source, uploaded, mem, cached, shared>>

ReleaseSession(s) ==
  /\ fs[s].pc = "release"
  /\ fs' = Collect([fs EXCEPT ![s].pc = "over"], rd)
  /\ UNCHANGED <<source, uploaded, mem, cached, rd, shared>>

(* The peer says that the build is in storage. *)
UseStorage ==
  /\ ~uploaded /\ uploaded' = TRUE
  /\ UNCHANGED <<source, mem, cached, fs, rd, shared>>

Reader(r) ==
  Lookup(r) \/ Wait(r) \/ Enqueue(r) \/ SliceDirect(r) \/ Recover(r)

RunFetch(s) ==
  \/ Open(s) \/ (\E v \in {"good", "bad"} : Receive(s, v)) \/ Breaks(s) \/ Verify(s)
  \/ SetIsCached(s) \/ SetDone(s) \/ ReleaseSession(s)

Next ==
  \/ \E r \in Readers : Reader(r) \/ Cancel(r)
  \/ \E r \in Readers, geo \in Geometries, lo, hi \in 0..Size : Read(r, geo, lo, hi)
  \/ \E s \in Sessions : RunFetch(s)
  \/ UseStorage

Spec == Init /\ [][Next]_vars

FairSpec ==
  /\ Spec
  /\ \A r \in Readers : WF_vars(Reader(r))
  /\ \A s \in Sessions : WF_vars(RunFetch(s))

(***************************************************************************)
(* Properties.                                                             *)
(***************************************************************************)

(* A read returns bytes of the build: never unwritten ones, and corrupt    *)
(* ones only in a block that it took from a stream before its end, or that *)
(* was fetched in both geometries at once.                                 *)
ReadsVerified ==
  \A r \in Readers : rd[r].unwritten = {} /\ rd[r].corrupt \subseteq rd[r].early \cup shared

(* What the tracker has as present is in the mapping for good, and         *)
(* verified unless it was fetched in both geometries at once: no other     *)
(* session writes over it.                                                 *)
CachedGood == \A b \in cached : mem[b] = "good" \/ (mem[b] = "bad" /\ b \in shared)

(* A block that is being fetched is not fetched again, unless one fetch is *)
(* of a chunk and the other of a frame, and a peer serves one of them.     *)
OneFetch ==
  \A s, t \in Listed :
    s # t /\ Chunk(fs[s].lo, fs[s].hi) \cap Chunk(fs[t].lo, fs[t].hi) # {} =>
      fs[s].geo # fs[t].geo /\ "peer" \in {fs[s].upstream, fs[t].upstream}

(* A reader sleeps only while its block is not ready and its session goes  *)
(* on.                                                                     *)
NoMissedWakeup ==
  \A r \in Readers : rd[r].pc = "sleep" => ~fs[rd[r].s].done /\ rd[r].cur >= fs[rd[r].s].ready

(* Every read returns, also when the broadcast of its cancellation came    *)
(* too early to wake it.  A reader makes one read, so that none is left    *)
(* behind as long as there are moments at which none is under way.         *)
Unserved == {r \in Readers : rd[r].pc \notin {"idle", "returned"}}

ReadsReturn == Unserved # {} ~> Unserved = {}

(* A read returns bytes of the build only.  Not what the code does: a      *)
(* block of a stream that broke off may be written again, by a frame that  *)
(* turns out corrupt, before its reader slices it.                         *)
NoCorruptRead == \A r \in Readers : rd[r].unwritten = {} /\ rd[r].corrupt = {}

(* A read that was recovered from the transition of the peer does not end  *)
(* with one: "the retry hits GCS at the right path with no wrapper         *)
(* involved".  Not what the code does: the retry may find the failed       *)
(* session, which is listed until its fetch has returned.                  *)
RetryHitsStorage == \A r \in Readers : rd[r].err # "transitioned"

(* What the tracker has is verified.  Not what the code does: the fetch of *)
(* a frame does not keep that of the chunk around it from starting, and    *)
(* may then write a corrupt frame over blocks that the chunk's marks.      *)
NoCorruptCache == \A b \in cached : mem[b] = "good"

(* No two fetches write the same block at once.  Not what the code does:   *)
(* the chunk of a stream is not contained in the frame that is fetched.    *)
OneWriter ==
  \A s, t \in Sessions :
    s # t /\ fs[s].pc = "read" /\ fs[t].pc = "read" =>
      Chunk(fs[s].lo, fs[s].hi) \cap Chunk(fs[t].lo, fs[t].hi) = {}
=============================================================================
