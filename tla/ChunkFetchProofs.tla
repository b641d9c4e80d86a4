-------------------------- MODULE ChunkFetchProofs --------------------------
(***************************************************************************)
(* Proofs about ChunkFetch, for every size of the file, of chunks and of   *)
(* frames, every number of readers and of sessions.                        *)
(*                                                                         *)
(* A session keeps the chunk that it was created for, and a waiting reader *)
(* is with a session that covers its chunk.  This and the mutex of the     *)
(* session give the types and the wake-ups.                                *)
(*                                                                         *)
(* For the bytes: two listed sessions of the same geometry have no block   *)
(* in common, because such chunks are the same or disjoint and the same    *)
(* one would have been joined.  Two that may both write and meet all the   *)
(* same have recorded it in shared, and so has a session that is created   *)
(* where something is cached.  What a session has verified outside shared  *)
(* is therefore written by no other one, before or after it is cached.     *)
(***************************************************************************)
EXTENDS ChunkFetch, TLAPS

(***************************************************************************)
(* Arithmetic of chunks.                                                   *)
(***************************************************************************)

LEMMA DivBounds ==
  ASSUME NEW b \in Nat, NEW n \in Nat \ {0}
  PROVE  b \div n \in Nat /\ (b \div n) * n <= b /\ b < (b \div n) * n + n
  BY SMT

LEMMA DivUnique ==
  ASSUME NEW c \in Nat, NEW n \in Nat \ {0}, NEW q \in Nat, q * n <= c, c < q * n + n
  PROVE  c \div n = q
  BY SMT

LEMMA SizeTypes ==
  /\ Size \in Nat /\ Size # 0 /\ MaxSessions \in Nat
  /\ \A geo \in Geometries : ChunkSize[geo] \in Nat \ {0}
  BY ChunkAssumption, Zenon DEF Geometries

LEMMA BlockTypes == \A b : b \in Blocks <=> b \in Nat /\ b < Size
  BY SizeTypes DEF Blocks

LEMMA ChunkBlocks ==
  ASSUME NEW lo, NEW hi
  PROVE  Chunk(lo, hi) \subseteq Blocks /\ \A b : b \in Chunk(lo, hi) <=> b \in Blocks /\ lo <= b /\ b < hi
  BY Zenon DEF Chunk

LEMMA ChunkBounds ==
  ASSUME NEW geo \in Geometries, NEW b \in Blocks
  PROVE  /\ ChunkLo(geo, b) \in Nat /\ ChunkLo(geo, b) <= b
         /\ ChunkHi(geo, b) \in Nat /\ b < ChunkHi(geo, b) /\ ChunkHi(geo, b) <= Size
<1> DEFINE n == ChunkSize[geo]
           lo == ChunkLo(geo, b)
<1>1. n \in Nat \ {0} /\ b \in Nat /\ b < Size /\ Size \in Nat
  BY SizeTypes, BlockTypes, Zenon
<1>2. b \div n \in Nat /\ lo = (b \div n) * n /\ lo <= b /\ b < lo + n
  BY <1>1, DivBounds, Zenon DEF ChunkLo
<1>3. lo \in Nat
  BY <1>1, <1>2
<1>4. ChunkHi(geo, b) = IF lo + n < Size THEN lo + n ELSE Size
  BY Zenon DEF ChunkHi
<1> HIDE DEF lo, n
<1>5. ChunkHi(geo, b) \in Nat /\ b < ChunkHi(geo, b) /\ ChunkHi(geo, b) <= Size
  BY <1>1, <1>2, <1>3, <1>4
<1> QED
  BY <1>2, <1>3, <1>5, Zenon DEF lo

(* The blocks of a chunk have the same chunk. *)
LEMMA SameChunk ==
  ASSUME NEW geo \in Geometries, NEW b \in Blocks, NEW c \in Blocks,
         ChunkLo(geo, b) <= c, c < ChunkHi(geo, b)
  PROVE  ChunkLo(geo, c) = ChunkLo(geo, b) /\ ChunkHi(geo, c) = ChunkHi(geo, b)
<1> DEFINE n == ChunkSize[geo]
           q == b \div n
<1>1. n \in Nat \ {0} /\ b \in Nat /\ c \in Nat /\ Size \in Nat
  BY SizeTypes, BlockTypes, Zenon
<1>2. q \in Nat
  BY <1>1, DivBounds, Zenon
<1>3. q * n <= c
  BY Zenon DEF ChunkLo
<1>4. ChunkHi(geo, b) = IF q * n + n < Size THEN q * n + n ELSE Size
  BY Zenon DEF ChunkHi, ChunkLo
<1> HIDE DEF n, q
<1>5. c < q * n + n
  BY <1>1, <1>2, <1>4
<1>6. c \div n = q
  BY <1>1, <1>2, <1>3, <1>5, DivUnique, Zenon
<1> QED
  BY <1>6, Zenon DEF ChunkLo, ChunkHi, n, q

(***************************************************************************)
(* Shapes of steps.                                                        *)
(***************************************************************************)

Waiting == {"wait", "enqueue", "sleep"}
Reading == {"lookup", "wait", "enqueue", "sleep"}

(* Only session s changes, and it keeps its chunk. *)
Alters(s) ==
  /\ fs' \in [Sessions -> FetchSessions]
  /\ \A t \in Sessions \ {s} : fs'[t] = fs[t]
  /\ fs'[s].geo = fs[s].geo /\ fs'[s].lo = fs[s].lo /\ fs'[s].hi = fs[s].hi

(* The outcome of session s stays. *)
KeepsOutcome(s) == fs'[s].done = fs[s].done /\ fs'[s].err = fs[s].err

KeepsMarks(s) ==
  fs'[s].wrote = fs[s].wrote /\ fs'[s].ready = fs[s].ready /\ fs'[s].intact = fs[s].intact

(* Reader q is where it was, or has been woken by session s. *)
Stays(q, s) ==
  /\ rd'[q] \in Reads
  /\ rd'[q].geo = rd[q].geo /\ rd'[q].upstream = rd[q].upstream
  /\ rd'[q].lo = rd[q].lo /\ rd'[q].hi = rd[q].hi /\ rd'[q].cur = rd[q].cur /\ rd'[q].s = rd[q].s
  /\ rd'[q].early = rd[q].early /\ rd'[q].unwritten = rd[q].unwritten /\ rd'[q].corrupt = rd[q].corrupt
  /\ rd'[q].pc = rd[q].pc \/ (rd[q].s = s /\ rd[q].pc = "sleep" /\ rd'[q].pc = "wait")

LEMMA SessionTypes ==
  ASSUME TypeOK, NEW s \in Sessions
  PROVE  /\ fs[s] \in FetchSessions
         /\ fs[s].pc \in SessionPCs /\ fs[s].geo \in Geometries /\ fs[s].upstream \in Sources
         /\ fs[s].lo \in 0..Size /\ fs[s].hi \in 0..Size
         /\ fs[s].wrote \in 0..Size /\ fs[s].ready \in 0..Size
         /\ fs[s].intact \in BOOLEAN /\ fs[s].done \in BOOLEAN /\ fs[s].err \in Errors \cup {None}
<1>1. fs[s] \in FetchSessions
  BY Zenon DEF TypeOK
<1> QED
  BY <1>1, Zenon DEF FetchSessions

LEMMA SessionRanges ==
  ASSUME TypeOK, NEW s \in Sessions
  PROVE  /\ fs[s].lo \in Nat /\ fs[s].hi \in Nat /\ fs[s].wrote \in Nat /\ fs[s].ready \in Nat
         /\ fs[s].lo <= Size /\ fs[s].hi <= Size /\ fs[s].wrote <= Size /\ fs[s].ready <= Size
<1>1. \A n \in 0..Size : n \in Nat /\ n <= Size
  BY SizeTypes
<1> QED
  BY <1>1, SessionTypes, Zenon

LEMMA ReaderTypes ==
  ASSUME TypeOK, NEW r \in Readers
  PROVE  /\ rd[r] \in Reads
         /\ rd[r].pc \in ReaderPCs /\ rd[r].geo \in Geometries /\ rd[r].upstream \in Sources
         /\ rd[r].lo \in 0..Size /\ rd[r].hi \in 0..Size /\ rd[r].cur \in 0..Size
         /\ rd[r].s \in Sessions \cup {None} /\ rd[r].cancelled \in BOOLEAN
         /\ rd[r].early \subseteq Blocks /\ rd[r].err \in Errors \cup {None}
<1>1. rd[r] \in Reads
  BY Zenon DEF TypeOK
<1> QED
  BY <1>1, Zenon DEF Reads

LEMMA ReaderRanges ==
  ASSUME TypeOK, NEW r \in Readers
  PROVE  /\ rd[r].lo \in Nat /\ rd[r].hi \in Nat /\ rd[r].cur \in Nat
         /\ rd[r].lo <= Size /\ rd[r].hi <= Size /\ rd[r].cur <= Size
<1>1. \A n \in 0..Size : n \in Nat /\ n <= Size
  BY SizeTypes
<1> QED
  BY <1>1, ReaderTypes, Zenon

LEMMA RangeIntro == \A n \in Nat : n <= Size => n \in 0..Size
  BY SizeTypes

LEMMA GoesSession ==
  ASSUME TypeOK, NEW s \in Sessions, NEW l \in SessionPCs, fs' = [fs EXCEPT ![s].pc = l]
  PROVE  /\ Alters(s) /\ KeepsOutcome(s) /\ KeepsMarks(s) /\ fs'[s].pc = l
         /\ fs'[s].upstream = fs[s].upstream
<1>1. fs \in [Sessions -> FetchSessions]
  BY Zenon DEF TypeOK
<1> QED
  BY <1>1, SMT DEF FetchSessions, Alters, KeepsOutcome, KeepsMarks

(* The peer is passed over for what storage has. *)
LEMMA BaseSession ==
  ASSUME TypeOK, NEW s \in Sessions,
         fs' = [fs EXCEPT ![s].pc = "read", ![s].upstream = "storage"]
  PROVE  /\ Alters(s) /\ KeepsOutcome(s) /\ KeepsMarks(s) /\ fs'[s].pc = "read"
         /\ fs'[s].upstream = "storage"
<1>1. fs \in [Sessions -> FetchSessions]
  BY Zenon DEF TypeOK
<1> QED
  BY <1>1, ZenonT(30) DEF FetchSessions, SessionPCs, Sources, Alters, KeepsOutcome, KeepsMarks

LEMMA FailSession ==
  ASSUME TypeOK, NEW s \in Sessions, NEW e \in Errors, Fail(s, e)
  PROVE  /\ Alters(s) /\ fs'[s].upstream = fs[s].upstream /\ fs'[s].ready = fs[s].ready
         /\ fs'[s].pc = "release" /\ fs'[s].done = TRUE /\ fs'[s].err = e
         /\ fs'[s].wrote = fs[s].lo
<1>1. fs \in [Sessions -> FetchSessions]
  BY Zenon DEF TypeOK
<1> DEFINE new == [fs[s] EXCEPT !.pc = "release", !.done = TRUE, !.err = e,
                                !.wrote = fs[s].lo, !.intact = TRUE]
<1>2. fs' = [fs EXCEPT ![s] = new]
  BY <1>1, Zenon DEF Fail
<1>3. fs[s] \in FetchSessions /\ fs[s].lo \in 0..Size
  BY SessionTypes, Zenon
<1>4. /\ new \in FetchSessions /\ new.geo = fs[s].geo /\ new.lo = fs[s].lo /\ new.hi = fs[s].hi
      /\ new.upstream = fs[s].upstream /\ new.ready = fs[s].ready
      /\ new.pc = "release" /\ new.done = TRUE /\ new.err = e /\ new.wrote = fs[s].lo
  BY <1>3, ZenonT(60) DEF FetchSessions, SessionPCs
<1> HIDE DEF new
<1> QED
  BY <1>1, <1>2, <1>4, Zenon DEF Alters

LEMMA DoneSession ==
  ASSUME TypeOK, NEW s \in Sessions, SetDone(s)
  PROVE  /\ Alters(s) /\ fs'[s].pc = "release" /\ fs'[s].done = TRUE /\ fs'[s].err = fs[s].err
         /\ fs'[s].ready = fs[s].hi /\ fs'[s].wrote = fs[s].wrote /\ fs'[s].intact = fs[s].intact
         /\ fs'[s].upstream = fs[s].upstream
<1>1. fs \in [Sessions -> FetchSessions]
  BY Zenon DEF TypeOK
<1>2. fs' = [fs EXCEPT ![s].pc = "release", ![s].done = TRUE, ![s].ready = fs[s].hi]
  BY Zenon DEF SetDone
<1> QED
  BY <1>1, <1>2, ZenonT(120) DEF FetchSessions, SessionPCs, Alters

LEMMA ReceiveSession ==
  ASSUME TypeOK, NEW s \in Sessions, NEW v \in {"good", "bad"}, Receive(s, v)
  PROVE  /\ Alters(s) /\ KeepsOutcome(s) /\ fs'[s].pc = "read" /\ fs'[s].upstream = fs[s].upstream
         /\ fs'[s].wrote = fs[s].wrote + 1
         /\ fs'[s].intact = (fs[s].intact /\ v = "good")
         /\ fs'[s].ready = IF fs[s].geo = "chunk" THEN fs[s].wrote + 1 ELSE fs[s].ready
<1>1. fs \in [Sessions -> FetchSessions] /\ fs[s].pc = "read"
  BY Zenon DEF TypeOK, Receive
<1> DEFINE n == fs[s].wrote + 1
           i == fs[s].intact /\ v = "good"
           y == IF fs[s].geo = "chunk" THEN n ELSE fs[s].ready
<1>2. n \in 0..Size /\ i \in BOOLEAN /\ y \in 0..Size
  <2>1. fs[s].wrote < fs[s].hi
    BY Zenon DEF Receive, More
  <2>2. n \in 0..Size
    BY <2>1, SessionRanges, SizeTypes
  <2> QED
    BY <2>2, SessionTypes, Zenon
<1>3. fs' = [fs EXCEPT ![s].wrote = n, ![s].intact = i, ![s].ready = y]
  BY Zenon DEF Receive, Streams
<1> HIDE DEF n, i, y
<1>4. /\ Alters(s) /\ KeepsOutcome(s) /\ fs'[s].pc = "read" /\ fs'[s].upstream = fs[s].upstream
      /\ fs'[s].wrote = n /\ fs'[s].intact = i /\ fs'[s].ready = y
  BY <1>1, <1>2, <1>3, ZenonT(30) DEF FetchSessions, Alters, KeepsOutcome
<1> QED
  BY <1>4, Zenon DEF n, i, y

LEMMA BlankType == Blank \in FetchSessions /\ Blank.pc = "free"
<1>1. 0 \in 0..Size
  BY SizeTypes
<1> QED
  BY <1>1, Zenon DEF Blank, FetchSessions, SessionPCs, Geometries, Sources

LEMMA CollectSessions ==
  ASSUME NEW f \in [Sessions -> FetchSessions], NEW readers, fs' = Collect(f, readers)
  PROVE  /\ fs' \in [Sessions -> FetchSessions]
         /\ \A s \in Sessions :
              \/ fs'[s] = f[s]
              \/ fs'[s] = Blank /\ f[s].pc = "over" /\ \A r \in Readers : readers[r].s # s
  BY BlankType, Zenon DEF Collect

(* Only reader r moves. *)
Only(r) == rd' \in [Readers -> Reads] /\ \A q \in Readers \ {r} : rd'[q] = rd[q]

(* Its read stays the same. *)
SameRead(r) ==
  /\ rd'[r].geo = rd[r].geo /\ rd'[r].upstream = rd[r].upstream /\ rd'[r].lo = rd[r].lo
  /\ rd'[r].hi = rd[r].hi /\ rd'[r].unwritten = rd[r].unwritten /\ rd'[r].corrupt = rd[r].corrupt

LEMMA IdleType == Idle \in Reads
<1>1. 0 \in 0..Size /\ 0 \in 0..2
  BY SizeTypes
<1> QED
  BY <1>1, Zenon DEF Idle, Reads, ReaderPCs, Geometries, Sources

(* What a read of these blocks returns without bytes of the build. *)
Corrupt(lo, hi) == {b \in Chunk(lo, hi) : mem[b] = "bad"}
Unwritten(lo, hi) == {b \in Chunk(lo, hi) : mem[b] = "none"}

LEMMA ReturnsRead ==
  ASSUME NEW r, NEW lo, NEW hi, NEW early, Returns(r, lo, hi, early),
         TypeOK, r \in Readers
  PROVE  /\ Only(r) /\ rd'[r].pc = "returned" /\ rd'[r].upstream = "peer"
         /\ rd'[r].corrupt = Corrupt(lo, hi) /\ rd'[r].unwritten = Unwritten(lo, hi)
         /\ \A b \in Corrupt(lo, hi) : b \in early => b \in rd'[r].early
<1> DEFINE bad == Corrupt(lo, hi)
           none == Unwritten(lo, hi)
           e == early \cap bad
           new == [Idle EXCEPT !.pc = "returned", !.early = e, !.corrupt = bad, !.unwritten = none]
<1>1. bad \in SUBSET Blocks /\ none \in SUBSET Blocks /\ e \in SUBSET Blocks
  BY ChunkBlocks, Zenon DEF Corrupt, Unwritten
<1>2. rd' = [rd EXCEPT ![r] = new] /\ rd \in [Readers -> Reads]
  BY Zenon DEF Returns, TypeOK, Corrupt, Unwritten
<1> HIDE DEF bad, none, e
<1>3. /\ new \in Reads /\ new.pc = "returned" /\ new.early = e /\ new.upstream = "peer"
      /\ new.corrupt = bad /\ new.unwritten = none
  BY <1>1, IdleType, ZenonT(30) DEF Idle, Reads, ReaderPCs
<1> HIDE DEF new
<1>4. Only(r) /\ rd'[r] = new
  BY <1>2, <1>3, Zenon DEF Only
<1>5. /\ Only(r) /\ rd'[r].pc = "returned" /\ rd'[r].upstream = "peer"
      /\ rd'[r].corrupt = bad /\ rd'[r].unwritten = none /\ rd'[r].early = e
  BY <1>3, <1>4, Zenon
<1> QED
  BY <1>5, Zenon DEF bad, none, e

LEMMA StartsRead ==
  ASSUME NEW r, NEW geo, NEW up, NEW try, NEW lo, NEW hi, NEW c, Slice(r, geo, up, try, lo, hi, c),
         TypeOK, r \in Readers, geo \in Geometries, up \in Sources, try \in 0..2, lo \in 0..Size,
         hi \in 0..Size, c \in BOOLEAN, ~IsCached(lo, hi)
  PROVE  /\ Only(r) /\ rd'[r].pc = "lookup" /\ rd'[r].geo = geo /\ rd'[r].upstream = up
         /\ rd'[r].lo = lo /\ rd'[r].hi = hi /\ rd'[r].cur = lo
         /\ rd'[r].unwritten = {} /\ rd'[r].corrupt = {}
<1> DEFINE new == [Idle EXCEPT !.pc = "lookup", !.geo = geo, !.upstream = up, !.try = try,
                               !.lo = lo, !.hi = hi, !.cur = lo, !.cancelled = c]
<1>1. rd' = [rd EXCEPT ![r] = new] /\ rd \in [Readers -> Reads]
  BY Zenon DEF Slice, TypeOK, IsCached
<1>2. /\ new \in Reads /\ new.pc = "lookup" /\ new.geo = geo /\ new.upstream = up
      /\ new.lo = lo /\ new.hi = hi /\ new.cur = lo /\ new.unwritten = {} /\ new.corrupt = {}
  BY IdleType, ZenonT(30) DEF Idle, Reads, ReaderPCs
<1> HIDE DEF new
<1>3. Only(r) /\ rd'[r] = new
  BY <1>1, <1>2, Zenon DEF Only
<1> QED
  BY <1>2, <1>3, Zenon

LEMMA GoesRead ==
  ASSUME TypeOK, NEW r \in Readers, NEW l \in ReaderPCs, rd' = [rd EXCEPT ![r].pc = l]
  PROVE  /\ Only(r) /\ SameRead(r) /\ rd'[r].pc = l
         /\ rd'[r].cur = rd[r].cur /\ rd'[r].s = rd[r].s /\ rd'[r].early = rd[r].early
<1>1. rd \in [Readers -> Reads]
  BY Zenon DEF TypeOK
<1> QED
  BY <1>1, ZenonT(30) DEF Reads, Only, SameRead

LEMMA JoinsRead ==
  ASSUME TypeOK, NEW r \in Readers, NEW s \in Sessions,
         rd' = [rd EXCEPT ![r].pc = "wait", ![r].s = s]
  PROVE  /\ Only(r) /\ SameRead(r) /\ rd'[r].pc = "wait"
         /\ rd'[r].cur = rd[r].cur /\ rd'[r].s = s /\ rd'[r].early = rd[r].early
<1>1. rd \in [Readers -> Reads]
  BY Zenon DEF TypeOK
<1> QED
  BY <1>1, ZenonT(120) DEF Reads, ReaderPCs, Only, SameRead

LEMMA ContinueRead ==
  ASSUME TypeOK, NEW r \in Readers, NEW b \in 0..Size, NEW early \in SUBSET Blocks,
         Continue(r, b, early)
  PROVE  /\ Only(r) /\ rd'[r].lo = rd[r].lo /\ rd'[r].hi = rd[r].hi
         /\ rd'[r].cur = b /\ rd'[r].early = early
         /\ \/ /\ b >= rd[r].hi /\ rd'[r].pc = "slice" /\ rd'[r].upstream = "peer"
               /\ rd'[r].unwritten = {} /\ rd'[r].corrupt = {}
            \/ ~(b >= rd[r].hi) /\ rd'[r].pc = "lookup" /\ SameRead(r)
            \/ /\ ~(b >= rd[r].hi) /\ b # ChunkHi(rd[r].geo, rd[r].cur)
               /\ rd'[r].pc = "wait" /\ rd'[r].s = rd[r].s /\ SameRead(r)
<1> DEFINE hi == ChunkHi(rd[r].geo, rd[r].cur)
           one == [Idle EXCEPT !.pc = "slice", !.lo = rd[r].lo, !.hi = rd[r].hi, !.cur = b,
                               !.early = early]
           two == [rd[r] EXCEPT !.pc = "lookup", !.cur = b, !.s = None, !.early = early]
           three == [rd[r] EXCEPT !.pc = "wait", !.cur = b, !.early = early]
           new == IF b >= rd[r].hi THEN one ELSE IF b = hi THEN two ELSE three
<1>1. rd' = [rd EXCEPT ![r] = new] /\ rd \in [Readers -> Reads]
  BY Zenon DEF Continue, TypeOK
<1>2. rd[r] \in Reads /\ rd[r].lo \in 0..Size /\ rd[r].hi \in 0..Size
  BY ReaderTypes, Zenon
<1>3. /\ one \in Reads /\ one.pc = "slice" /\ one.lo = rd[r].lo /\ one.hi = rd[r].hi
      /\ one.cur = b /\ one.early = early /\ one.upstream = "peer"
      /\ one.unwritten = {} /\ one.corrupt = {}
  BY <1>2, IdleType, ZenonT(30) DEF Idle, Reads, ReaderPCs
<1>4. /\ two \in Reads /\ two.pc = "lookup" /\ two.lo = rd[r].lo /\ two.hi = rd[r].hi
      /\ two.cur = b /\ two.early = early /\ two.geo = rd[r].geo /\ two.upstream = rd[r].upstream
      /\ two.unwritten = rd[r].unwritten /\ two.corrupt = rd[r].corrupt
  BY <1>2, ZenonT(30) DEF Reads, ReaderPCs
<1>5. /\ three \in Reads /\ three.pc = "wait" /\ three.lo = rd[r].lo /\ three.hi = rd[r].hi
      /\ three.cur = b /\ three.early = early /\ three.geo = rd[r].geo /\ three.s = rd[r].s
      /\ three.upstream = rd[r].upstream
      /\ three.unwritten = rd[r].unwritten /\ three.corrupt = rd[r].corrupt
  BY <1>2, ZenonT(30) DEF Reads, ReaderPCs
<1> HIDE DEF one, two, three
<1>6. Only(r) /\ rd'[r] = new
  BY <1>1, <1>3, <1>4, <1>5, Zenon DEF Only
<1>7. CASE b >= rd[r].hi
  BY <1>3, <1>6, <1>7, Zenon
<1>8. CASE ~(b >= rd[r].hi) /\ b = hi
  BY <1>4, <1>6, <1>8, Zenon DEF SameRead
<1>9. CASE ~(b >= rd[r].hi) /\ b # hi
  BY <1>5, <1>6, <1>9, Zenon DEF SameRead
<1> QED
  BY <1>7, <1>8, <1>9, Zenon

LEMMA FailsRead ==
  ASSUME TypeOK, NEW r \in Readers, NEW e \in Errors \cup {None}, Fails(r, e)
  PROVE  /\ Only(r) /\ rd'[r].upstream = "peer" /\ rd'[r].unwritten = {} /\ rd'[r].corrupt = {}
         /\ \/ rd'[r].pc = "recover" /\ rd'[r].lo = rd[r].lo /\ rd'[r].hi = rd[r].hi
            \/ rd'[r].pc = "returned"
<1> DEFINE again == e = "transitioned" /\ rd[r].try = 1
           one == [Idle EXCEPT !.pc = "recover", !.try = 1, !.lo = rd[r].lo, !.hi = rd[r].hi,
                               !.cancelled = rd[r].cancelled]
           two == [Idle EXCEPT !.pc = "returned", !.err = e]
<1>1. rd' = [rd EXCEPT ![r] = IF again THEN one ELSE two] /\ rd \in [Readers -> Reads]
  BY Zenon DEF Fails, TypeOK
<1>2. 1 \in 0..2
  OBVIOUS
<1>3. /\ one \in Reads /\ one.pc = "recover" /\ one.lo = rd[r].lo /\ one.hi = rd[r].hi
      /\ one.upstream = "peer" /\ one.unwritten = {} /\ one.corrupt = {}
  BY <1>2, ReaderTypes, IdleType, ZenonT(30) DEF Idle, Reads, ReaderPCs
<1>4. /\ two \in Reads /\ two.pc = "returned"
      /\ two.upstream = "peer" /\ two.unwritten = {} /\ two.corrupt = {}
  BY IdleType, ZenonT(30) DEF Idle, Reads, ReaderPCs
<1> HIDE DEF one, two
<1>5. Only(r) /\ rd'[r] = IF again THEN one ELSE two
  BY <1>1, <1>3, <1>4, Zenon DEF Only
<1> QED
  BY <1>3, <1>4, <1>5, Zenon

LEMMA BroadcastRead ==
  ASSUME NEW readers \in [Readers -> Reads], NEW s, rd' = Broadcast(s, readers)
  PROVE  /\ rd' \in [Readers -> Reads]
         /\ \A q \in Readers :
              \/ rd'[q] = readers[q] /\ ~(readers[q].s = s /\ readers[q].pc = "sleep")
              \/ /\ readers[q].s = s /\ readers[q].pc = "sleep"
                 /\ rd'[q] = [readers[q] EXCEPT !.pc = "wait"]
<1>1. ASSUME NEW q \in Readers PROVE [readers[q] EXCEPT !.pc = "wait"] \in Reads
  <2>1. readers[q] \in Reads
    BY Zenon
  <2> QED
    BY <2>1, ZenonT(30) DEF Reads, ReaderPCs
<1> QED
  BY <1>1, Zenon DEF Broadcast

LEMMA WokenRead ==
  ASSUME NEW x \in Reads
  PROVE  /\ [x EXCEPT !.pc = "wait"].geo = x.geo /\ [x EXCEPT !.pc = "wait"].upstream = x.upstream
         /\ [x EXCEPT !.pc = "wait"].lo = x.lo /\ [x EXCEPT !.pc = "wait"].hi = x.hi
         /\ [x EXCEPT !.pc = "wait"].cur = x.cur /\ [x EXCEPT !.pc = "wait"].s = x.s
         /\ [x EXCEPT !.pc = "wait"].early = x.early /\ [x EXCEPT !.pc = "wait"].unwritten = x.unwritten
         /\ [x EXCEPT !.pc = "wait"].corrupt = x.corrupt
         /\ [x EXCEPT !.pc = "wait"].pc = "wait"
  BY ZenonT(30) DEF Reads

(* A broadcast of session s wakes its readers. *)
LEMMA BroadcastWakes ==
  ASSUME TypeOK, NEW s, rd' = Broadcast(s, rd), NEW q \in Readers
  PROVE  Stays(q, s) /\ ~(rd'[q].s = s /\ rd'[q].pc = "sleep")
<1>1. rd \in [Readers -> Reads]
  BY Zenon DEF TypeOK
<1>2. rd' \in [Readers -> Reads]
  BY <1>1, BroadcastRead, Zenon
<1>3. CASE rd'[q] = rd[q] /\ ~(rd[q].s = s /\ rd[q].pc = "sleep")
  BY <1>2, <1>3, Zenon DEF Stays
<1>4. CASE rd[q].s = s /\ rd[q].pc = "sleep" /\ rd'[q] = [rd[q] EXCEPT !.pc = "wait"]
  <2>1. rd[q] \in Reads
    BY <1>1, Zenon
  <2>2. /\ rd'[q].geo = rd[q].geo /\ rd'[q].upstream = rd[q].upstream /\ rd'[q].lo = rd[q].lo
        /\ rd'[q].hi = rd[q].hi /\ rd'[q].cur = rd[q].cur /\ rd'[q].s = rd[q].s
        /\ rd'[q].early = rd[q].early /\ rd'[q].unwritten = rd[q].unwritten
        /\ rd'[q].corrupt = rd[q].corrupt /\ rd'[q].pc = "wait"
    BY <1>4, <2>1, WokenRead, ZenonT(30)
  <2> QED
    BY <1>2, <1>4, <2>2, Zenon DEF Stays
<1>5. \/ rd'[q] = rd[q] /\ ~(rd[q].s = s /\ rd[q].pc = "sleep")
      \/ rd[q].s = s /\ rd[q].pc = "sleep" /\ rd'[q] = [rd[q] EXCEPT !.pc = "wait"]
  BY <1>1, BroadcastRead, Zenon
<1> QED
  BY <1>3, <1>4, <1>5, Zenon

(* A cancelled reader is woken, with the others of its session. *)
LEMMA CancelWakes ==
  ASSUME TypeOK, NEW r \in Readers, Cancel(r), NEW q \in Readers
  PROVE  Stays(q, rd[r].s)
<1> DEFINE readers == [rd EXCEPT ![r].cancelled = TRUE]
           s == rd[r].s
<1>1. rd \in [Readers -> Reads] /\ rd' = Broadcast(s, readers)
  BY Zenon DEF TypeOK, Cancel
<1>2. /\ readers \in [Readers -> Reads]
      /\ readers[q].geo = rd[q].geo /\ readers[q].upstream = rd[q].upstream /\ readers[q].lo = rd[q].lo
      /\ readers[q].hi = rd[q].hi /\ readers[q].cur = rd[q].cur /\ readers[q].s = rd[q].s
      /\ readers[q].early = rd[q].early /\ readers[q].unwritten = rd[q].unwritten
      /\ readers[q].corrupt = rd[q].corrupt /\ readers[q].pc = rd[q].pc
  BY <1>1, ZenonT(120) DEF Reads
<1> HIDE DEF readers, s
<1>3. rd' \in [Readers -> Reads]
  BY <1>1, <1>2, BroadcastRead, Zenon
<1>4. CASE rd'[q] = readers[q]
  BY <1>2, <1>3, <1>4, Zenon DEF Stays
<1>5. CASE readers[q].s = s /\ readers[q].pc = "sleep" /\ rd'[q] = [readers[q] EXCEPT !.pc = "wait"]
  <2>1. readers[q] \in Reads
    BY <1>2, Zenon
  <2>2. /\ rd'[q].geo = readers[q].geo /\ rd'[q].upstream = readers[q].upstream /\ rd'[q].lo = readers[q].lo
        /\ rd'[q].hi = readers[q].hi /\ rd'[q].cur = readers[q].cur /\ rd'[q].s = readers[q].s
        /\ rd'[q].early = readers[q].early /\ rd'[q].unwritten = readers[q].unwritten
        /\ rd'[q].corrupt = readers[q].corrupt /\ rd'[q].pc = "wait"
    BY <1>5, <2>1, WokenRead, ZenonT(120)
  <2> QED
    BY <1>2, <1>3, <1>5, <2>2, Zenon DEF Stays, s
<1>6. \/ rd'[q] = readers[q]
      \/ readers[q].s = s /\ readers[q].pc = "sleep" /\ rd'[q] = [readers[q] EXCEPT !.pc = "wait"]
  BY <1>1, <1>2, BroadcastRead, Zenon
<1> QED
  BY <1>4, <1>5, <1>6, Zenon

(***************************************************************************)
(* Types and wake-ups.                                                     *)
(***************************************************************************)

(* A waiting reader is with a session of its chunk, and sleeps only while   *)
(* it has something to wait for.                                            *)
ReaderShape(r) ==
  /\ rd[r].pc \in Reading => rd[r].lo <= rd[r].cur /\ rd[r].cur < rd[r].hi
  /\ rd[r].pc = "slice" => rd[r].hi <= rd[r].cur
  /\ rd[r].pc = "recover" => rd[r].lo < rd[r].hi
  /\ rd[r].pc \in Waiting =>
       /\ rd[r].s \in Sessions /\ fs[rd[r].s].pc # "free"
       /\ fs[rd[r].s].lo <= ChunkLo(rd[r].geo, rd[r].cur)
       /\ fs[rd[r].s].hi >= ChunkHi(rd[r].geo, rd[r].cur)
  /\ rd[r].pc \in {"enqueue", "sleep"} => ~fs[rd[r].s].done /\ rd[r].cur >= fs[rd[r].s].ready

Shape == TypeOK /\ \A r \in Readers : ReaderShape(r)

(* What a reader that waits on session s needs of a step. *)
KeepsWaiters(q, s) ==
  /\ fs'[s].pc # "free" /\ fs'[s].lo = fs[s].lo /\ fs'[s].hi = fs[s].hi
  /\ rd'[q].pc \in {"enqueue", "sleep"} => fs'[s].done = fs[s].done /\ fs'[s].ready = fs[s].ready

LEMMA KeptShape ==
  ASSUME NEW q \in Readers, ReaderShape(q), NEW s, Stays(q, s),
         rd[q].pc \in Waiting => KeepsWaiters(q, rd[q].s)
  PROVE  ReaderShape(q)'
<1> DEFINE z == rd[q].s
<1>1. /\ rd'[q].geo = rd[q].geo /\ rd'[q].lo = rd[q].lo /\ rd'[q].hi = rd[q].hi
      /\ rd'[q].cur = rd[q].cur /\ rd'[q].s = z
      /\ rd'[q].pc = rd[q].pc \/ (rd[q].pc = "sleep" /\ rd'[q].pc = "wait")
  BY Zenon DEF Stays
<1>2. /\ rd'[q].pc \in Reading => rd[q].pc \in Reading
      /\ rd'[q].pc \in Waiting => rd[q].pc \in Waiting
      /\ rd'[q].pc \in {"slice", "recover", "enqueue", "sleep"} => rd'[q].pc = rd[q].pc
  BY <1>1, Zenon DEF Reading, Waiting
<1>3. /\ rd'[q].pc \in Reading => rd'[q].lo <= rd'[q].cur /\ rd'[q].cur < rd'[q].hi
      /\ rd'[q].pc = "slice" => rd'[q].hi <= rd'[q].cur
      /\ rd'[q].pc = "recover" => rd'[q].lo < rd'[q].hi
  BY <1>1, <1>2, Zenon DEF ReaderShape
<1>4. rd'[q].pc \in Waiting =>
       /\ z \in Sessions /\ fs'[z].pc # "free"
       /\ fs'[z].lo <= ChunkLo(rd'[q].geo, rd'[q].cur)
       /\ fs'[z].hi >= ChunkHi(rd'[q].geo, rd'[q].cur)
  BY <1>1, <1>2, Zenon DEF ReaderShape, KeepsWaiters
<1>5. rd'[q].pc \in {"enqueue", "sleep"} => ~fs'[z].done /\ rd'[q].cur >= fs'[z].ready
  <2>1. rd'[q].pc \in {"enqueue", "sleep"} => rd[q].pc \in Waiting
    BY <1>2, Zenon DEF Waiting
  <2> QED
    BY <1>1, <1>2, <2>1, Zenon DEF ReaderShape, KeepsWaiters
<1> HIDE DEF z
<1> QED
  BY <1>1, <1>3, <1>4, <1>5, Zenon DEF ReaderShape

LEMMA StaysPut ==
  ASSUME TypeOK, NEW q \in Readers, rd'[q] = rd[q], NEW s
  PROVE  Stays(q, s)
  BY ReaderTypes, Zenon DEF Stays

(* A step of reader r that leaves the sessions with waiting readers alone. *)
LEMMA OthersShape ==
  ASSUME Shape, NEW r \in Readers, Only(r),
         \A q \in Readers \ {r} : rd[q].pc \in Waiting => fs'[rd[q].s] = fs[rd[q].s]
  PROVE  \A q \in Readers \ {r} : ReaderShape(q)'
<1> SUFFICES ASSUME NEW q \in Readers \ {r} PROVE ReaderShape(q)'
  BY Zenon
<1>1. ReaderShape(q) /\ Stays(q, None)
  BY StaysPut, Zenon DEF Shape, Only
<1>2. rd[q].pc \in Waiting => KeepsWaiters(q, rd[q].s)
  BY <1>1, Zenon DEF KeepsWaiters, ReaderShape
<1> QED
  BY <1>1, <1>2, KeptShape, Zenon

(* A step of session s that changes nothing its readers wait for. *)
LEMMA QuietShape ==
  ASSUME Shape, NEW s \in Sessions, Alters(s), KeepsOutcome(s), fs'[s].ready = fs[s].ready,
         fs'[s].pc # "free", UNCHANGED rd
  PROVE  \A q \in Readers : ReaderShape(q)'
<1> SUFFICES ASSUME NEW q \in Readers PROVE ReaderShape(q)'
  BY Zenon
<1>1. ReaderShape(q) /\ Stays(q, s)
  BY StaysPut, Zenon DEF Shape
<1>2. rd[q].pc \in Waiting => KeepsWaiters(q, rd[q].s)
  BY <1>1, Zenon DEF KeepsWaiters, ReaderShape, Alters, KeepsOutcome
<1> QED
  BY <1>1, <1>2, KeptShape, Zenon

(* A step of session s, under its mutex, that ends with a broadcast. *)
LEMMA WakeShape ==
  ASSUME Shape, NEW s \in Sessions, Alters(s), fs'[s].pc # "free",
         MutexFree(s), rd' = Broadcast(s, rd)
  PROVE  \A q \in Readers : ReaderShape(q)'
<1> SUFFICES ASSUME NEW q \in Readers PROVE ReaderShape(q)'
  BY Zenon
<1>1. ReaderShape(q) /\ Stays(q, s) /\ ~(rd'[q].s = s /\ rd'[q].pc = "sleep")
  BY BroadcastWakes, Zenon DEF Shape
<1>2. CASE rd[q].s = s
  <2>1. rd[q].pc # "enqueue"
    BY <1>2, Zenon DEF MutexFree
  <2>2. rd'[q].pc \notin {"enqueue", "sleep"}
    BY <1>1, <1>2, <2>1, Zenon DEF Stays
  <2>3. rd[q].pc \in Waiting => KeepsWaiters(q, rd[q].s)
    BY <1>2, <2>2, Zenon DEF KeepsWaiters, Alters
  <2> QED
    BY <1>1, <2>3, KeptShape, Zenon
<1>3. CASE rd[q].s # s
  <2>1. rd[q].pc \in Waiting => KeepsWaiters(q, rd[q].s)
    BY <1>1, <1>3, Zenon DEF KeepsWaiters, ReaderShape, Alters
  <2> QED
    BY <1>1, <2>1, KeptShape, Zenon
<1> QED
  BY <1>2, <1>3, Zenon

(* A session is dropped only without readers. *)
Spares == /\ fs' \in [Sessions -> FetchSessions]
          /\ \A z \in Sessions : fs'[z] = fs[z] \/ \A q \in Readers : rd'[q].s # z

LEMMA SparesUnchanged ==
  ASSUME TypeOK, UNCHANGED fs \/ fs' = Collect(fs, rd')
  PROVE  Spares
<1>1. fs \in [Sessions -> FetchSessions]
  BY Zenon DEF TypeOK
<1>2. CASE UNCHANGED fs
  BY <1>1, <1>2, Zenon DEF Spares
<1>3. CASE fs' = Collect(fs, rd')
  BY <1>1, <1>3, CollectSessions, ZenonT(30) DEF Spares
<1> QED
  BY <1>2, <1>3, Zenon

LEMMA SparesOthers ==
  ASSUME Shape, NEW r \in Readers, Only(r), Spares
  PROVE  \A q \in Readers \ {r} : ReaderShape(q)'
<1>1. ASSUME NEW q \in Readers \ {r}, rd[q].pc \in Waiting PROVE fs'[rd[q].s] = fs[rd[q].s]
  <2>1. rd[q].s \in Sessions /\ rd'[q].s = rd[q].s
    BY <1>1, Zenon DEF Shape, ReaderShape, Only
  <2> QED
    BY <2>1, Zenon DEF Spares
<1> QED
  BY <1>1, OthersShape, Zenon

LEMMA CurBlock ==
  ASSUME Shape, NEW r \in Readers, rd[r].pc \in Reading
  PROVE  /\ rd[r].cur \in Blocks /\ rd[r].geo \in Geometries
         /\ rd[r].cur \in Nat /\ rd[r].lo \in Nat /\ rd[r].hi \in Nat
         /\ rd[r].lo <= rd[r].cur /\ rd[r].cur < rd[r].hi /\ rd[r].hi <= Size
<1>1. rd[r].lo <= rd[r].cur /\ rd[r].cur < rd[r].hi /\ TypeOK
  BY Zenon DEF Shape, ReaderShape
<1>2. rd[r].cur \in Nat /\ rd[r].lo \in Nat /\ rd[r].hi \in Nat /\ rd[r].hi <= Size
  BY <1>1, ReaderRanges, Zenon
<1>3. rd[r].cur < Size
  BY <1>1, <1>2, SizeTypes
<1> QED
  BY <1>1, <1>2, <1>3, BlockTypes, ReaderTypes, Zenon

LEMMA ContinueShape ==
  ASSUME Shape, NEW r \in Readers, rd[r].pc \in Reading,
         NEW b \in Nat, rd[r].cur < b, b <= ChunkHi(rd[r].geo, rd[r].cur),
         NEW early \in SUBSET Blocks, Continue(r, b, early), Spares,
         b # ChunkHi(rd[r].geo, rd[r].cur) => rd[r].pc \in Waiting
  PROVE  Only(r) /\ ReaderShape(r)'
<1> DEFINE c == rd[r].cur
           k == rd[r].geo
           z == rd[r].s
<1>1. /\ c \in Blocks /\ k \in Geometries /\ c \in Nat /\ rd[r].lo \in Nat /\ rd[r].hi \in Nat
      /\ rd[r].lo <= c /\ c < b /\ rd[r].hi <= Size
  BY CurBlock, Zenon
<1>2. ChunkLo(k, c) \in Nat /\ ChunkLo(k, c) <= c /\ ChunkHi(k, c) \in Nat /\ ChunkHi(k, c) <= Size
  BY <1>1, ChunkBounds, Zenon
<1>3. b \in 0..Size /\ rd[r].lo <= b /\ ChunkLo(k, c) <= b
  BY <1>1, <1>2, SizeTypes
<1>4. /\ Only(r) /\ rd'[r].cur = b
      /\ \/ b >= rd[r].hi /\ rd'[r].pc = "slice"
         \/ ~(b >= rd[r].hi) /\ rd'[r].pc = "lookup"
         \/ /\ ~(b >= rd[r].hi) /\ b # ChunkHi(k, c) /\ rd'[r].pc = "wait"
            /\ rd'[r].s = z /\ rd'[r].geo = k
  BY <1>3, ContinueRead, Zenon DEF Shape, SameRead
<1>5. rd'[r].lo = rd[r].lo /\ rd'[r].hi = rd[r].hi
  BY <1>3, ContinueRead, Zenon DEF Shape
<1>6. CASE b >= rd[r].hi /\ rd'[r].pc = "slice"
  <2>1. rd[r].hi <= b
    BY <1>1, <1>6
  <2> QED
    BY <1>4, <1>5, <1>6, <2>1, Zenon DEF ReaderShape, Reading, Waiting
<1>7. CASE ~(b >= rd[r].hi) /\ rd'[r].pc = "lookup"
  <2>1. b < rd[r].hi
    BY <1>1, <1>7
  <2> QED
    BY <1>3, <1>4, <1>5, <1>7, <2>1, Zenon DEF ReaderShape, Reading, Waiting
<1>8. CASE /\ ~(b >= rd[r].hi) /\ b # ChunkHi(k, c) /\ rd'[r].pc = "wait"
           /\ rd'[r].s = z /\ rd'[r].geo = k
  <2>1. b < rd[r].hi /\ b < ChunkHi(k, c) /\ b < Size
    BY <1>1, <1>2, <1>8, SizeTypes
  <2>2. ChunkLo(k, b) = ChunkLo(k, c) /\ ChunkHi(k, b) = ChunkHi(k, c)
    BY <1>1, <1>3, <2>1, SameChunk, BlockTypes, Zenon
  <2>3. /\ z \in Sessions /\ fs[z].pc # "free"
        /\ fs[z].lo <= ChunkLo(k, c) /\ fs[z].hi >= ChunkHi(k, c)
    BY <1>8, Zenon DEF Shape, ReaderShape
  <2>4. fs'[z] = fs[z]
    BY <1>8, <2>3, Zenon DEF Spares
  <2> HIDE DEF z, k, c
  <2> QED
    BY <1>3, <1>4, <1>5, <1>8, <2>1, <2>2, <2>3, <2>4, Zenon DEF ReaderShape, Reading, Waiting
<1> QED
  BY <1>4, <1>6, <1>7, <1>8, Zenon

LEMMA FailsShape ==
  ASSUME Shape, NEW r \in Readers, rd[r].pc \in Reading \cup {"recover"},
         NEW e \in Errors \cup {None}, Fails(r, e)
  PROVE  Only(r) /\ ReaderShape(r)'
<1>1. rd[r].lo < rd[r].hi
  <2>1. CASE rd[r].pc \in Reading
    <3>1. /\ rd[r].cur \in Nat /\ rd[r].lo \in Nat /\ rd[r].hi \in Nat
          /\ rd[r].lo <= rd[r].cur /\ rd[r].cur < rd[r].hi
      BY <2>1, CurBlock, Zenon
    <3> QED
      BY <3>1
  <2>2. CASE rd[r].pc = "recover"
    BY <2>2, Zenon DEF Shape, ReaderShape
  <2> QED
    BY <2>1, <2>2, Zenon
<1>2. /\ Only(r)
      /\ \/ rd'[r].pc = "recover" /\ rd'[r].lo = rd[r].lo /\ rd'[r].hi = rd[r].hi
         \/ rd'[r].pc = "returned"
  BY FailsRead, Zenon DEF Shape
<1> QED
  BY <1>1, <1>2, Zenon DEF ReaderShape, Reading, Waiting

(* A session is created in a free place. *)
Creates(s, geo, up, lo, hi) ==
  fs' = [fs EXCEPT ![s] = [Blank EXCEPT !.pc = "open", !.geo = geo, !.upstream = up,
                                        !.lo = lo, !.hi = hi, !.wrote = lo, !.ready = lo]]

LEMMA CreatesSession ==
  ASSUME TypeOK, NEW s \in Sessions, NEW geo \in Geometries, NEW up \in Sources,
         NEW lo \in 0..Size, NEW hi \in 0..Size, Creates(s, geo, up, lo, hi)
  PROVE  /\ fs' \in [Sessions -> FetchSessions] /\ \A t \in Sessions \ {s} : fs'[t] = fs[t]
         /\ fs'[s].pc = "open" /\ fs'[s].geo = geo /\ fs'[s].upstream = up
         /\ fs'[s].lo = lo /\ fs'[s].hi = hi
         /\ fs'[s].wrote = lo /\ fs'[s].ready = lo /\ fs'[s].done = FALSE /\ fs'[s].err = None
<1> DEFINE new == [Blank EXCEPT !.pc = "open", !.geo = geo, !.upstream = up, !.lo = lo, !.hi = hi,
                                !.wrote = lo, !.ready = lo]
<1>1. fs' = [fs EXCEPT ![s] = new] /\ fs \in [Sessions -> FetchSessions]
  BY Zenon DEF Creates, TypeOK
<1>2. /\ new \in FetchSessions /\ new.pc = "open" /\ new.geo = geo /\ new.upstream = up
      /\ new.lo = lo /\ new.hi = hi
      /\ new.wrote = lo /\ new.ready = lo /\ new.done = FALSE /\ new.err = None
  BY BlankType, ZenonT(30) DEF Blank, FetchSessions, SessionPCs
<1> HIDE DEF new
<1> QED
  BY <1>1, <1>2, Zenon

LEMMA LookupShape ==
  ASSUME Shape, NEW r \in Readers, Lookup(r)
  PROVE  Shape'
<1> DEFINE c == rd[r].cur
           k == rd[r].geo
           lo == ChunkLo(k, c)
           hi == ChunkHi(k, c)
<1>1. rd[r].pc = "lookup" /\ UNCHANGED <<source, uploaded, mem, cached>>
  BY Zenon DEF Lookup
<1>2. /\ c \in Blocks /\ k \in Geometries /\ c \in Nat /\ rd[r].lo <= c /\ c < rd[r].hi
  BY <1>1, CurBlock, Zenon DEF Reading
<1>3. /\ lo \in Nat /\ lo <= c /\ hi \in Nat /\ c < hi /\ hi <= Size
  BY <1>2, ChunkBounds, Zenon
<1>4. lo \in 0..Size /\ hi \in 0..Size /\ lo <= lo /\ hi >= hi
  BY <1>2, <1>3, SizeTypes
<1>s. shared' \subseteq Blocks
  <2>1. shared \subseteq Blocks /\ Overlap(k, rd[r].upstream, lo, hi) \subseteq Blocks
    BY ChunkBlocks, Zenon DEF Shape, TypeOK, Overlap
  <2> QED
    BY <2>1, Zenon DEF Lookup
<1>t. ASSUME rd' \in [Readers -> Reads], fs' \in [Sessions -> FetchSessions] PROVE TypeOK'
  BY <1>1, <1>s, <1>t, Zenon DEF Shape, TypeOK
<1>5. ASSUME NEW s \in Sessions, rd' = [rd EXCEPT ![r].pc = "wait", ![r].s = s],
             fs'[s].pc # "free", fs'[s].lo <= lo, fs'[s].hi >= hi
      PROVE  Only(r) /\ ReaderShape(r)'
  <2>1. /\ Only(r) /\ SameRead(r) /\ rd'[r].pc = "wait" /\ rd'[r].cur = c /\ rd'[r].s = s
    BY <1>5, JoinsRead, Zenon DEF Shape
  <2>2. rd'[r].geo = k /\ rd'[r].lo = rd[r].lo /\ rd'[r].hi = rd[r].hi
    BY <2>1, Zenon DEF SameRead
  <2>3. rd'[r].pc \notin {"slice", "recover", "enqueue", "sleep"}
    BY <2>1, Zenon
  <2>4. ChunkLo(rd'[r].geo, rd'[r].cur) = lo /\ ChunkHi(rd'[r].geo, rd'[r].cur) = hi
    BY <2>1, <2>2, Zenon
  <2> HIDE DEF c, k, lo, hi
  <2> QED
    BY <1>2, <1>5, <2>1, <2>2, <2>3, <2>4, Zenon DEF ReaderShape
<1>6. CASE UNCHANGED fs /\ \E s \in Listed : Covers(s, lo, hi) /\ rd' = [rd EXCEPT ![r].pc = "wait", ![r].s = s]
  <2>1. PICK s \in Listed : Covers(s, lo, hi) /\ rd' = [rd EXCEPT ![r].pc = "wait", ![r].s = s]
    BY <1>6, Zenon
  <2>2. s \in Sessions /\ fs'[s].pc # "free" /\ fs'[s].lo <= lo /\ fs'[s].hi >= hi
    BY <1>6, <2>1, Zenon DEF Listed, Covers
  <2>3. Only(r) /\ ReaderShape(r)' /\ Spares
    BY <1>5, <1>6, <2>1, <2>2, SparesUnchanged, Zenon DEF Shape
  <2> QED
    BY <1>t, <1>6, <2>3, SparesOthers, Zenon DEF Shape, Only, Spares
<1>7. CASE UNCHANGED fs /\ Continue(r, hi, rd[r].early)
  <2>1. Only(r) /\ ReaderShape(r)' /\ Spares
    <3>1. rd[r].early \in SUBSET Blocks /\ rd[r].pc \in Reading /\ Spares
      BY <1>1, <1>7, SparesUnchanged, ReaderTypes, Zenon DEF Shape, Reading
    <3>2. hi <= hi
      BY <1>3
    <3> QED
      BY <1>3, <1>7, <3>1, <3>2, ContinueShape, Zenon
  <2> QED
    BY <1>t, <2>1, SparesOthers, Zenon DEF Shape, Only, Spares
<1>8. CASE \E s \in Sessions : /\ fs[s].pc = "free" /\ Creates(s, k, rd[r].upstream, lo, hi)
                               /\ rd' = [rd EXCEPT ![r].pc = "wait", ![r].s = s]
  <2>1. PICK s \in Sessions : /\ fs[s].pc = "free" /\ Creates(s, k, rd[r].upstream, lo, hi)
                              /\ rd' = [rd EXCEPT ![r].pc = "wait", ![r].s = s]
    BY <1>8, Zenon
  <2>2. /\ fs' \in [Sessions -> FetchSessions] /\ \A t \in Sessions \ {s} : fs'[t] = fs[t]
        /\ fs'[s].pc = "open" /\ fs'[s].lo = lo /\ fs'[s].hi = hi
    <3> HIDE DEF c, k, lo, hi
    <3> QED
      BY <1>2, <1>4, <2>1, CreatesSession, ReaderTypes, ZenonT(60) DEF Shape
  <2>3. Only(r) /\ ReaderShape(r)'
    BY <1>4, <1>5, <2>1, <2>2, Zenon
  <2>4. ASSUME NEW q \in Readers \ {r}, rd[q].pc \in Waiting PROVE fs'[rd[q].s] = fs[rd[q].s]
    BY <2>1, <2>2, <2>4, Zenon DEF Shape, ReaderShape
  <2> QED
    BY <1>t, <2>2, <2>3, <2>4, OthersShape, Zenon DEF Shape, Only
<1> QED
  BY <1>6, <1>7, <1>8, Zenon DEF Lookup, Creates

LEMMA WaitShape ==
  ASSUME Shape, NEW r \in Readers, Wait(r)
  PROVE  Shape'
<1> DEFINE b == rd[r].cur
           f == fs[rd[r].s]
<1>1. rd[r].pc = "wait" /\ UNCHANGED <<source, uploaded, mem, cached, shared>> /\ Spares
  BY SparesUnchanged, Zenon DEF Wait, Shape
<1>2. /\ b \in Blocks /\ rd[r].geo \in Geometries /\ b \in Nat /\ rd[r].pc \in Reading \cap Waiting
  BY <1>1, CurBlock, Zenon DEF Reading, Waiting
<1>3. ChunkHi(rd[r].geo, b) \in Nat /\ b < ChunkHi(rd[r].geo, b)
  BY <1>2, ChunkBounds, Zenon
<1>4. b + 1 \in Nat /\ b < b + 1 /\ b + 1 <= ChunkHi(rd[r].geo, b)
  BY <1>2, <1>3
<1>5. rd[r].s \in Sessions /\ f \in FetchSessions /\ f.err \in Errors \cup {None}
  BY <1>2, SessionTypes, Zenon DEF Shape, ReaderShape
<1>6. rd[r].early \subseteq Blocks
  BY ReaderTypes, Zenon DEF Shape
<1>7. ASSUME NEW early \in SUBSET Blocks, Continue(r, b + 1, early) PROVE Only(r) /\ ReaderShape(r)'
  BY <1>1, <1>2, <1>4, <1>7, ContinueShape, Zenon
<1>8. ASSUME Continue(r, b + 1, rd[r].early \cup
                                {c \in {b} : f.geo = "chunk" /\ ~(f.done /\ f.err = None)})
      PROVE Only(r) /\ ReaderShape(r)'
  BY <1>2, <1>6, <1>7, <1>8, ZenonT(30)
<1>9. ASSUME Continue(r, b + 1, rd[r].early) PROVE Only(r) /\ ReaderShape(r)'
  BY <1>6, <1>7, <1>9, Zenon
<1>10. ASSUME Fails(r, f.err) \/ Fails(r, "cancelled") PROVE Only(r) /\ ReaderShape(r)'
  BY <1>2, <1>5, <1>10, FailsShape, Zenon DEF Errors
<1>11. ASSUME b >= f.ready, ~f.done, rd' = [rd EXCEPT ![r].pc = "enqueue"]
       PROVE Only(r) /\ ReaderShape(r)'
  <2>1. /\ Only(r) /\ SameRead(r) /\ rd'[r].pc = "enqueue" /\ rd'[r].cur = b /\ rd'[r].s = rd[r].s
    BY <1>11, GoesRead, Zenon DEF Shape, ReaderPCs
  <2>2. rd'[r].geo = rd[r].geo /\ rd'[r].lo = rd[r].lo /\ rd'[r].hi = rd[r].hi
    BY <2>1, Zenon DEF SameRead
  <2>3. fs'[rd[r].s] = fs[rd[r].s]
    BY <1>1, <1>5, <2>1, Zenon DEF Spares
  <2>4. /\ rd[r].lo <= b /\ b < rd[r].hi /\ f.pc # "free"
        /\ f.lo <= ChunkLo(rd[r].geo, b) /\ f.hi >= ChunkHi(rd[r].geo, b)
    BY <1>2, Zenon DEF Shape, ReaderShape
  <2>5. rd'[r].pc \notin {"slice", "recover"}
    BY <2>1, Zenon
  <2>6. /\ ChunkLo(rd'[r].geo, rd'[r].cur) = ChunkLo(rd[r].geo, b)
        /\ ChunkHi(rd'[r].geo, rd'[r].cur) = ChunkHi(rd[r].geo, b)
    BY <2>1, <2>2, Zenon
  <2> HIDE DEF b
  <2> QED
    BY <1>5, <1>11, <2>1, <2>2, <2>3, <2>4, <2>5, <2>6, Zenon DEF ReaderShape
<1>12. Only(r) /\ ReaderShape(r)'
  BY <1>8, <1>9, <1>10, <1>11, Zenon DEF Wait
<1>13. TypeOK'
  BY <1>1, <1>12, Zenon DEF Shape, TypeOK, Only, Spares
<1> QED
  BY <1>1, <1>12, <1>13, SparesOthers, Zenon DEF Shape

(* A read that is not in the cache is at its first chunk. *)
LEMMA SliceShape ==
  ASSUME Shape, NEW r \in Readers, NEW geo \in Geometries, NEW up \in Sources, NEW try \in 0..2,
         NEW lo \in 0..Size, NEW hi \in 0..Size, lo < hi, NEW c \in BOOLEAN,
         Slice(r, geo, up, try, lo, hi, c)
  PROVE  Only(r) /\ ReaderShape(r)'
<1>1. CASE IsCached(lo, hi)
  <2>1. Returns(r, lo, hi, {})
    BY <1>1, Zenon DEF Slice, IsCached
  <2>2. {} \in SUBSET Blocks
    BY Zenon
  <2>3. Only(r) /\ rd'[r].pc = "returned"
    BY <2>1, <2>2, ReturnsRead, Zenon DEF Shape
  <2> QED
    BY <2>3, Zenon DEF ReaderShape, Reading, Waiting
<1>2. CASE ~IsCached(lo, hi)
  <2>1. /\ Only(r) /\ rd'[r].pc = "lookup" /\ rd'[r].lo = lo /\ rd'[r].hi = hi /\ rd'[r].cur = lo
    BY <1>2, StartsRead, ZenonT(60) DEF Shape
  <2>2. \A n \in 0..Size : n <= n
    BY SizeTypes
  <2> QED
    BY <2>1, <2>2, Zenon DEF ReaderShape, Reading, Waiting
<1> QED
  BY <1>1, <1>2, Zenon

LEMMA ReaderStepShape ==
  ASSUME Shape, NEW r \in Readers,
         \/ Reader(r) \/ \E geo \in Geometries, lo, hi \in 0..Size : Read(r, geo, lo, hi)
  PROVE  Shape'
<1> DEFINE Good == Only(r) /\ ReaderShape(r)'
<1>1. ASSUME Good, UNCHANGED <<uploaded, mem, cached, fs, shared>>, source' \in Sources PROVE Shape'
  <2>1. Spares
    BY <1>1, SparesUnchanged, Zenon DEF Shape
  <2>2. TypeOK'
    BY <1>1, Zenon DEF Shape, TypeOK, Only
  <2> QED
    BY <1>1, <2>1, <2>2, SparesOthers, Zenon DEF Shape
<1>2. source \in Sources /\ "storage" \in Sources /\ Stored \in Geometries
  BY ChunkAssumption, Zenon DEF Shape, TypeOK, Geometries, Sources
<1>3. ASSUME NEW geo \in Geometries, NEW lo \in 0..Size, NEW hi \in 0..Size, Read(r, geo, lo, hi)
      PROVE  Shape'
  <2>1. lo < hi /\ Slice(r, geo, source, 1, lo, hi, FALSE)
    BY <1>3, Zenon DEF Read
  <2>2. 1 \in 0..2 /\ FALSE \in BOOLEAN
    OBVIOUS
  <2> QED
    BY <1>1, <1>2, <1>3, <2>1, <2>2, SliceShape, Zenon DEF Read
<1>4. CASE Enqueue(r)
  <2>1. /\ Only(r) /\ SameRead(r) /\ rd'[r].pc = "sleep" /\ rd[r].pc = "enqueue"
        /\ rd'[r].cur = rd[r].cur /\ rd'[r].s = rd[r].s /\ UNCHANGED <<source, uploaded, mem, cached, fs, shared>>
    BY <1>4, GoesRead, Zenon DEF Enqueue, Shape, ReaderPCs
  <2>2. rd'[r].geo = rd[r].geo /\ rd'[r].lo = rd[r].lo /\ rd'[r].hi = rd[r].hi
    BY <2>1, Zenon DEF SameRead
  <2>3. ReaderShape(r)
    BY Zenon DEF Shape
  <2>4. ReaderShape(r)'
    BY <2>1, <2>2, <2>3, Zenon DEF ReaderShape, Reading, Waiting
  <2> QED
    BY <1>1, <1>2, <2>1, <2>4, Zenon
<1>5. CASE SliceDirect(r)
  <2>1. Only(r) /\ rd'[r].pc = "returned"
    BY <1>5, ReturnsRead, ReaderTypes, Zenon DEF SliceDirect, Shape
  <2>2. ReaderShape(r)'
    BY <2>1, Zenon DEF ReaderShape, Reading, Waiting
  <2> QED
    BY <1>1, <1>2, <1>5, <2>1, <2>2, Zenon DEF SliceDirect
<1>6. CASE Recover(r)
  <2>1. /\ rd[r].pc = "recover" /\ rd[r].lo < rd[r].hi
        /\ rd[r].lo \in 0..Size /\ rd[r].hi \in 0..Size /\ rd[r].cancelled \in BOOLEAN
    BY <1>6, ReaderTypes, Zenon DEF Recover, Reload, Shape, ReaderShape
  <2>2. CASE /\ source' = "storage"
             /\ Slice(r, Stored, "storage", 2, rd[r].lo, rd[r].hi, rd[r].cancelled)
    <3>1. 2 \in 0..2
      OBVIOUS
    <3> QED
      BY <1>1, <1>2, <1>6, <2>1, <2>2, <3>1, SliceShape, Zenon DEF Recover, Reload
  <2>3. CASE UNCHANGED source /\ Fails(r, "failed")
    BY <1>1, <1>2, <1>6, <2>1, <2>3, FailsShape, Zenon DEF Recover, Reload, Errors
  <2> QED
    BY <1>6, <2>2, <2>3, Zenon DEF Recover, Reload
<1> QED
  BY <1>3, <1>4, <1>5, <1>6, LookupShape, WaitShape, Zenon DEF Reader

LEMMA CancelShape ==
  ASSUME Shape, NEW r \in Readers, Cancel(r)
  PROVE  Shape'
<1>1. UNCHANGED <<source, uploaded, mem, cached, fs, shared>>
  BY Zenon DEF Cancel
<1>2. ASSUME NEW q \in Readers PROVE Stays(q, rd[r].s) /\ ReaderShape(q)'
  <2>1. Stays(q, rd[r].s) /\ ReaderShape(q)
    BY CancelWakes, Zenon DEF Shape
  <2>2. rd[q].pc \in Waiting => KeepsWaiters(q, rd[q].s)
    BY <1>1, <2>1, Zenon DEF KeepsWaiters, ReaderShape
  <2> QED
    BY <2>1, <2>2, KeptShape, Zenon
<1>3. rd' \in [Readers -> Reads]
  <2> DEFINE readers == [rd EXCEPT ![r].cancelled = TRUE]
  <2>1. readers \in [Readers -> Reads]
    BY ZenonT(30) DEF Shape, TypeOK, Reads
  <2>2. rd' = Broadcast(rd[r].s, readers)
    BY Zenon DEF Cancel
  <2> HIDE DEF readers
  <2> QED
    BY <2>1, <2>2, BroadcastRead, Zenon
<1> QED
  BY <1>1, <1>2, <1>3, Zenon DEF Shape, TypeOK

LEMMA FailShape ==
  ASSUME Shape, NEW s \in Sessions, NEW e \in Errors, Fail(s, e)
  PROVE  /\ fs' \in [Sessions -> FetchSessions] /\ rd' \in [Readers -> Reads]
         /\ \A q \in Readers : ReaderShape(q)'
<1>1. Alters(s) /\ fs'[s].pc = "release" /\ TypeOK
  BY FailSession, Zenon DEF Shape
<1>2. MutexFree(s) /\ rd' = Broadcast(s, rd)
  BY Zenon DEF Fail
<1>3. rd' \in [Readers -> Reads]
  BY <1>1, <1>2, BroadcastRead, Zenon DEF TypeOK
<1>4. fs'[s].pc # "free"
  BY <1>1, Zenon
<1> QED
  BY <1>1, <1>2, <1>3, <1>4, WakeShape, Zenon DEF Alters

LEMMA ReceiveShape ==
  ASSUME Shape, NEW s \in Sessions, NEW v \in {"good", "bad"}, Receive(s, v)
  PROVE  Shape'
<1>1. /\ Alters(s) /\ KeepsOutcome(s) /\ fs'[s].pc = "read" /\ TypeOK
      /\ fs'[s].ready = IF fs[s].geo = "chunk" THEN fs[s].wrote + 1 ELSE fs[s].ready
  BY ReceiveSession, Zenon DEF Shape
<1>2. mem' \in [Blocks -> {"none", "good", "bad"}] /\ UNCHANGED <<source, uploaded, cached, shared>>
  BY <1>1, Zenon DEF Receive, TypeOK
<1>3. fs'[s].pc # "free"
  BY <1>1, Zenon
<1>4. CASE fs[s].geo = "chunk"
  <2>1. MutexFree(s) /\ rd' = Broadcast(s, rd)
    BY <1>4, Zenon DEF Receive, Streams
  <2>2. rd' \in [Readers -> Reads]
    BY <1>1, <2>1, BroadcastRead, Zenon DEF TypeOK
  <2>3. \A q \in Readers : ReaderShape(q)'
    BY <1>1, <1>3, <2>1, WakeShape, Zenon
  <2> QED
    BY <1>1, <1>2, <2>2, <2>3, Zenon DEF Shape, TypeOK, Alters
<1>5. CASE fs[s].geo # "chunk"
  <2>1. UNCHANGED rd
    BY <1>5, Zenon DEF Receive, Streams
  <2>2. \A q \in Readers : ReaderShape(q)'
    BY <1>1, <1>3, <1>5, <2>1, QuietShape, Zenon
  <2> QED
    BY <1>1, <1>2, <2>1, <2>2, Zenon DEF Shape, TypeOK, Alters
<1> QED
  BY <1>4, <1>5, Zenon

LEMMA ReleasedSession ==
  ASSUME TypeOK, NEW s \in Sessions, ReleaseSession(s)
  PROVE  /\ fs' \in [Sessions -> FetchSessions]
         /\ \A t \in Sessions :
              \/ fs'[t] = Blank /\ \A q \in Readers : rd[q].s # t
              \/ t # s /\ fs'[t] = fs[t]
              \/ /\ t = s /\ fs'[t].pc = "over" /\ fs'[t].geo = fs[t].geo /\ fs'[t].lo = fs[t].lo
                 /\ fs'[t].hi = fs[t].hi /\ fs'[t].upstream = fs[t].upstream
                 /\ KeepsOutcome(t) /\ KeepsMarks(t)
<1> DEFINE g == [fs EXCEPT ![s].pc = "over"]
<1>1. fs \in [Sessions -> FetchSessions] /\ fs' = Collect(g, rd)
  BY Zenon DEF TypeOK, ReleaseSession
<1>2. /\ g \in [Sessions -> FetchSessions] /\ \A t \in Sessions \ {s} : g[t] = fs[t]
      /\ g[s].pc = "over" /\ g[s].geo = fs[s].geo /\ g[s].lo = fs[s].lo /\ g[s].hi = fs[s].hi
      /\ g[s].wrote = fs[s].wrote /\ g[s].ready = fs[s].ready /\ g[s].intact = fs[s].intact
      /\ g[s].done = fs[s].done /\ g[s].err = fs[s].err /\ g[s].upstream = fs[s].upstream
  BY <1>1, ZenonT(30) DEF FetchSessions, SessionPCs
<1> HIDE DEF g
<1>3. /\ fs' \in [Sessions -> FetchSessions]
      /\ \A t \in Sessions : \/ fs'[t] = g[t]
                             \/ fs'[t] = Blank /\ \A q \in Readers : rd[q].s # t
  BY <1>1, <1>2, BlankType, Zenon DEF Collect
<1> QED
  BY <1>2, <1>3, Zenon DEF KeepsOutcome, KeepsMarks

LEMMA ReleaseShape ==
  ASSUME Shape, NEW s \in Sessions, ReleaseSession(s)
  PROVE  Shape'
<1>1. UNCHANGED <<source, uploaded, mem, cached, rd, shared>> /\ TypeOK
  BY Zenon DEF ReleaseSession, Shape
<1>2. ASSUME NEW q \in Readers PROVE ReaderShape(q)'
  <2>1. ReaderShape(q) /\ Stays(q, s)
    BY <1>1, StaysPut, Zenon DEF Shape
  <2>2. ASSUME NEW t \in Sessions, fs[t].pc # "free", rd[q].s = t PROVE KeepsWaiters(q, t)
    <3>1. \/ fs'[t] = fs[t]
          \/ /\ fs'[t].pc = "over" /\ fs'[t].lo = fs[t].lo /\ fs'[t].hi = fs[t].hi
             /\ KeepsOutcome(t) /\ KeepsMarks(t)
      BY <1>1, <2>2, ReleasedSession, Zenon
    <3>2. CASE fs'[t] = fs[t]
      BY <2>2, <3>2, Zenon DEF KeepsWaiters
    <3>3. CASE fs'[t].pc = "over" /\ fs'[t].lo = fs[t].lo /\ fs'[t].hi = fs[t].hi
               /\ KeepsOutcome(t) /\ KeepsMarks(t)
      BY <3>3, Zenon DEF KeepsWaiters, KeepsOutcome, KeepsMarks
    <3> QED
      BY <3>1, <3>2, <3>3, Zenon
  <2>3. rd[q].pc \in Waiting => KeepsWaiters(q, rd[q].s)
    BY <2>1, <2>2, Zenon DEF ReaderShape
  <2> QED
    BY <2>1, <2>3, KeptShape, Zenon
<1>3. fs' \in [Sessions -> FetchSessions]
  BY <1>1, ReleasedSession, Zenon
<1> QED
  BY <1>1, <1>2, <1>3, Zenon DEF Shape, TypeOK

LEMMA FetchShape ==
  ASSUME Shape, NEW s \in Sessions, RunFetch(s)
  PROVE  Shape'
<1>t. TypeOK
  BY Zenon DEF Shape
<1>1. ASSUME NEW e \in Errors, Fail(s, e), UNCHANGED <<source, uploaded, mem, cached, shared>> PROVE Shape'
  BY <1>t, <1>1, FailShape, Zenon DEF Shape, TypeOK
<1>2. ASSUME NEW l \in SessionPCs \ {"free"}, fs' = [fs EXCEPT ![s].pc = l],
             UNCHANGED <<source, uploaded, mem, rd, shared>>, cached' \subseteq Blocks
      PROVE  Shape'
  <2>1. Alters(s) /\ KeepsOutcome(s) /\ KeepsMarks(s) /\ fs'[s].pc = l
    BY <1>t, <1>2, GoesSession, Zenon
  <2>2. \A q \in Readers : ReaderShape(q)'
    BY <1>2, <2>1, QuietShape, Zenon DEF KeepsMarks
  <2> QED
    BY <1>t, <1>2, <2>1, <2>2, Zenon DEF Shape, TypeOK, Alters
<1>3. cached \subseteq Blocks /\ Chunk(fs[s].lo, fs[s].hi) \subseteq Blocks
  BY <1>t, ChunkBlocks, Zenon DEF TypeOK
<1>4. CASE Open(s)
  <2>1. ASSUME fs' = [fs EXCEPT ![s].pc = "read", ![s].upstream = "storage"], UNCHANGED rd PROVE Shape'
    <3>1. Alters(s) /\ KeepsOutcome(s) /\ KeepsMarks(s) /\ fs'[s].pc = "read"
      BY <1>t, <2>1, BaseSession, Zenon
    <3>2. fs'[s].pc # "free"
      BY <3>1, Zenon
    <3>3. \A q \in Readers : ReaderShape(q)'
      BY <2>1, <3>1, <3>2, QuietShape, Zenon DEF KeepsMarks
    <3>4. UNCHANGED <<source, uploaded, mem, cached, shared>>
      BY <1>4, Zenon DEF Open
    <3> QED
      BY <1>t, <2>1, <3>1, <3>3, <3>4, Zenon DEF Shape, TypeOK, Alters
  <2> QED
    BY <1>1, <1>2, <1>3, <1>4, <2>1, Zenon DEF Open, SessionPCs, Errors
<1>5. CASE Breaks(s)
  BY <1>1, <1>5, Zenon DEF Breaks, Errors
<1>6. CASE Verify(s)
  BY <1>1, <1>2, <1>3, <1>6, Zenon DEF Verify, SessionPCs, Errors
<1>7. CASE SetIsCached(s)
  BY <1>2, <1>3, <1>7, Zenon DEF SetIsCached, SessionPCs
<1>8. CASE SetDone(s)
  <2>1. Alters(s) /\ fs'[s].pc = "release"
    BY <1>t, <1>8, DoneSession, Zenon
  <2>2. MutexFree(s) /\ rd' = Broadcast(s, rd) /\ UNCHANGED <<source, uploaded, mem, cached, shared>>
    BY <1>8, Zenon DEF SetDone
  <2>3. fs'[s].pc # "free"
    BY <2>1, Zenon
  <2>4. rd' \in [Readers -> Reads]
    BY <1>t, <2>2, BroadcastRead, Zenon DEF TypeOK
  <2>5. \A q \in Readers : ReaderShape(q)'
    BY <2>1, <2>2, <2>3, WakeShape, Zenon
  <2> QED
    BY <1>t, <2>1, <2>2, <2>4, <2>5, Zenon DEF Shape, TypeOK, Alters
<1> QED
  BY <1>4, <1>5, <1>6, <1>7, <1>8, ReceiveShape, ReleaseShape, Zenon DEF RunFetch

LEMMA InitShape == Init => Shape
<1> SUFFICES ASSUME Init PROVE Shape
  BY Zenon
<1>1. \A r \in Readers : rd[r].pc = "idle"
  BY Zenon DEF Init, Idle
<1>2. \A r \in Readers : ReaderShape(r)
  BY <1>1, Zenon DEF ReaderShape, Reading, Waiting
<1>3. TypeOK
  BY BlankType, IdleType, Zenon DEF Init, TypeOK, Sources
<1> QED
  BY <1>2, <1>3, Zenon DEF Shape

LEMMA StepShape == Shape /\ [Next]_vars => Shape'
<1> SUFFICES ASSUME Shape, [Next]_vars PROVE Shape'
  BY Zenon
<1>1. ASSUME UNCHANGED <<source, mem, cached, fs, rd, shared>>, uploaded' \in BOOLEAN PROVE Shape'
  BY <1>1, Zenon DEF Shape, TypeOK, ReaderShape
<1>2. CASE UseStorage
  BY <1>1, <1>2, Zenon DEF UseStorage
<1>3. CASE UNCHANGED vars
  BY <1>1, <1>3, Zenon DEF vars, Shape, TypeOK
<1> QED
  BY <1>2, <1>3, ReaderStepShape, CancelShape, FetchShape, Zenon DEF Next

(* Every variable keeps its type, for all sizes of the file, of frames and  *)
(* of chunks: no fetch writes beyond the end of the file, and a read is     *)
(* retried once, after recoverFromPeerTransition.                           *)
THEOREM ChunkTypeCorrect == Spec => []TypeOK
<1>1. Shape => TypeOK
  BY Zenon DEF Shape
<1> QED
  BY <1>1, InitShape, StepShape, PTL DEF Spec

(* No wake-up is lost: advance, setDone and setError, which change under    *)
(* the session's mutex what its readers wait for, find every one of them    *)
(* awake or wake it, however the broadcasts of cancelled reads race.        *)
THEOREM WakeupsKept == Spec => []NoMissedWakeup
<1>1. Shape => NoMissedWakeup
  BY Zenon DEF Shape, ReaderShape, NoMissedWakeup
<1> QED
  BY <1>1, InitShape, StepShape, PTL DEF Spec

(***************************************************************************)
(* The bytes.                                                              *)
(***************************************************************************)

(* The blocks of session s, and those of a chunk. *)
Part(s) == Chunk(fs[s].lo, fs[s].hi)
Span(geo, b) == Chunk(ChunkLo(geo, b), ChunkHi(geo, b))

Framed(s) ==
  /\ fs[s].lo <= fs[s].wrote
  /\ fs[s].pc = "open" => \A b \in Part(s) : ~(b < fs[s].wrote)
  /\ \A b \in Part(s) : ChunkLo(fs[s].geo, b) = fs[s].lo /\ ChunkHi(fs[s].geo, b) = fs[s].hi

(* Storage is asked for what it has only. *)
Underway(s) ==
  /\ fs[s].pc \in {"open", "read", "cache", "done"} => ~fs[s].done /\ fs[s].err = None
  /\ fs[s].upstream = "storage" => fs[s].geo = Stored

(* Where a session that may still write has something cached is recorded. *)
Clean(s) == Running(s) /\ fs[s].pc # "done" => Part(s) \cap cached \subseteq shared

Written(s) ==
  /\ \A b \in Part(s) : b < fs[s].ready => mem[b] # "none"
  /\ fs[s].pc \in {"read", "cache"} =>
       \A b \in Part(s) : b < fs[s].wrote =>
         mem[b] # "none" /\ (fs[s].intact => mem[b] = "good" \/ b \in shared)
  /\ fs[s].pc = "cache" => fs[s].wrote = fs[s].hi /\ fs[s].intact

Settled(s) == fs[s].done /\ fs[s].err = None

(* The readers of a frame go on only when it is cached. *)
Ended(s) ==
  /\ fs[s].pc = "done" \/ Settled(s) => Part(s) \subseteq cached
  /\ fs[s].geo = "frame" /\ ~Settled(s) => \A b \in Part(s) : ~(b < fs[s].ready)

SessionInv(s) ==
  fs[s].pc # "free" => Framed(s) /\ Underway(s) /\ Clean(s) /\ Written(s) /\ Ended(s)

(* Two sessions are disjoint, or one is of a chunk and the other of a      *)
(* frame; where these may both write is recorded.                          *)
Disjoint(s, t) ==
  /\ fs[s].geo = fs[t].geo => Part(s) \cap Part(t) = {}
  /\ Running(s) /\ Running(t) => Part(s) \cap Part(t) \subseteq shared

Apart ==
  \A s, t \in Sessions : s \in Listed /\ t \in Listed /\ s # t => Disjoint(s, t)

(* The blocks that a read has passed are cached, or were taken early. *)
Taken(r) ==
  rd[r].pc \in Reading \cup {"slice"} =>
    \A b \in Chunk(rd[r].lo, rd[r].hi) :
      b < rd[r].cur => b \in cached \/ (b \in rd[r].early /\ mem[b] # "none")

Verified(r) == rd[r].unwritten = {} /\ rd[r].corrupt \subseteq rd[r].early \cup shared

ReaderInv(r) ==
  /\ rd[r].upstream = "storage" => rd[r].geo = Stored
  /\ Taken(r)
  /\ rd[r].pc # "returned" => rd[r].unwritten = {} /\ rd[r].corrupt = {}
  /\ Verified(r)

Bytes ==
  /\ Shape /\ CachedGood /\ Apart
  /\ \A s \in Sessions : SessionInv(s)
  /\ \A r \in Readers : ReaderInv(r)

(* No step takes back what was uploaded, cached, written or recorded. *)
Grows ==
  /\ uploaded => uploaded'
  /\ cached \subseteq cached' /\ shared \subseteq shared'
  /\ \A b \in Blocks : mem[b] # "none" => mem'[b] # "none"

LEMMA StaysInv ==
  ASSUME NEW q \in Readers, NEW s, Stays(q, s), ReaderInv(q), Grows
  PROVE  ReaderInv(q)'
<1>1. /\ rd'[q].geo = rd[q].geo /\ rd'[q].upstream = rd[q].upstream
      /\ rd'[q].lo = rd[q].lo /\ rd'[q].hi = rd[q].hi
      /\ rd'[q].cur = rd[q].cur /\ rd'[q].early = rd[q].early
      /\ rd'[q].unwritten = rd[q].unwritten /\ rd'[q].corrupt = rd[q].corrupt
      /\ rd'[q].pc = rd[q].pc \/ (rd[q].pc = "sleep" /\ rd'[q].pc = "wait")
  BY Zenon DEF Stays
<1>2. /\ rd'[q].pc = "returned" <=> rd[q].pc = "returned"
      /\ rd'[q].pc \in Reading \cup {"slice"} => rd[q].pc \in Reading \cup {"slice"}
  BY <1>1, Zenon DEF Reading
<1>3. Taken(q)'
  <2>1. ASSUME rd'[q].pc \in Reading \cup {"slice"}, NEW b \in Chunk(rd[q].lo, rd[q].hi), b < rd[q].cur
        PROVE  b \in cached' \/ (b \in rd[q].early /\ mem'[b] # "none")
    BY <1>2, <2>1, ChunkBlocks, Zenon DEF ReaderInv, Taken, Grows
  <2> QED
    BY <1>1, <2>1, Zenon DEF Taken
<1>4. Verified(q)'
  BY <1>1, Zenon DEF ReaderInv, Verified, Grows
<1> QED
  BY <1>1, <1>2, <1>3, <1>4, Zenon DEF ReaderInv

(* A session that does not move: what it has written stays, outside of     *)
(* what is recorded.                                                       *)
LEMMA KeptSession ==
  ASSUME NEW t \in Sessions, fs'[t] = fs[t], SessionInv(t), Grows,
         fs[t].pc \in {"read", "cache"} => \A b \in Part(t) : mem'[b] = mem[b] \/ b \in shared,
         fs[t].pc # "free" => Clean(t)'
  PROVE  SessionInv(t)'
<1> SUFFICES ASSUME fs[t].pc # "free" PROVE Framed(t)' /\ Underway(t)' /\ Written(t)' /\ Ended(t)'
  BY Zenon DEF SessionInv
<1>1. Framed(t) /\ Underway(t) /\ Written(t) /\ Ended(t) /\ Part(t)' = Part(t) /\ Part(t) \subseteq Blocks
  BY ChunkBlocks, Zenon DEF SessionInv, Part
<1>2. Framed(t)'
  BY <1>1, Zenon DEF Framed
<1>3. Underway(t)'
  BY <1>1, Zenon DEF Underway
<1>4. Written(t)'
  <2>1. \A b \in Part(t) : b < fs[t].ready => mem'[b] # "none"
    BY <1>1, Zenon DEF Written, Grows
  <2>2. ASSUME fs[t].pc \in {"read", "cache"}, NEW b \in Part(t), b < fs[t].wrote
        PROVE  mem'[b] # "none" /\ (fs[t].intact => mem'[b] = "good" \/ b \in shared')
    <3>1. mem[b] # "none" /\ (fs[t].intact => mem[b] = "good" \/ b \in shared) /\ b \in Blocks
      BY <1>1, <2>2, Zenon DEF Written
    <3> QED
      BY <2>2, <3>1, Zenon DEF Grows
  <2> QED
    BY <1>1, <2>1, <2>2, Zenon DEF Written
<1>5. Ended(t)'
  BY <1>1, Zenon DEF Ended, Settled, Grows
<1> QED
  BY <1>2, <1>3, <1>4, <1>5, Zenon

(* Session t keeps its blocks, and does not start to write again. *)
KeepsPlace(t) ==
  fs'[t].pc \notin {"free", "over"} =>
    /\ fs[t].pc \notin {"free", "over"}
    /\ fs'[t].geo = fs[t].geo /\ fs'[t].lo = fs[t].lo /\ fs'[t].hi = fs[t].hi
    /\ Running(t)' => Running(t)

LEMMA ApartKept ==
  ASSUME Apart, shared \subseteq shared', \A t \in Sessions : KeepsPlace(t)
  PROVE  Apart'
<1> SUFFICES ASSUME NEW s \in Sessions, NEW t \in Sessions, s \in Listed', t \in Listed', s # t
             PROVE  Disjoint(s, t)'
  BY Zenon DEF Apart
<1>1. fs'[s].pc \notin {"free", "over"} /\ fs'[t].pc \notin {"free", "over"}
  BY Zenon DEF Listed
<1>2. s \in Listed /\ t \in Listed
  BY <1>1, Zenon DEF Listed, KeepsPlace
<1>3. /\ Part(s)' = Part(s) /\ Part(t)' = Part(t) /\ fs'[s].geo = fs[s].geo /\ fs'[t].geo = fs[t].geo
      /\ (Running(s)' => Running(s)) /\ (Running(t)' => Running(t))
  BY <1>1, Zenon DEF Part, KeepsPlace
<1>4. Disjoint(s, t)
  BY <1>2, Zenon DEF Apart
<1> QED
  BY <1>3, <1>4, Zenon DEF Disjoint

(* A step that neither writes nor caches. *)
LEMMA SteadyBytes ==
  ASSUME Bytes, Shape', UNCHANGED <<mem, cached>>, shared \subseteq shared',
         \A t \in Sessions : KeepsPlace(t) /\ SessionInv(t)',
         \A q \in Readers : ReaderInv(q)'
  PROVE  Bytes'
<1>1. CachedGood'
  BY Zenon DEF Bytes, CachedGood
<1>2. Apart'
  BY ApartKept, Zenon DEF Bytes
<1> QED
  BY <1>1, <1>2, Zenon DEF Bytes

LEMMA SteadySession ==
  ASSUME NEW t \in Sessions, fs'[t] = fs[t] \/ fs'[t].pc = "free", SessionInv(t),
         UNCHANGED <<mem, cached>>, shared \subseteq shared', uploaded => uploaded'
  PROVE  KeepsPlace(t) /\ SessionInv(t)'
<1>1. CASE fs'[t] = fs[t]
  <2>1. Grows
    BY Zenon DEF Grows
  <2>2. Running(t)' => Running(t)
    BY <1>1, Zenon DEF Running, Yields
  <2>3. fs[t].pc # "free" => Clean(t)'
    BY <1>1, <2>2, Zenon DEF SessionInv, Clean, Part
  <2>4. SessionInv(t)'
    BY <1>1, <2>1, <2>3, KeptSession, Zenon
  <2> QED
    BY <1>1, <2>2, <2>4, Zenon DEF KeepsPlace
<1>2. CASE fs'[t].pc = "free"
  BY <1>2, Zenon DEF KeepsPlace, SessionInv
<1> QED
  BY <1>1, <1>2, Zenon

LEMMA ReaderBytes ==
  ASSUME Bytes, Shape', NEW r \in Readers, Only(r), ReaderInv(r)',
         UNCHANGED <<uploaded, mem, cached, shared>>,
         \A t \in Sessions : fs'[t] = fs[t] \/ fs'[t].pc = "free"
  PROVE  Bytes'
<1>1. \A t \in Sessions : KeepsPlace(t) /\ SessionInv(t)'
  BY SteadySession, Zenon DEF Bytes
<1>2. ASSUME NEW q \in Readers \ {r} PROVE ReaderInv(q)'
  <2>1. Stays(q, None) /\ ReaderInv(q) /\ Grows
    BY StaysPut, Zenon DEF Bytes, Shape, Only, Grows
  <2> QED
    BY <2>1, StaysInv, Zenon
<1>3. \A q \in Readers : ReaderInv(q)'
  BY <1>2, Zenon
<1> QED
  BY <1>1, <1>3, SteadyBytes, Zenon

(* A read of these blocks that took some early is verified. *)
Sound(lo, hi, early) ==
  \A b \in Chunk(lo, hi) : mem[b] # "none" /\ (mem[b] = "bad" => b \in early \cup shared)

LEMMA ReturnsInv ==
  ASSUME NEW r, NEW lo, NEW hi, NEW early, Returns(r, lo, hi, early),
         TypeOK, r \in Readers, Sound(lo, hi, early), UNCHANGED shared
  PROVE  Only(r) /\ ReaderInv(r)'
<1>1. /\ Only(r) /\ rd'[r].pc = "returned" /\ rd'[r].upstream = "peer"
      /\ rd'[r].corrupt = Corrupt(lo, hi) /\ rd'[r].unwritten = Unwritten(lo, hi)
      /\ \A b \in Corrupt(lo, hi) : b \in early => b \in rd'[r].early
  BY ReturnsRead, Zenon
<1>2. Verified(r)'
  BY <1>1, Zenon DEF Verified, Sound, Corrupt, Unwritten
<1>3. Taken(r)'
  BY <1>1, Zenon DEF Taken, Reading
<1> QED
  BY <1>1, <1>2, <1>3, Zenon DEF ReaderInv

LEMMA SliceInv ==
  ASSUME NEW r, NEW geo, NEW up, NEW try, NEW lo, NEW hi, NEW c, Slice(r, geo, up, try, lo, hi, c),
         Bytes, r \in Readers, geo \in Geometries, up \in Sources, try \in 0..2, lo \in 0..Size,
         hi \in 0..Size, c \in BOOLEAN, up = "storage" => geo = Stored, UNCHANGED shared
  PROVE  Only(r) /\ ReaderInv(r)'
<1>1. CASE IsCached(lo, hi)
  <2>1. Returns(r, lo, hi, {})
    BY <1>1, Zenon DEF Slice, IsCached
  <2>2. Sound(lo, hi, {})
    BY <1>1, Zenon DEF IsCached, Bytes, CachedGood, Sound
  <2> QED
    BY <2>1, <2>2, ReturnsInv, Zenon DEF Bytes, Shape
<1>2. CASE ~IsCached(lo, hi)
  <2>1. /\ Only(r) /\ rd'[r].pc = "lookup" /\ rd'[r].geo = geo /\ rd'[r].upstream = up
        /\ rd'[r].lo = lo /\ rd'[r].hi = hi /\ rd'[r].cur = lo
        /\ rd'[r].unwritten = {} /\ rd'[r].corrupt = {}
    BY <1>2, StartsRead, ZenonT(60) DEF Bytes, Shape
  <2>2. \A b \in Chunk(lo, hi) : ~(b < lo)
    <3>1. lo \in Nat
      BY SizeTypes
    <3>2. \A b \in Chunk(lo, hi) : b \in Nat /\ lo <= b
      BY ChunkBlocks, BlockTypes, Zenon
    <3> QED
      BY <3>1, <3>2
  <2>3. Taken(r)'
    BY <2>1, <2>2, Zenon DEF Taken
  <2> QED
    BY <2>1, <2>3, Zenon DEF ReaderInv, Verified
<1> QED
  BY <1>1, <1>2, Zenon

(* A read goes on to block b when the blocks up to it may be taken. *)
LEMMA ContinueInv ==
  ASSUME NEW r, NEW b, NEW early, Continue(r, b, early),
         Bytes, r \in Readers, rd[r].pc \in Reading, b \in 0..Size, early \in SUBSET Blocks,
         rd[r].early \subseteq early, UNCHANGED <<mem, cached>>,
         \A c \in Blocks : rd[r].cur <= c /\ c < b => c \in cached \/ (c \in early /\ mem[c] # "none")
  PROVE  Only(r) /\ ReaderInv(r)'
<1>1. /\ Only(r) /\ rd'[r].cur = b /\ rd'[r].early = early
      /\ rd'[r].lo = rd[r].lo /\ rd'[r].hi = rd[r].hi /\ rd'[r].pc \in {"slice", "lookup", "wait"}
      /\ \/ SameRead(r)
         \/ rd'[r].upstream = "peer" /\ rd'[r].unwritten = {} /\ rd'[r].corrupt = {}
  BY ContinueRead, Zenon DEF Bytes, Shape
<1>2. rd[r].pc # "returned" /\ ReaderInv(r)
  BY Zenon DEF Bytes, Reading
<1>3. ASSUME NEW c \in Chunk(rd[r].lo, rd[r].hi), c < b
      PROVE  c \in cached \/ (c \in early /\ mem[c] # "none")
  <2>1. c \in Blocks /\ (c < rd[r].cur \/ rd[r].cur <= c)
    <3>1. c \in Blocks /\ c \in Nat
      BY ChunkBlocks, BlockTypes, Zenon
    <3>2. rd[r].cur \in Nat
      BY ReaderRanges, Zenon DEF Bytes, Shape
    <3>3. c < rd[r].cur \/ rd[r].cur <= c
      BY <3>1, <3>2
    <3> QED
      BY <3>1, <3>3, Zenon
  <2>2. c < rd[r].cur => c \in cached \/ (c \in rd[r].early /\ mem[c] # "none")
    BY <1>2, Zenon DEF ReaderInv, Taken
  <2> QED
    BY <1>3, <2>1, <2>2, Zenon
<1>4. Taken(r)'
  BY <1>1, <1>3, Zenon DEF Taken
<1>5. /\ rd'[r].unwritten = {} /\ rd'[r].corrupt = {}
      /\ rd'[r].upstream = "storage" => rd'[r].geo = Stored
  BY <1>1, <1>2, Zenon DEF ReaderInv, SameRead
<1> QED
  BY <1>1, <1>4, <1>5, Zenon DEF ReaderInv, Verified

LEMMA FailsInv ==
  ASSUME NEW r, NEW e, Fails(r, e), Bytes, r \in Readers, e \in Errors \cup {None}
  PROVE  Only(r) /\ ReaderInv(r)'
<1>1. /\ Only(r) /\ rd'[r].pc \in {"recover", "returned"} /\ rd'[r].upstream = "peer"
      /\ rd'[r].unwritten = {} /\ rd'[r].corrupt = {}
  BY FailsRead, Zenon DEF Bytes, Shape
<1>2. Taken(r)'
  BY <1>1, Zenon DEF Taken, Reading
<1> QED
  BY <1>1, <1>2, Zenon DEF ReaderInv, Verified

(* A reader that stays at its block. *)
LEMMA MovesInv ==
  ASSUME NEW r \in Readers, ReaderInv(r), SameRead(r), rd[r].pc \in Reading, rd'[r].pc \in Reading,
         rd'[r].cur = rd[r].cur, rd'[r].early = rd[r].early, UNCHANGED <<mem, cached>>
  PROVE  ReaderInv(r)'
<1>1. /\ rd'[r].geo = rd[r].geo /\ rd'[r].upstream = rd[r].upstream
      /\ rd'[r].lo = rd[r].lo /\ rd'[r].hi = rd[r].hi
      /\ rd'[r].unwritten = {} /\ rd'[r].corrupt = {}
  BY Zenon DEF SameRead, Reading, ReaderInv
<1>2. Taken(r)'
  BY <1>1, Zenon DEF ReaderInv, Taken
<1> QED
  BY <1>1, <1>2, Zenon DEF ReaderInv, Verified

(* The chunk of any of its blocks is the chunk. *)
LEMMA SpanSame ==
  ASSUME NEW geo \in Geometries, NEW c \in Blocks, NEW b \in Span(geo, c)
  PROVE  b \in Blocks /\ ChunkLo(geo, b) = ChunkLo(geo, c) /\ ChunkHi(geo, b) = ChunkHi(geo, c)
<1>1. b \in Blocks /\ ChunkLo(geo, c) <= b /\ b < ChunkHi(geo, c)
  BY ChunkBlocks, Zenon DEF Span
<1> QED
  BY <1>1, SameChunk, Zenon

(* A session that has a block of the chunk and does not contain the chunk  *)
(* has the other geometry.                                                 *)
LEMMA NotCovered ==
  ASSUME Bytes, NEW geo \in Geometries, NEW c \in Blocks, NEW t \in Sessions, fs[t].pc # "free",
         ~Covers(t, ChunkLo(geo, c), ChunkHi(geo, c)), NEW b \in Part(t), b \in Span(geo, c)
  PROVE  fs[t].geo # geo
<1>1. b \in Blocks /\ ChunkLo(geo, b) = ChunkLo(geo, c) /\ ChunkHi(geo, b) = ChunkHi(geo, c)
  BY SpanSame, Zenon
<1>2. fs[t].lo = ChunkLo(fs[t].geo, b) /\ fs[t].hi = ChunkHi(fs[t].geo, b)
  BY Zenon DEF Bytes, SessionInv, Framed
<1>3. ChunkLo(geo, b) \in Nat /\ ChunkHi(geo, b) \in Nat
  BY <1>1, ChunkBounds, Zenon
<1>4. ChunkLo(geo, b) <= ChunkLo(geo, b) /\ ChunkHi(geo, b) >= ChunkHi(geo, b)
  BY <1>3
<1> QED
  BY <1>1, <1>2, <1>4, Zenon DEF Covers

LEMMA CreatedInv ==
  ASSUME NEW s, NEW geo, NEW up, NEW c,
         Creates(s, geo, up, ChunkLo(geo, c), ChunkHi(geo, c)),
         Bytes, s \in Sessions, geo \in Geometries, up \in Sources, c \in Blocks, fs[s].pc = "free",
         up = "storage" => geo = Stored, ~IsCached(ChunkLo(geo, c), ChunkHi(geo, c)),
         \A t \in Listed : ~Covers(t, ChunkLo(geo, c), ChunkHi(geo, c)),
         shared' = shared \cup Overlap(geo, up, ChunkLo(geo, c), ChunkHi(geo, c)),
         UNCHANGED <<uploaded, mem, cached>>
  PROVE  /\ \A t \in Sessions \ {s} : fs'[t] = fs[t]
         /\ SessionInv(s)' /\ Apart'
<1> DEFINE lo == ChunkLo(geo, c)
           hi == ChunkHi(geo, c)
<1>1. lo \in Nat /\ hi \in Nat /\ lo <= c /\ c < hi /\ hi <= Size /\ c \in Nat
  BY ChunkBounds, BlockTypes, Zenon
<1>2. lo \in 0..Size /\ hi \in 0..Size
  BY <1>1, SizeTypes
<1>3. /\ \A t \in Sessions \ {s} : fs'[t] = fs[t]
      /\ fs'[s].pc = "open" /\ fs'[s].geo = geo /\ fs'[s].upstream = up
      /\ fs'[s].lo = lo /\ fs'[s].hi = hi
      /\ fs'[s].wrote = lo /\ fs'[s].ready = lo /\ fs'[s].done = FALSE /\ fs'[s].err = None
  <2> HIDE DEF lo, hi
  <2>1. Creates(s, geo, up, lo, hi)
    BY Zenon DEF lo, hi
  <2> QED
    BY <1>2, <2>1, CreatesSession, ZenonT(30) DEF Bytes, Shape
<1>4. Part(s)' = Span(geo, c)
  BY <1>3, Zenon DEF Part, Span
<1>5. \A b \in Span(geo, c) : ~(b < lo)
  <2>1. \A b \in Span(geo, c) : b \in Nat /\ lo <= b
    BY ChunkBlocks, BlockTypes, Zenon DEF Span
  <2> HIDE DEF lo
  <2> QED
    BY <1>1, <2>1
<1>6. lo <= lo
  BY <1>1
<1>7. Framed(s)'
  <2>1. \A b \in Span(geo, c) : ChunkLo(geo, b) = lo /\ ChunkHi(geo, b) = hi
    BY SpanSame, Zenon
  <2> HIDE DEF lo, hi
  <2> QED
    BY <1>3, <1>4, <1>5, <1>6, <2>1, Zenon DEF Framed
<1>8. Underway(s)'
  BY <1>3, Zenon DEF Underway
<1>9. Running(s)' => (up = "peer" => ~uploaded)
  BY <1>3, Zenon DEF Running, Yields
<1>10. Clean(s)'
  <2>1. ~(Span(geo, c) \subseteq cached)
    BY Zenon DEF IsCached, Span
  <2>2. ASSUME Running(s)', NEW b \in Span(geo, c), b \in cached PROVE b \in shared'
    BY <1>9, <2>1, <2>2, Zenon DEF Overlap, Span
  <2> QED
    BY <1>4, <2>2, Zenon DEF Clean
<1>11. Written(s)'
  BY <1>3, <1>4, <1>5, Zenon DEF Written
<1>12. Ended(s)'
  BY <1>3, <1>4, <1>5, Zenon DEF Ended, Settled
<1>13. SessionInv(s)'
  BY <1>7, <1>8, <1>10, <1>11, <1>12, Zenon DEF SessionInv
<1>14. ASSUME NEW t \in Sessions, t \in Listed, t # s
       PROVE  Disjoint(s, t)' /\ Disjoint(t, s)'
  <2>1. /\ fs'[t] = fs[t] /\ Part(t)' = Part(t) /\ fs[t].pc # "free"
        /\ ~Covers(t, ChunkLo(geo, c), ChunkHi(geo, c))
    BY <1>3, <1>14, Zenon DEF Part, Listed
  <2>2. ASSUME NEW b \in Part(t), b \in Span(geo, c) PROVE fs[t].geo # geo
    BY <2>1, <2>2, NotCovered, Zenon
  <2>3. Running(t)' => Running(t)
    BY <2>1, Zenon DEF Running, Yields
  <2>4. ASSUME Running(s)', Running(t)', NEW b \in Part(t), b \in Span(geo, c) PROVE b \in shared'
    BY <1>9, <2>2, <2>3, <2>4, Zenon DEF Overlap, Span, Part
  <2>5. Disjoint(s, t)'
    BY <1>3, <1>4, <2>1, <2>2, <2>4, Zenon DEF Disjoint
  <2>6. Disjoint(t, s)'
    BY <1>3, <1>4, <2>1, <2>2, <2>4, Zenon DEF Disjoint
  <2> QED
    BY <2>5, <2>6, Zenon
<1>15. Apart'
  <2> SUFFICES ASSUME NEW x \in Sessions, NEW y \in Sessions, x \in Listed', y \in Listed', x # y
               PROVE  Disjoint(x, y)'
    BY Zenon DEF Apart
  <2>1. \A t \in Sessions : t \in Listed' /\ t # s => t \in Listed
    BY <1>3, Zenon DEF Listed
  <2>2. CASE x = s
    BY <1>14, <2>1, <2>2, Zenon
  <2>3. CASE y = s
    BY <1>14, <2>1, <2>3, Zenon
  <2>4. CASE x # s /\ y # s
    <3>1. fs'[x] = fs[x] /\ fs'[y] = fs[y] /\ x \in Listed /\ y \in Listed
      BY <1>3, <2>1, <2>4, Zenon
    <3>2. Disjoint(x, y)
      BY <3>1, Zenon DEF Bytes, Apart
    <3>3. (Running(x)' => Running(x)) /\ (Running(y)' => Running(y))
      BY <3>1, Zenon DEF Running, Yields
    <3> QED
      BY <3>1, <3>2, <3>3, Zenon DEF Part, Disjoint
  <2> QED
    BY <2>2, <2>3, <2>4, Zenon
<1> QED
  BY <1>3, <1>13, <1>15, Zenon

LEMMA LookupBytes ==
  ASSUME Bytes, Shape', NEW r \in Readers, Lookup(r)
  PROVE  Bytes'
<1> DEFINE c == rd[r].cur
           k == rd[r].geo
           lo == ChunkLo(k, c)
           hi == ChunkHi(k, c)
<1>1. rd[r].pc = "lookup" /\ UNCHANGED <<source, uploaded, mem, cached>> /\ rd[r].pc \in Reading
  BY Zenon DEF Lookup, Reading
<1>2. c \in Blocks /\ k \in Geometries /\ ReaderInv(r) /\ TypeOK /\ (rd[r].upstream = "storage" => k = Stored)
  BY <1>1, CurBlock, Zenon DEF Bytes, Shape, ReaderInv
<1>3. rd[r].upstream \in Sources
  BY <1>2, ReaderTypes, Zenon
<1>4. ASSUME NEW s \in Sessions, rd' = [rd EXCEPT ![r].pc = "wait", ![r].s = s]
      PROVE  Only(r) /\ ReaderInv(r)'
  <2>1. /\ Only(r) /\ SameRead(r) /\ rd'[r].pc = "wait"
        /\ rd'[r].cur = rd[r].cur /\ rd'[r].early = rd[r].early
    BY <1>2, <1>4, JoinsRead, Zenon
  <2>2. rd'[r].pc \in Reading
    BY <2>1, Zenon DEF Reading
  <2> QED
    BY <1>1, <1>2, <2>1, <2>2, MovesInv, Zenon
<1>5. CASE UNCHANGED <<fs, shared>> /\ \E s \in Sessions : rd' = [rd EXCEPT ![r].pc = "wait", ![r].s = s]
  BY <1>1, <1>4, <1>5, ReaderBytes, Zenon
<1>6. CASE UNCHANGED <<fs, shared>> /\ IsCached(lo, hi) /\ Continue(r, hi, rd[r].early)
  <2>1. hi \in 0..Size /\ lo \in Nat /\ lo <= c /\ c \in Nat
    <3>1. hi \in Nat /\ hi <= Size /\ lo \in Nat /\ lo <= c /\ c \in Nat
      BY <1>2, ChunkBounds, BlockTypes, Zenon
    <3> QED
      BY <3>1, RangeIntro, Zenon
  <2>2. \A b \in Blocks : c <= b => lo <= b
    <3>1. \A b \in Blocks : b \in Nat
      BY BlockTypes, Zenon
    <3> HIDE DEF c, lo
    <3> QED
      BY <2>1, <3>1
  <2>3. \A b \in Blocks : c <= b /\ b < hi => b \in cached
    BY <1>6, <2>2, ChunkBlocks, Zenon DEF IsCached
  <2>4. rd[r].early \in SUBSET Blocks
    BY <1>2, ReaderTypes, Zenon
  <2>5. Only(r) /\ ReaderInv(r)'
    BY <1>1, <1>6, <2>1, <2>3, <2>4, ContinueInv, Zenon
  <2> QED
    BY <1>1, <1>6, <2>5, ReaderBytes, Zenon
<1>7. CASE /\ ~IsCached(lo, hi) /\ \A t \in Listed : ~Covers(t, lo, hi)
           /\ shared' = shared \cup Overlap(k, rd[r].upstream, lo, hi)
           /\ \E s \in Sessions : /\ fs[s].pc = "free" /\ Creates(s, k, rd[r].upstream, lo, hi)
                                  /\ rd' = [rd EXCEPT ![r].pc = "wait", ![r].s = s]
  <2>1. PICK s \in Sessions : /\ fs[s].pc = "free" /\ Creates(s, k, rd[r].upstream, lo, hi)
                              /\ rd' = [rd EXCEPT ![r].pc = "wait", ![r].s = s]
    BY <1>7, Zenon
  <2>2. (\A t \in Sessions \ {s} : fs'[t] = fs[t]) /\ SessionInv(s)' /\ Apart'
    BY <1>1, <1>2, <1>3, <1>7, <2>1, CreatedInv, ZenonT(30)
  <2>3. \A t \in Sessions : SessionInv(t)'
    BY <1>1, <1>7, <2>2, SteadySession, Zenon DEF Bytes
  <2>4. Only(r) /\ ReaderInv(r)'
    BY <1>4, <2>1, Zenon
  <2>5. ASSUME NEW q \in Readers \ {r} PROVE ReaderInv(q)'
    <3>1. Stays(q, None) /\ ReaderInv(q) /\ Grows
      BY <1>1, <1>2, <1>7, <2>4, StaysPut, Zenon DEF Bytes, Only, Grows
    <3> QED
      BY <3>1, StaysInv, Zenon
  <2>6. CachedGood'
    BY <1>1, <1>7, Zenon DEF Bytes, CachedGood
  <2> QED
    BY <2>2, <2>3, <2>4, <2>5, <2>6, Zenon DEF Bytes
<1> QED
  BY <1>5, <1>6, <1>7, Zenon DEF Lookup, Creates, Listed

LEMMA WaitBytes ==
  ASSUME Bytes, Shape', NEW r \in Readers, Wait(r)
  PROVE  Bytes'
<1> DEFINE b == rd[r].cur
           s == rd[r].s
           f == fs[rd[r].s]
<1>1. /\ rd[r].pc = "wait" /\ UNCHANGED <<source, uploaded, mem, cached, shared>> /\ fs' = Collect(fs, rd')
      /\ TypeOK /\ rd[r].pc \in Reading /\ rd[r].pc # "returned"
  BY Zenon DEF Wait, Bytes, Shape, Reading
<1>2. /\ b \in Blocks /\ rd[r].geo \in Geometries /\ b \in Nat
      /\ s \in Sessions /\ f.pc # "free"
      /\ f.lo <= ChunkLo(rd[r].geo, b) /\ f.hi >= ChunkHi(rd[r].geo, b)
  BY <1>1, CurBlock, Zenon DEF Bytes, Shape, ReaderShape, Waiting
<1>3. ChunkLo(rd[r].geo, b) \in Nat /\ ChunkLo(rd[r].geo, b) <= b /\ ChunkHi(rd[r].geo, b) \in Nat
      /\ b < ChunkHi(rd[r].geo, b) /\ ChunkHi(rd[r].geo, b) <= Size
  BY <1>2, ChunkBounds, Zenon
<1>4. f.lo \in Nat /\ f.hi \in Nat
  BY <1>1, <1>2, SessionRanges, Zenon
<1>5. f.lo <= b /\ b < f.hi /\ b + 1 \in 0..Size /\ \A c \in Nat : b <= c /\ c < b + 1 => c = b
  BY <1>2, <1>3, <1>4, SizeTypes
<1>6. b \in Part(s) /\ Written(s) /\ Ended(s)
  <2>1. b \in Part(s)
    BY <1>2, <1>5, Zenon DEF Part, Chunk
  <2>2. SessionInv(s)
    BY <1>2, Zenon DEF Bytes
  <2> QED
    BY <1>2, <2>1, <2>2, Zenon DEF SessionInv
<1>7. rd[r].early \in SUBSET Blocks /\ f.err \in Errors \cup {None}
  BY <1>1, <1>2, ReaderTypes, SessionTypes, Zenon
<1>8. ASSUME NEW early \in SUBSET Blocks, Continue(r, b + 1, early), rd[r].early \subseteq early,
             b \in cached \/ (b \in early /\ mem[b] # "none")
      PROVE  Only(r) /\ ReaderInv(r)'
  <2>1. \A c \in Blocks : b <= c /\ c < b + 1 => c = b
    BY <1>5, BlockTypes, Zenon
  <2>2. \A c \in Blocks : b <= c /\ c < b + 1 => c \in cached \/ (c \in early /\ mem[c] # "none")
    BY <1>8, <2>1, Zenon
  <2> QED
    BY <1>1, <1>5, <1>8, <2>2, ContinueInv, Zenon
<1>9. ASSUME b < f.ready,
              Continue(r, b + 1, rd[r].early \cup
                                 {c \in {b} : f.geo = "chunk" /\ ~(f.done /\ f.err = None)})
       PROVE  Only(r) /\ ReaderInv(r)'
  <2> DEFINE early == rd[r].early \cup {c \in {b} : f.geo = "chunk" /\ ~(f.done /\ f.err = None)}
  <2>1. early \in SUBSET Blocks /\ rd[r].early \subseteq early
    BY <1>2, <1>7, Zenon
  <2>2. mem[b] # "none"
    BY <1>6, <1>9, Zenon DEF Written
  <2>3. CASE Settled(s)
    <3>1. b \in cached
      BY <1>6, <2>3, Zenon DEF Ended
    <3> QED
      BY <1>8, <1>9, <2>1, <3>1, Zenon
  <2>4. CASE ~Settled(s)
    <3>1. f.geo # "frame" /\ f.geo \in Geometries
      BY <1>1, <1>2, <1>6, <1>9, <2>4, SessionTypes, Zenon DEF Ended
    <3>2. b \in early
      BY <2>4, <3>1, Zenon DEF Settled, Geometries
    <3> QED
      BY <1>8, <1>9, <2>1, <2>2, <3>2, Zenon
  <2> QED
    BY <2>3, <2>4, Zenon
<1>10. ASSUME b \in cached, Continue(r, b + 1, rd[r].early)
       PROVE  Only(r) /\ ReaderInv(r)'
  BY <1>7, <1>8, <1>10, Zenon
<1>11. ASSUME Fails(r, f.err) \/ Fails(r, "cancelled")
       PROVE  Only(r) /\ ReaderInv(r)'
  <2>1. "cancelled" \in Errors \cup {None}
    BY Zenon DEF Errors
  <2> QED
    BY <1>7, <1>11, <2>1, FailsInv, Zenon
<1>12. ASSUME rd' = [rd EXCEPT ![r].pc = "enqueue"]
       PROVE  Only(r) /\ ReaderInv(r)'
  <2>1. /\ Only(r) /\ SameRead(r) /\ rd'[r].pc = "enqueue"
        /\ rd'[r].cur = rd[r].cur /\ rd'[r].early = rd[r].early
    BY <1>1, <1>12, GoesRead, Zenon DEF ReaderPCs
  <2>2. rd'[r].pc \in Reading /\ ReaderInv(r)
    BY <2>1, Zenon DEF Reading, Bytes
  <2> QED
    BY <1>1, <2>1, <2>2, MovesInv, Zenon
<1>13. Only(r) /\ ReaderInv(r)'
  BY <1>9, <1>10, <1>11, <1>12, Zenon DEF Wait
<1>14. \A t \in Sessions : fs'[t] = fs[t] \/ fs'[t].pc = "free"
  BY <1>1, BlankType, Zenon DEF Collect
<1> QED
  BY <1>1, <1>13, <1>14, ReaderBytes, Zenon

LEMMA ReaderStepBytes ==
  ASSUME Bytes, Shape', NEW r \in Readers,
         \/ Reader(r) \/ \E geo \in Geometries, lo, hi \in 0..Size : Read(r, geo, lo, hi)
  PROVE  Bytes'
<1>1. ASSUME Only(r) /\ ReaderInv(r)', UNCHANGED <<uploaded, mem, cached, fs, shared>>
      PROVE  Bytes'
  BY <1>1, ReaderBytes, Zenon
<1>2. /\ TypeOK /\ ReaderInv(r) /\ source \in Sources /\ "storage" \in Sources /\ "storage" # "peer"
      /\ Stored \in Geometries
  BY ChunkAssumption, Zenon DEF Bytes, Shape, TypeOK, Geometries, Sources
<1>3. 1 \in 0..2 /\ 2 \in 0..2 /\ FALSE \in BOOLEAN
  OBVIOUS
<1>4. ASSUME NEW geo \in Geometries, NEW lo \in 0..Size, NEW hi \in 0..Size, Read(r, geo, lo, hi)
      PROVE  Bytes'
  <2>1. /\ Slice(r, geo, source, 1, lo, hi, FALSE) /\ UNCHANGED <<uploaded, mem, cached, fs, shared>>
        /\ source = "storage" => geo = Stored
    BY <1>2, <1>4, Zenon DEF Read, Resolves
  <2>2. Only(r) /\ ReaderInv(r)'
    BY <1>2, <1>3, <2>1, SliceInv, ZenonT(60)
  <2> QED
    BY <1>1, <1>2, <2>1, <2>2, Zenon
<1>5. CASE Enqueue(r)
  <2>1. /\ rd[r].pc = "enqueue" /\ rd' = [rd EXCEPT ![r].pc = "sleep"] /\ "sleep" \in ReaderPCs
        /\ UNCHANGED <<uploaded, mem, cached, fs, shared>>
    BY <1>5, Zenon DEF Enqueue, ReaderPCs
  <2>2. /\ Only(r) /\ SameRead(r) /\ rd'[r].pc = "sleep"
        /\ rd'[r].cur = rd[r].cur /\ rd'[r].early = rd[r].early
    BY <1>2, <2>1, GoesRead, Zenon
  <2>3. rd[r].pc \in Reading /\ rd'[r].pc \in Reading
    BY <2>1, <2>2, Zenon DEF Reading
  <2>4. ReaderInv(r)'
    BY <1>2, <2>1, <2>2, <2>3, MovesInv, Zenon
  <2> QED
    BY <1>1, <1>2, <2>1, <2>2, <2>4, Zenon
<1>6. CASE SliceDirect(r)
  <2>1. /\ rd[r].pc = "slice" /\ Returns(r, rd[r].lo, rd[r].hi, rd[r].early)
        /\ UNCHANGED <<uploaded, mem, cached, fs, shared>>
    BY <1>6, Zenon DEF SliceDirect
  <2>2. \A b \in Chunk(rd[r].lo, rd[r].hi) : b < rd[r].cur
    <3>1. rd[r].hi <= rd[r].cur /\ rd[r].hi \in Nat /\ rd[r].cur \in Nat
      BY <1>2, <2>1, ReaderRanges, Zenon DEF Bytes, Shape, ReaderShape
    <3>2. \A b \in Chunk(rd[r].lo, rd[r].hi) : b \in Nat /\ b < rd[r].hi
      BY ChunkBlocks, BlockTypes, Zenon
    <3> QED
      BY <3>1, <3>2
  <2>3. \A b \in Chunk(rd[r].lo, rd[r].hi) : b \in cached \/ (b \in rd[r].early /\ mem[b] # "none")
    BY <1>2, <2>1, <2>2, Zenon DEF ReaderInv, Taken
  <2>4. \A b \in Chunk(rd[r].lo, rd[r].hi) : mem[b] \in {"none", "good", "bad"}
    BY <1>2, ChunkBlocks, Zenon DEF TypeOK
  <2>5. Sound(rd[r].lo, rd[r].hi, rd[r].early)
    BY <2>3, <2>4, Zenon DEF Bytes, CachedGood, Sound
  <2>6. Only(r) /\ ReaderInv(r)'
    BY <1>2, <2>1, <2>5, ReturnsInv, Zenon
  <2> QED
    BY <1>1, <2>1, <2>6, Zenon
<1>7. CASE Recover(r)
  <2>1. /\ rd[r].lo \in 0..Size /\ rd[r].hi \in 0..Size /\ rd[r].cancelled \in BOOLEAN
        /\ UNCHANGED <<uploaded, mem, cached, fs, shared>>
    BY <1>2, <1>7, ReaderTypes, Zenon DEF Recover, Reload
  <2>2. CASE Slice(r, Stored, "storage", 2, rd[r].lo, rd[r].hi, rd[r].cancelled)
    <3>1. Only(r) /\ ReaderInv(r)'
      BY <1>2, <1>3, <2>1, <2>2, SliceInv, ZenonT(60)
    <3> QED
      BY <1>1, <2>1, <3>1, Zenon
  <2>3. CASE Fails(r, "failed")
    <3>1. "failed" \in Errors \cup {None}
      BY Zenon DEF Errors
    <3>2. Only(r) /\ ReaderInv(r)'
      BY <2>3, <3>1, FailsInv, Zenon
    <3> QED
      BY <1>1, <2>1, <3>2, Zenon
  <2> QED
    BY <1>7, <2>2, <2>3, Zenon DEF Recover, Reload
<1> QED
  BY <1>4, <1>5, <1>6, <1>7, LookupBytes, WaitBytes, Zenon DEF Reader

LEMMA CancelBytes ==
  ASSUME Bytes, Shape', NEW r \in Readers, Cancel(r)
  PROVE  Bytes'
<1>1. UNCHANGED <<uploaded, mem, cached, fs, shared>>
  BY Zenon DEF Cancel
<1>2. ASSUME NEW q \in Readers PROVE ReaderInv(q)'
  <2>1. Stays(q, rd[r].s) /\ ReaderInv(q) /\ Grows
    BY <1>1, CancelWakes, Zenon DEF Bytes, Shape, Grows
  <2> QED
    BY <2>1, StaysInv, Zenon
<1>3. \A t \in Sessions : KeepsPlace(t) /\ SessionInv(t)'
  BY <1>1, SteadySession, Zenon DEF Bytes
<1> QED
  BY <1>1, <1>2, <1>3, SteadyBytes, Zenon

(* Readers when a session moves. *)
LEMMA AudienceInv ==
  ASSUME Bytes, NEW s, rd' = Broadcast(s, rd) \/ UNCHANGED rd, Grows
  PROVE  \A q \in Readers : ReaderInv(q)'
<1> SUFFICES ASSUME NEW q \in Readers PROVE ReaderInv(q)'
  BY Zenon
<1>1. TypeOK /\ ReaderInv(q)
  BY Zenon DEF Bytes, Shape
<1>2. Stays(q, s)
  BY <1>1, BroadcastWakes, StaysPut, Zenon
<1> QED
  BY <1>1, <1>2, StaysInv, Zenon

LEMMA SessionBytes ==
  ASSUME Bytes, Shape', NEW s \in Sessions, Alters(s), SessionInv(s)', KeepsPlace(s),
         UNCHANGED <<uploaded, mem, cached, shared>>, rd' = Broadcast(s, rd) \/ UNCHANGED rd
  PROVE  Bytes'
<1>1. Grows
  BY Zenon DEF Grows
<1>2. \A q \in Readers : ReaderInv(q)'
  BY <1>1, AudienceInv, Zenon
<1>3. \A t \in Sessions \ {s} : KeepsPlace(t) /\ SessionInv(t)'
  BY SteadySession, Zenon DEF Bytes, Alters
<1> QED
  BY <1>2, <1>3, SteadyBytes, Zenon

LEMMA SessionParts ==
  ASSUME Bytes, NEW s \in Sessions, fs[s].pc # "free"
  PROVE  /\ Framed(s) /\ Underway(s) /\ Clean(s) /\ Written(s) /\ Ended(s) /\ TypeOK
         /\ fs[s].geo \in Geometries /\ Part(s) \subseteq Blocks
  BY SessionTypes, ChunkBlocks, Zenon DEF Bytes, SessionInv, Shape, Part

LEMMA FailBytes ==
  ASSUME Bytes, Shape', NEW s \in Sessions, NEW e \in Errors, Fail(s, e),
         fs[s].pc \in {"open", "read"}, UNCHANGED <<uploaded, mem, cached, shared>>
  PROVE  Bytes'
<1>1. /\ Framed(s) /\ Underway(s) /\ Written(s) /\ Ended(s) /\ TypeOK
      /\ fs[s].pc \notin {"free", "over", "release"}
  BY SessionParts, Zenon
<1>2. /\ Alters(s) /\ fs'[s].upstream = fs[s].upstream /\ fs'[s].ready = fs[s].ready
      /\ fs'[s].pc = "release" /\ fs'[s].done = TRUE /\ fs'[s].err = e /\ fs'[s].wrote = fs[s].lo
  BY <1>1, FailSession, Zenon
<1>3. /\ fs'[s].geo = fs[s].geo /\ fs'[s].lo = fs[s].lo /\ fs'[s].hi = fs[s].hi /\ Part(s)' = Part(s)
  BY <1>2, Zenon DEF Alters, Part
<1>4. e # None /\ ~fs[s].done
  BY <1>1, NoneAssumption, Zenon DEF Underway
<1>5. fs[s].lo <= fs[s].lo
  <2>1. fs[s].lo \in Nat
    BY <1>1, SessionRanges, Zenon
  <2> QED
    BY <2>1
<1>6. ~Running(s)'
  BY <1>2, Zenon DEF Running
<1>7. Framed(s)' /\ Underway(s)' /\ Clean(s)'
  BY <1>1, <1>2, <1>3, <1>5, <1>6, Zenon DEF Framed, Underway, Clean
<1>8. Written(s)' /\ Ended(s)'
  BY <1>1, <1>2, <1>3, <1>4, Zenon DEF Written, Ended, Settled
<1>9. SessionInv(s)' /\ KeepsPlace(s)
  BY <1>1, <1>3, <1>6, <1>7, <1>8, Zenon DEF SessionInv, KeepsPlace
<1>10. rd' = Broadcast(s, rd)
  BY Zenon DEF Fail
<1> QED
  BY <1>2, <1>9, <1>10, SessionBytes, Zenon

(* A session of which only the place and the source change. *)
LEMMA GoesOn ==
  ASSUME Bytes, Shape', NEW s \in Sessions, Alters(s), KeepsOutcome(s), KeepsMarks(s),
         Running(s), fs[s].pc \in {"open", "read"}, fs'[s].pc \in {"read", "cache"},
         fs[s].pc = "open" => fs'[s].pc = "read",
         fs'[s].pc = "cache" => fs[s].wrote = fs[s].hi /\ fs[s].intact,
         fs'[s].upstream = "storage" => fs[s].geo = Stored,
         UNCHANGED <<uploaded, mem, cached, shared, rd>>
  PROVE  Bytes'
<1>1. Framed(s) /\ Underway(s) /\ Clean(s) /\ Written(s) /\ Ended(s)
  BY SessionParts, Zenon
<1>2. /\ fs'[s].geo = fs[s].geo /\ fs'[s].lo = fs[s].lo /\ fs'[s].hi = fs[s].hi
      /\ fs'[s].wrote = fs[s].wrote /\ fs'[s].ready = fs[s].ready /\ fs'[s].intact = fs[s].intact
      /\ fs'[s].done = fs[s].done /\ fs'[s].err = fs[s].err /\ Part(s)' = Part(s)
  BY Zenon DEF Alters, KeepsMarks, KeepsOutcome, Part
<1>3. /\ fs'[s].pc \notin {"free", "over", "open", "done"} /\ fs[s].pc \notin {"free", "over", "done"}
      /\ fs[s].pc = "open" => \A b \in Part(s) : ~(b < fs[s].wrote)
  BY <1>1, Zenon DEF Framed
<1>4. Framed(s)' /\ Underway(s)' /\ Clean(s)'
  BY <1>1, <1>2, <1>3, Zenon DEF Framed, Underway, Clean
<1>5. Written(s)'
  BY <1>1, <1>2, <1>3, Zenon DEF Written
<1>6. Ended(s)'
  BY <1>1, <1>2, <1>3, Zenon DEF Ended, Settled
<1>7. SessionInv(s)' /\ KeepsPlace(s)
  BY <1>2, <1>3, <1>4, <1>5, <1>6, Zenon DEF SessionInv, KeepsPlace
<1> QED
  BY <1>7, SessionBytes, Zenon

LEMMA OpenBytes ==
  ASSUME Bytes, Shape', NEW s \in Sessions, Open(s)
  PROVE  Bytes'
<1>1. fs[s].pc = "open" /\ UNCHANGED <<uploaded, mem, cached, shared>> /\ TypeOK /\ Underway(s)
  BY SessionParts, Zenon DEF Open
<1>2. CASE Opens(s) /\ fs' = [fs EXCEPT ![s].pc = "read"] /\ UNCHANGED rd
  <2>1. /\ Alters(s) /\ KeepsOutcome(s) /\ KeepsMarks(s) /\ fs'[s].pc = "read"
        /\ fs'[s].upstream = fs[s].upstream
    BY <1>1, <1>2, GoesSession, Zenon DEF SessionPCs
  <2>2. Running(s) /\ (fs'[s].upstream = "storage" => fs[s].geo = Stored)
    BY <1>1, <1>2, <2>1, Zenon DEF Running, Yields, Opens, Underway
  <2> QED
    BY <1>1, <1>2, <2>1, <2>2, GoesOn, Zenon
<1>3. CASE /\ fs[s].upstream = "peer" /\ ~uploaded /\ fs[s].geo = Stored
           /\ fs' = [fs EXCEPT ![s].pc = "read", ![s].upstream = "storage"] /\ UNCHANGED rd
  <2>1. Alters(s) /\ KeepsOutcome(s) /\ KeepsMarks(s) /\ fs'[s].pc = "read"
    BY <1>1, <1>3, BaseSession, Zenon
  <2>2. Running(s)
    BY <1>1, <1>3, Zenon DEF Running, Yields
  <2> QED
    BY <1>1, <1>3, <2>1, <2>2, GoesOn, Zenon
<1>4. CASE Fail(s, IF fs[s].upstream = "peer" /\ uploaded THEN "transitioned" ELSE "failed")
  BY <1>1, <1>4, FailBytes, Zenon DEF Errors
<1> QED
  BY <1>2, <1>3, <1>4, Zenon DEF Open

LEMMA VerifyBytes ==
  ASSUME Bytes, Shape', NEW s \in Sessions, Verify(s)
  PROVE  Bytes'
<1>1. /\ fs[s].pc = "read" /\ fs[s].wrote = fs[s].hi /\ UNCHANGED <<uploaded, mem, cached, shared>>
      /\ TypeOK /\ Underway(s)
  BY SessionParts, Zenon DEF Verify
<1>2. CASE fs[s].intact /\ fs' = [fs EXCEPT ![s].pc = "cache"] /\ UNCHANGED rd
  <2>1. /\ Alters(s) /\ KeepsOutcome(s) /\ KeepsMarks(s) /\ fs'[s].pc = "cache"
        /\ fs'[s].upstream = fs[s].upstream
    BY <1>1, <1>2, GoesSession, Zenon DEF SessionPCs
  <2>2. Running(s) /\ (fs'[s].upstream = "storage" => fs[s].geo = Stored)
    BY <1>1, <2>1, Zenon DEF Running, Yields, Underway
  <2> QED
    BY <1>1, <1>2, <2>1, <2>2, GoesOn, Zenon
<1>3. CASE Fail(s, "failed")
  BY <1>1, <1>3, FailBytes, Zenon DEF Errors
<1> QED
  BY <1>2, <1>3, Zenon DEF Verify

LEMMA ReceiveBytes ==
  ASSUME Bytes, Shape', NEW s \in Sessions, NEW v \in {"good", "bad"}, Receive(s, v)
  PROVE  Bytes'
<1> DEFINE w == fs[s].wrote
<1>1. /\ fs[s].pc = "read" /\ w < fs[s].hi
      /\ mem' = [mem EXCEPT ![w] = v] /\ UNCHANGED <<uploaded, cached, shared>>
      /\ rd' = Broadcast(s, rd) \/ UNCHANGED rd
  BY Zenon DEF Receive, More
<1>2. /\ Framed(s) /\ Underway(s) /\ Clean(s) /\ Written(s) /\ Ended(s) /\ TypeOK
      /\ fs[s].geo \in Geometries /\ Part(s) \subseteq Blocks /\ Running(s)
  BY <1>1, SessionParts, Zenon DEF Running, Yields
<1>3. /\ Alters(s) /\ KeepsOutcome(s) /\ fs'[s].pc = "read" /\ fs'[s].wrote = w + 1
      /\ fs'[s].upstream = fs[s].upstream
      /\ fs'[s].intact = (fs[s].intact /\ v = "good")
      /\ fs'[s].ready = IF fs[s].geo = "chunk" THEN w + 1 ELSE fs[s].ready
  BY <1>2, ReceiveSession, Zenon
<1>4. /\ fs'[s].geo = fs[s].geo /\ fs'[s].lo = fs[s].lo /\ fs'[s].hi = fs[s].hi
      /\ fs'[s].done = fs[s].done /\ fs'[s].err = fs[s].err /\ Part(s)' = Part(s)
  BY <1>3, Zenon DEF Alters, KeepsOutcome, Part
<1>5. /\ w \in Nat /\ fs[s].lo \in Nat /\ fs[s].hi \in Nat /\ fs[s].hi <= Size /\ fs[s].lo <= w
  BY <1>2, SessionRanges, Zenon DEF Framed
<1>6. /\ w < Size /\ fs[s].lo <= w + 1
      /\ \A b \in Nat : b < w + 1 => b < w \/ b = w
  BY <1>1, <1>5, SizeTypes
<1>7. w \in Blocks /\ w \in Part(s) /\ (w \in cached => w \in shared)
  <2>1. w \in Blocks
    BY <1>5, <1>6, BlockTypes, Zenon
  <2>2. w \in Part(s)
    BY <1>1, <1>5, <2>1, Zenon DEF Part, Chunk
  <2> QED
    BY <1>1, <1>2, <2>1, <2>2, Zenon DEF Clean
<1>8. \A b \in Part(s) : b < w + 1 => b < w \/ b = w
  BY <1>2, <1>6, BlockTypes, Zenon
<1> HIDE DEF w
<1>9. mem'[w] = v /\ v # "none" /\ \A b \in Blocks : b # w => mem'[b] = mem[b]
  BY <1>1, <1>2, <1>7, Zenon DEF TypeOK
<1>10. Grows
  BY <1>1, <1>9, Zenon DEF Grows
<1>11. \A b \in Part(s) : b < w + 1 =>
         mem'[b] # "none" /\ (fs'[s].intact => mem'[b] = "good" \/ b \in shared)
  <2>1. SUFFICES ASSUME NEW b \in Part(s), b < w + 1
                 PROVE  mem'[b] # "none" /\ (fs'[s].intact => mem'[b] = "good" \/ b \in shared)
    BY Zenon
  <2>2. CASE b = w
    BY <1>3, <1>9, <2>2, Zenon
  <2>3. CASE b # w
    <3>1. b < w /\ b \in Blocks
      BY <1>2, <1>8, <2>1, <2>3, Zenon
    <3>2. mem[b] # "none" /\ (fs[s].intact => mem[b] = "good" \/ b \in shared)
      BY <1>1, <1>2, <3>1, Zenon DEF Written, w
    <3> QED
      BY <1>3, <1>9, <2>3, <3>1, <3>2, Zenon
  <2> QED
    BY <2>2, <2>3, Zenon
<1>12. \A b \in Part(s) : b < fs'[s].ready => mem'[b] # "none"
  <2>1. CASE fs[s].geo = "chunk"
    BY <1>3, <1>11, <2>1, Zenon
  <2>2. CASE fs[s].geo # "chunk"
    BY <1>2, <1>3, <1>10, <2>2, Zenon DEF Written, Grows
  <2> QED
    BY <2>1, <2>2, Zenon
<1>13. Framed(s)' /\ Underway(s)' /\ Clean(s)'
  BY <1>1, <1>2, <1>3, <1>4, <1>6, Zenon DEF Framed, Underway, Clean
<1>14. Written(s)'
  BY <1>1, <1>3, <1>4, <1>11, <1>12, Zenon DEF Written
<1>15. Ended(s)'
  BY <1>1, <1>2, <1>3, <1>4, Zenon DEF Ended, Settled
<1>16. SessionInv(s)' /\ KeepsPlace(s)
  BY <1>1, <1>2, <1>4, <1>13, <1>14, <1>15, Zenon DEF SessionInv, KeepsPlace
<1>17. ASSUME NEW t \in Sessions \ {s} PROVE KeepsPlace(t) /\ SessionInv(t)'
  <2>1. fs'[t] = fs[t] /\ SessionInv(t)
    BY <1>3, Zenon DEF Alters, Bytes
  <2>2. ASSUME fs[t].pc \in {"read", "cache"}, NEW b \in Part(t)
        PROVE  mem'[b] = mem[b] \/ b \in shared
    <3>1. s \in Listed /\ t \in Listed /\ s # t /\ Running(t)
      BY <1>1, <2>2, Zenon DEF Listed, Running, Yields
    <3>2. Part(s) \cap Part(t) \subseteq shared
      BY <1>2, <3>1, Zenon DEF Bytes, Apart, Disjoint
    <3>3. b \in Blocks
      BY <2>2, ChunkBlocks, Zenon DEF Part
    <3> QED
      BY <1>7, <1>9, <2>2, <3>2, <3>3, Zenon
  <2>3. Running(t)' => Running(t)
    BY <1>1, <2>1, Zenon DEF Running, Yields
  <2>4. fs[t].pc # "free" => Clean(t)'
    BY <1>1, <2>1, <2>3, Zenon DEF SessionInv, Clean, Part
  <2>5. SessionInv(t)'
    BY <1>10, <2>1, <2>2, <2>4, KeptSession, Zenon
  <2> QED
    BY <2>1, <2>3, <2>5, Zenon DEF KeepsPlace
<1>18. \A q \in Readers : ReaderInv(q)'
  BY <1>1, <1>10, AudienceInv, Zenon
<1>19. CachedGood'
  <2>1. SUFFICES ASSUME NEW b \in cached
                 PROVE  mem'[b] = "good" \/ (mem'[b] = "bad" /\ b \in shared)
    BY <1>1, Zenon DEF CachedGood
  <2>2. CASE b = w
    BY <1>7, <1>9, <2>2, Zenon
  <2>3. CASE b # w
    BY <1>2, <1>9, <2>3, Zenon DEF TypeOK, Bytes, CachedGood
  <2> QED
    BY <2>2, <2>3, Zenon
<1>20. Apart'
  BY <1>1, <1>16, <1>17, ApartKept, Zenon DEF Bytes
<1> QED
  BY <1>16, <1>17, <1>18, <1>19, <1>20, Zenon DEF Bytes

LEMMA SetIsCachedBytes ==
  ASSUME Bytes, Shape', NEW s \in Sessions, SetIsCached(s)
  PROVE  Bytes'
<1>1. /\ fs[s].pc = "cache" /\ cached' = cached \cup Part(s) /\ fs' = [fs EXCEPT ![s].pc = "done"]
      /\ UNCHANGED <<uploaded, mem, rd, shared>>
  BY Zenon DEF SetIsCached, Part
<1>2. /\ Framed(s) /\ Underway(s) /\ Written(s) /\ Ended(s) /\ TypeOK
      /\ Part(s) \subseteq Blocks /\ Running(s)
  BY <1>1, SessionParts, Zenon DEF Running, Yields
<1>3. /\ Alters(s) /\ KeepsOutcome(s) /\ KeepsMarks(s) /\ fs'[s].pc = "done"
      /\ fs'[s].upstream = fs[s].upstream
  BY <1>1, <1>2, GoesSession, Zenon DEF SessionPCs
<1>4. /\ fs'[s].geo = fs[s].geo /\ fs'[s].lo = fs[s].lo /\ fs'[s].hi = fs[s].hi
      /\ fs'[s].wrote = fs[s].wrote /\ fs'[s].ready = fs[s].ready /\ Part(s)' = Part(s)
      /\ fs'[s].done = fs[s].done /\ fs'[s].err = fs[s].err
  BY <1>3, Zenon DEF Alters, KeepsMarks, KeepsOutcome, Part
<1>5. Grows
  BY <1>1, Zenon DEF Grows
<1>6. SessionInv(s)' /\ KeepsPlace(s)
  <2>1. Framed(s)' /\ Underway(s)' /\ Clean(s)'
    BY <1>1, <1>2, <1>3, <1>4, Zenon DEF Framed, Underway, Clean
  <2>2. Written(s)' /\ Ended(s)'
    BY <1>1, <1>2, <1>3, <1>4, Zenon DEF Written, Ended, Settled
  <2> QED
    BY <1>1, <1>2, <1>4, <2>1, <2>2, Zenon DEF SessionInv, KeepsPlace
<1>7. ASSUME NEW t \in Sessions \ {s} PROVE KeepsPlace(t) /\ SessionInv(t)'
  <2>1. fs'[t] = fs[t] /\ SessionInv(t) /\ Part(t)' = Part(t)
    BY <1>3, Zenon DEF Alters, Bytes, Part
  <2>2. Running(t)' => Running(t)
    BY <1>1, <2>1, Zenon DEF Running, Yields
  <2>3. ASSUME Running(t), fs[t].pc # "done" PROVE Part(t) \cap cached' \subseteq shared
    <3>1. s \in Listed /\ t \in Listed /\ s # t /\ fs[t].pc # "free"
      BY <1>1, <2>3, Zenon DEF Listed, Running
    <3>2. Part(s) \cap Part(t) \subseteq shared
      BY <1>2, <2>3, <3>1, Zenon DEF Bytes, Apart, Disjoint
    <3>3. Part(t) \cap cached \subseteq shared
      BY <2>1, <2>3, <3>1, Zenon DEF SessionInv, Clean
    <3> QED
      BY <1>1, <3>2, <3>3, Zenon
  <2>4. Clean(t)'
    BY <1>1, <2>1, <2>2, <2>3, Zenon DEF Clean
  <2>5. SessionInv(t)'
    BY <1>1, <1>5, <2>1, <2>4, KeptSession, Zenon
  <2> QED
    BY <2>1, <2>2, <2>5, Zenon DEF KeepsPlace
<1>8. \A q \in Readers : ReaderInv(q)'
  BY <1>1, <1>5, AudienceInv, Zenon
<1>9. CachedGood'
  <2>1. \A b \in Part(s) : b < fs[s].hi
    BY ChunkBlocks, Zenon DEF Part
  <2>2. \A b \in Part(s) : mem[b] # "none" /\ (mem[b] = "good" \/ b \in shared)
    BY <1>1, <1>2, <2>1, Zenon DEF Written
  <2>3. \A b \in Part(s) : mem[b] \in {"none", "good", "bad"}
    BY <1>2, Zenon DEF TypeOK
  <2>4. \A b \in Part(s) : mem[b] = "good" \/ (mem[b] = "bad" /\ b \in shared)
    BY <2>2, <2>3, Zenon
  <2> QED
    BY <1>1, <2>4, Zenon DEF Bytes, CachedGood
<1>10. Apart'
  BY <1>1, <1>6, <1>7, ApartKept, Zenon DEF Bytes
<1> QED
  BY <1>6, <1>7, <1>8, <1>9, <1>10, Zenon DEF Bytes

LEMMA SetDoneBytes ==
  ASSUME Bytes, Shape', NEW s \in Sessions, SetDone(s)
  PROVE  Bytes'
<1>1. fs[s].pc = "done" /\ UNCHANGED <<uploaded, mem, cached, shared>> /\ rd' = Broadcast(s, rd)
  BY Zenon DEF SetDone
<1>2. Framed(s) /\ Underway(s) /\ Written(s) /\ Ended(s) /\ TypeOK
  BY <1>1, SessionParts, Zenon
<1>3. /\ Alters(s) /\ fs'[s].pc = "release" /\ fs'[s].done = TRUE /\ fs'[s].err = fs[s].err
      /\ fs'[s].wrote = fs[s].wrote /\ fs'[s].upstream = fs[s].upstream
  BY <1>2, DoneSession, Zenon
<1>4. /\ fs'[s].geo = fs[s].geo /\ fs'[s].lo = fs[s].lo /\ fs'[s].hi = fs[s].hi /\ Part(s)' = Part(s)
      /\ fs[s].err = None /\ Part(s) \subseteq cached
  BY <1>1, <1>2, <1>3, Zenon DEF Alters, Part, Underway, Ended
<1>5. \A b \in Part(s) : mem[b] # "none"
  BY <1>4, Zenon DEF Bytes, CachedGood
<1>6. ~Running(s)'
  BY <1>3, Zenon DEF Running
<1>7. Framed(s)' /\ Underway(s)' /\ Clean(s)'
  BY <1>1, <1>2, <1>3, <1>4, <1>6, Zenon DEF Framed, Underway, Clean
<1>8. Written(s)' /\ Ended(s)'
  BY <1>1, <1>3, <1>4, <1>5, Zenon DEF Written, Ended, Settled
<1>9. SessionInv(s)' /\ KeepsPlace(s)
  BY <1>1, <1>4, <1>6, <1>7, <1>8, Zenon DEF SessionInv, KeepsPlace
<1> QED
  BY <1>1, <1>3, <1>9, SessionBytes, Zenon

LEMMA ReleaseBytes ==
  ASSUME Bytes, Shape', NEW s \in Sessions, ReleaseSession(s)
  PROVE  Bytes'
<1>1. fs[s].pc = "release" /\ UNCHANGED <<uploaded, mem, cached, rd, shared>> /\ Grows
  BY Zenon DEF ReleaseSession, Grows
<1>2. Framed(s) /\ Underway(s) /\ Written(s) /\ Ended(s) /\ TypeOK
  BY <1>1, SessionParts, Zenon
<1>3. ASSUME NEW t \in Sessions, fs'[t] = fs[t] \/ fs'[t].pc = "free"
      PROVE  KeepsPlace(t) /\ SessionInv(t)'
  BY <1>1, <1>3, SteadySession, Zenon DEF Bytes
<1>4. ASSUME fs'[s].pc = "over", fs'[s].geo = fs[s].geo, fs'[s].lo = fs[s].lo, fs'[s].hi = fs[s].hi,
             fs'[s].upstream = fs[s].upstream, KeepsOutcome(s), KeepsMarks(s)
      PROVE  KeepsPlace(s) /\ SessionInv(s)'
  <2>1. /\ fs'[s].wrote = fs[s].wrote /\ fs'[s].ready = fs[s].ready /\ Part(s)' = Part(s)
        /\ fs'[s].done = fs[s].done /\ fs'[s].err = fs[s].err
    BY <1>4, Zenon DEF KeepsMarks, KeepsOutcome, Part
  <2>2. ~Running(s)'
    BY <1>4, Zenon DEF Running
  <2>3. Framed(s)' /\ Underway(s)' /\ Clean(s)'
    BY <1>1, <1>2, <1>4, <2>1, <2>2, Zenon DEF Framed, Underway, Clean
  <2>4. Written(s)' /\ Ended(s)'
    BY <1>1, <1>2, <1>4, <2>1, Zenon DEF Written, Ended, Settled
  <2> QED
    BY <1>4, <2>3, <2>4, Zenon DEF SessionInv, KeepsPlace
<1>5. \A t \in Sessions : KeepsPlace(t) /\ SessionInv(t)'
  BY <1>2, <1>3, <1>4, ReleasedSession, BlankType, ZenonT(30)
<1>6. \A q \in Readers : ReaderInv(q)'
  BY <1>1, AudienceInv, Zenon
<1> QED
  BY <1>1, <1>5, <1>6, SteadyBytes, Zenon

LEMMA FetchBytes ==
  ASSUME Bytes, Shape', NEW s \in Sessions, RunFetch(s)
  PROVE  Bytes'
<1>1. CASE Breaks(s)
  <2>1. "failed" \in Errors
    BY Zenon DEF Errors
  <2> QED
    BY <1>1, <2>1, FailBytes, Zenon DEF Breaks
<1> QED
  BY <1>1, OpenBytes, ReceiveBytes, VerifyBytes, SetIsCachedBytes, SetDoneBytes, ReleaseBytes, Zenon
     DEF RunFetch

LEMMA InitBytes == Init => Bytes
<1> SUFFICES ASSUME Init PROVE Bytes
  BY Zenon
<1>1. /\ cached = {} /\ (\A s \in Sessions : fs[s] = Blank)
      /\ \A r \in Readers : rd[r] = Idle
  BY Zenon DEF Init
<1>2. \A s \in Sessions : fs[s].pc = "free"
  BY <1>1, BlankType, Zenon
<1>3. CachedGood
  BY <1>1, Zenon DEF CachedGood
<1>4. Apart /\ \A s \in Sessions : SessionInv(s)
  BY <1>2, Zenon DEF Apart, Listed, SessionInv
<1>5. ASSUME NEW r \in Readers PROVE ReaderInv(r)
  <2>1. Idle.pc = "idle" /\ Idle.upstream = "peer" /\ Idle.unwritten = {} /\ Idle.corrupt = {}
    BY Zenon DEF Idle
  <2>2. rd[r].pc = "idle" /\ rd[r].upstream = "peer" /\ rd[r].unwritten = {} /\ rd[r].corrupt = {}
    BY <1>1, <2>1, Zenon
  <2>3. Taken(r)
    BY <2>2, Zenon DEF Taken, Reading
  <2> QED
    BY <2>2, <2>3, Zenon DEF ReaderInv, Verified
<1> QED
  BY <1>3, <1>4, <1>5, InitShape, Zenon DEF Bytes

LEMMA StepBytes == Bytes /\ [Next]_vars => Bytes'
<1> SUFFICES ASSUME Bytes, [Next]_vars PROVE Bytes'
  BY Zenon
<1>1. Shape'
  BY StepShape, Zenon DEF Bytes
<1>2. ASSUME UNCHANGED <<mem, cached, fs, rd, shared>>, uploaded => uploaded' PROVE Bytes'
  <2>1. Grows
    BY <1>2, Zenon DEF Grows
  <2>2. \A q \in Readers : ReaderInv(q)'
    BY <1>2, <2>1, AudienceInv, Zenon
  <2>3. \A t \in Sessions : KeepsPlace(t) /\ SessionInv(t)'
    BY <1>2, SteadySession, Zenon DEF Bytes
  <2> QED
    BY <1>1, <1>2, <2>2, <2>3, SteadyBytes, Zenon
<1>3. CASE UseStorage
  BY <1>2, <1>3, Zenon DEF UseStorage
<1>4. CASE UNCHANGED vars
  <2>1. UNCHANGED <<mem, cached, fs, rd, shared>> /\ (uploaded => uploaded')
    BY <1>4, Zenon DEF vars
  <2> QED
    BY <1>2, <2>1, Zenon
<1> QED
  BY <1>1, <1>3, <1>4, ReaderStepBytes, CancelBytes, FetchBytes, Zenon DEF Next

(* A read of Chunker.Slice returns bytes of the build, never unwritten      *)
(* ones, and corrupt ones only where it took a block of a stream before its *)
(* end, or where a frame and the chunk around it were fetched together: for *)
(* all sizes, also where frames do not divide chunks.                       *)
THEOREM ReadsAreVerified == Spec => []ReadsVerified
<1>1. Bytes => ReadsVerified
  BY Zenon DEF Bytes, ReaderInv, Verified, ReadsVerified
<1> QED
  BY <1>1, InitBytes, StepBytes, PTL DEF Spec

(* What setIsCached has marked stays written, and verified except where a   *)
(* frame and the chunk around it were fetched together.                     *)
THEOREM CacheVerified == Spec => []CachedGood
<1>1. Bytes => CachedGood
  BY Zenon DEF Bytes
<1> QED
  BY <1>1, InitBytes, StepBytes, PTL DEF Spec

(* getOrCreateSession lets no two fetches of one geometry have a block in   *)
(* common, nor two fetches from storage.                                    *)
THEOREM FetchesApart == Spec => []OneFetch
<1>1. Bytes => OneFetch
  <2> SUFFICES ASSUME Bytes, NEW s \in Listed, NEW t \in Listed, s # t, Part(s) \cap Part(t) # {}
               PROVE  fs[s].geo # fs[t].geo /\ "peer" \in {fs[s].upstream, fs[t].upstream}
    BY Zenon DEF OneFetch, Part
  <2>1. s \in Sessions /\ t \in Sessions /\ fs[s].pc # "free" /\ fs[t].pc # "free"
    BY Zenon DEF Listed
  <2>2. fs[s].geo # fs[t].geo
    BY <2>1, Zenon DEF Bytes, Apart, Disjoint
  <2>3. /\ fs[s].upstream \in Sources /\ fs[t].upstream \in Sources
        /\ Underway(s) /\ Underway(t)
    BY <2>1, SessionTypes, SessionParts, Zenon
  <2>4. ~(fs[s].upstream = "storage" /\ fs[t].upstream = "storage")
    BY <2>2, <2>3, Zenon DEF Underway
  <2> QED
    BY <2>2, <2>3, <2>4, Zenon DEF Sources
<1> QED
  BY <1>1, InitBytes, StepBytes, PTL DEF Spec
=============================================================================
