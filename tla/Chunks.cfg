\* Two readers of a file of two blocks: one chunk of a stream, two frames.
SPECIFICATION FairSpec
CONSTANTS
  r1 = r1  r2 = r2
  Readers = {r1, r2}
  Ranges <- MCRanges
  Cancellable = {r1}
  MaxSessions = 2
  Size = 2
  ChunkSize <- MCChunkSize
  Stored = "frame"
  None = None
INVARIANTS
  TypeOK
  ReadsVerified
  CachedGood
  OneFetch
  NoMissedWakeup
PROPERTIES
  ReadsReturn
CHECK_DEADLOCK FALSE
