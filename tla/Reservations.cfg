\* Three requests, two sandboxes and a limit of one; a start may outlive staleTTL.
SPECIFICATION FairSpec
CONSTANTS
  Procs = {p1, p2, p3}
  Sandboxes = {s1, s2}
  Limit = 1
  StaleTTL = 1
  MaxStarts = 2
  None = None
  NoResult = NoResult
INVARIANTS
  TypeOK
  LimitKept
  OneStart
  JoinedResult
PROPERTIES
  EntryKept
  ToldNoResult
  WaitersAnswered
CHECK_DEADLOCK FALSE
