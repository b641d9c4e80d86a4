SPECIFICATION Spec
CONSTANTS
  r1 = r1  r2 = r2  r3 = r3  e1 = e1  x0 = x0  n1 = n1  n2 = n2
  None = None
  Reqs = {r1, r2}
  Evictors = {e1}
  Procs = {r1, r2, e1}
  Execs = {r1, r2, x0}
  Nodes = {n1}
  FirstExec = x0  FirstNode = n1  FirstAuto = TRUE  FirstPaused = FALSE  FirstSnaps = {None}
  Timeout = 1  StaleCutoff = 1
  MaxTime = 2  MaxFaults = 1  Slow = FALSE
  Ops = {"kill", "resume", "checkpoint", "extend"}
SYMMETRY MCSymmetry
INVARIANT RemovingIsExpired
PROPERTIES RecordMoves EvictOnlyExpired StoreIsAtomic
\* Every request may have been served and nothing be left to do.
CHECK_DEADLOCK FALSE
