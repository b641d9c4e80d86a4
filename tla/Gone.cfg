SPECIFICATION FairSpec
CONSTANTS
  r1 = r1  r2 = r2  r3 = r3  e1 = e1  x0 = x0  n1 = n1  n2 = n2
  None = None
  Reqs = {r1}
  Evictors = {e1}
  Procs = {r1, e1}
  Execs = {r1, x0}
  Nodes = {n1}
  FirstExec = x0  FirstNode = n1  FirstAuto = FALSE  FirstPaused = FALSE  FirstSnaps = {None}
  Timeout = 1  StaleCutoff = 1
  MaxTime = 3  MaxFaults = 2  Slow = FALSE
  Ops = {"kill", "pause", "checkpoint"}
PROPERTY EventuallyGone
\* Every request may have been served and nothing be left to do.
CHECK_DEADLOCK FALSE
