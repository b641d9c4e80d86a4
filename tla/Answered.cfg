SPECIFICATION FairSpec
CONSTANTS
  r1 = r1  r2 = r2  r3 = r3  e1 = e1  x0 = x0  n1 = n1  n2 = n2
  None = None
  Reqs = {r1, r2}
  Evictors = {}
  Procs = {r1, r2}
  Execs = {r1, r2, x0}
  Nodes = {n1}
  FirstExec = x0  FirstNode = n1  FirstAuto = TRUE  FirstPaused = FALSE  FirstSnaps = {x0}
  Timeout = 1  StaleCutoff = 1
  MaxTime = 0  MaxFaults = 1  Slow = FALSE
  Ops = {"kill", "pause", "resume", "checkpoint", "extend"}
PROPERTY Answered
\* Every request may have been served and nothing be left to do.
CHECK_DEADLOCK FALSE
