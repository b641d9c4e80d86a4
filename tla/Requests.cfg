SPECIFICATION Spec
CONSTANTS
  r1 = r1  r2 = r2  r3 = r3  e1 = e1  x0 = x0  n1 = n1  n2 = n2
  None = None
  Reqs = {r1, r2, r3}
  Evictors = {}
  Procs = {r1, r2, r3}
  Execs = {r1, r2, r3, x0}
  Nodes = {n1}
  FirstExec = x0  FirstNode = n1  FirstAuto = TRUE  FirstPaused = FALSE  FirstSnaps = {None, x0}
  Timeout = 1  StaleCutoff = 1
  MaxTime = 0  MaxFaults = 0  Slow = FALSE
  Ops = {"kill", "adminKill", "pause", "resume", "checkpoint", "extend"}
SYMMETRY MCSymmetry
INVARIANTS TypeOK SingleOwner IndexAgrees PausedIsResumable
\* Every request may have been served and nothing be left to do.
CHECK_DEADLOCK FALSE
