SPECIFICATION OrderedSpec
CONSTANTS
  a = a  a1 = a1  a2 = a2
  NoRecord = NoRecord
  Ids = {a}
  Execs = {a1, a2}
  SandboxOf <- TwoExecutions
  Window = 1  StaleCutoff = 0  Grace = 1
  MaxEnd = 2  MaxTime = 3  MaxFaults = 1
  Slow = TRUE
PROPERTY IndexSettles
\* The clock stops at its bound and every execution may have come and gone.
CHECK_DEADLOCK FALSE
