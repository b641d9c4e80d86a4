SPECIFICATION Spec
CONSTANTS
  a = a  a1 = a1  a2 = a2
  NoRecord = NoRecord
  Ids = {a}
  Execs = {a1, a2}
  SandboxOf <- TwoExecutions
  Window = 1  StaleCutoff = 1  Grace = 1
  MaxEnd = 2  MaxTime = 4  MaxFaults = 2
  Slow = FALSE
INVARIANTS TypeOK StoredIsIndexed
\* The clock stops at its bound and every execution may have come and gone.
CHECK_DEADLOCK FALSE
