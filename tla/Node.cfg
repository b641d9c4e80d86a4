SPECIFICATION Spec
CONSTANTS
  r1 = r1  r2 = r2  r3 = r3  ip1 = ip1  ip2 = ip2
  Callers = {r1, r2}
  NoCaller = NoCaller
  Limits = {2}
  SandboxIDs = {"a"}
  IPs = {ip1, ip2}
  NoIP = NoIP
  MaxBoots = 2
  MaxRunning = 2
SYMMETRY MCSymmetry
INVARIANTS TypeOK AddressOwner SnapshotExclusive
PROPERTY NoOrphan
\* Every handler may be idle and every lifecycle used up.
CHECK_DEADLOCK FALSE
