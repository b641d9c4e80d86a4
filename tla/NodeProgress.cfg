SPECIFICATION FairSpec
CONSTANTS
  r1 = r1  r2 = r2  r3 = r3  ip1 = ip1  ip2 = ip2
  Callers = {r1, r2}
  NoCaller = NoCaller
  Limits = {1, 2}
  SandboxIDs = {"a"}
  IPs = {ip1}
  NoIP = NoIP
  MaxBoots = 1
  MaxRunning = 1
INVARIANT PermitsCounted
PROPERTIES CountsPermits HandlersReturn
\* Every handler may be idle and every lifecycle used up.
CHECK_DEADLOCK FALSE
