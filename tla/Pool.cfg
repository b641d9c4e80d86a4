\* The pool comes to rest once it is closed and nobody asks for a slot.
CHECK_DEADLOCK FALSE
SPECIFICATION FairSpec
CONSTANTS
  s1 = s1
  s2 = s2
  Sandboxes = {s1, s2}
  SlotsSize = 3
  Foreign = {2}
  NewCap = 1
  ReusedCap = 1
  MaxFaults = 2
INVARIANTS TypeOK OneOwner LeaksRecorded CloseDrains
PROPERTIES ShutdownReleases PoolRefills
