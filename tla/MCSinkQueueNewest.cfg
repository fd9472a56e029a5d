SPECIFICATION FairSpec
CONSTANTS
  Record = {r1, r2, r3}
  Capacity = 1
  DropOldest = FALSE
INVARIANTS
  NoLostWakeup
PROPERTIES
  CloseTerminates
  QueuedIsServed
