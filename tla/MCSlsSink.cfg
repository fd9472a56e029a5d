SPECIFICATION Spec
CONSTANTS
  Record = {1, 2, 3, 4}
  Capacity = 1
  DropOldest = TRUE
  Slot = {s1, s2}
  MaxBatch = 2
  MaxBytes = 5
  Overhead = 1
  Sizes = {1, 3}
  MaxRetries = 1
SYMMETRY SlotSymmetry
INVARIANTS
  NothingLost
  DoneSettlesAll
  CountersExact
  DispatchInOrder
  GroupsWithinLimits
PROPERTIES
  SettledOnce
  NoDropBeforeDeadline
