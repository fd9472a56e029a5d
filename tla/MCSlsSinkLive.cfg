SPECIFICATION FairSpec
CONSTANTS
  Record = {1, 2, 3}
  Capacity = 1
  DropOldest = FALSE
  Slot = {s1}
  MaxBatch = 2
  MaxBytes = 5
  Overhead = 1
  Sizes = {1, 3, 5}
  MaxRetries = 1
PROPERTIES
  ShutdownCompletes
  AcceptedIsSettled
