SPECIFICATION Spec
CONSTANTS
  Record = {1, 2, 3, 4, 5}
  Capacity = 2
  DropOldest = FALSE
  Slot = {s1}
  MaxBatch = 2
  MaxBytes = 10
  Overhead = 1
  Sizes = {1}
  MaxRetries = 0
INVARIANTS
  BatchSizeIsMaximum
