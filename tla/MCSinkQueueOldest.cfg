SPECIFICATION Spec
CONSTANTS
  Record = {r1, r2, r3, r4}
  Capacity = 2
  DropOldest = TRUE
SYMMETRY Symmetry
INVARIANTS
  NobodyInsideAfterClose
  FullCountSettled
PROPERTIES
  ImplementsContract
