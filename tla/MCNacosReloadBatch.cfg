SPECIFICATION Spec
CONSTANTS
  MergeOrder <- TwoDataIds
  MaxRevision = 3
INVARIANTS
  GoodPushIsApplied
