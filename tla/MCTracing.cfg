SPECIFICATION MCSpec
CONSTANTS
  Level = {"error", "info", "debug"}
  Specs <- TwoSpecs
  Event = {e1, e2}
  Capacity = 1
  Thread = {t1, t2}
  SpanKey <- SameName
  KeyOf <- Keys
  Shape <- Shapes
  Scopes <- Chains
  MaxCalls = 3
  Urgent = 1
  MinInterval = 4
  Ahead = 3
  Intervals = {1, 6, 100}
  Lifetimes <- MCLifetimes
  Latency = 2
  Jumps = {3}
  Forever = 100
INVARIANTS
  PartsTypeOK
  AbandonedOnlyLate
  ReportIsComplete
  RecordIsOwn
  ClientIsFresh
PROPERTIES
  ShutdownReturns
  EventsAreEnqueued
