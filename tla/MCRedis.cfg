SPECIFICATION MCSpec
CONSTANTS
  Client = {c1, c2}
  MaxAttempts = 2
  MaxTokens = 3
  Caller = {a1, a2}
  Value = {v1}
  Key = {k1}
  Field = {f1, f2}
  MaxTtl = 2
SYMMETRY Symmetry
INVARIANTS
  HolderOwnsKey
  MutualExclusion
  NoKeyLeftBehind
  StaleGoes
  MapsAreOwn
