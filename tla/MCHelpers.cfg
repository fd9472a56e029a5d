SPECIFICATION Spec
CONSTANTS
  Archives <- MCArchives
  Sentinel = 100
  TailLimit = 66
  AesBlock = 2
  DesBlock = 3
  Paddings = {0, 1, 2, 3, 4, 256}
  Bytes = {0, 1, 2, 3, 4}
  Buffers <- MCBuffers
  Extension <- MCExtension
  Client = {1, 2}
  Name = {"a", "b", "c"}
  Select <- MCSelect
  Pages = {0, 2, 9}
  Sizes = {0, 1, 4, 8}
  DefaultSize = 2
  MaxUint = 15
  MaxCalls = 3
INVARIANTS
  EntryIsRead
  DecryptIsInverse
  AcceptedIsUsable
  InsertIsTold
  ReadsAreExact
