SPECIFICATION Spec
CONSTANTS
  Client = {c1, c2}
  MaxAttempts = 1
  MaxTokens = 3
PROPERTIES
  AcquireReturnsLiveLock
