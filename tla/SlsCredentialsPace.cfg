SPECIFICATION CredSpec
CONSTANTS
  Urgent = 1
  MinInterval = 4
  Ahead = 5
  Intervals = {100}
  Lifetimes = {3}
  Latency = 1
  Jumps = {}
  Forever = 100
PROPERTIES
  RefreshIsPaced
