SPECIFICATION FairSpec
CONSTANTS
  MergeOrder <- TwoDataIds
  MaxRevision = 2
INVARIANTS
  ReadsAreWhole
  ChannelHasOwnContent
  PushIsSettled
  ListenersRemoved
PROPERTIES
  NeverBack
  FrozenAfterShutdown
  PendingIsTaken
  ShutdownReturns
