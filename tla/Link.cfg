SPECIFICATION FairSpec
CONSTANTS
  History <- TwoEdits
  Conns = {c1, c2}
  None = None
  Packets = 1
  QueueCapacity = 1
  WireMax = 1
  Mishaps <- All
INVARIANTS AtMostOnce NoneRefused OfflineShown
PROPERTIES FeedSteps FilterFollows
