SPECIFICATION FairSpec
CONSTANTS
  k1 = k1
  k2 = k2
  Key = {k1, k2}
  Scenarios <- MCScenarios
  StreamMax = 2
  PendingMax = 2
  RawAfter = 2
INVARIANTS TypeOK Associated AllStored
PROPERTIES WholeWhenAnchored Drains
CHECK_DEADLOCK FALSE
