SPECIFICATION Spec
CONSTANTS
  k1 = k1
  k2 = k2
  Key = {k1, k2}
  Scenarios <- Unseen
  StreamMax = 2
  PendingMax = 2
  RawAfter = 2
INVARIANTS Associated
CHECK_DEADLOCK FALSE
