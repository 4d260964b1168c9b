SPECIFICATION FairSpec
CONSTANTS
  QueueSize = 1
  None = None
  Scenarios <- All
INVARIANTS Consented DependencyKept OneAtATime
PROPERTIES Settles Leaves
CHECK_DEADLOCK FALSE
