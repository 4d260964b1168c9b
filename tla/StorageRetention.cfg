CONSTANTS
  Capacity = 3
  BatchMax = 3
  Duration = 1
  Retention = 2
  MaxTime = 3
  MaxSessions = 3
  MaxCrashes = 0
  IoFailures = FALSE
SPECIFICATION Spec
CHECK_DEADLOCK FALSE
INVARIANTS BatchCommits
