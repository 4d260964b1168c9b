CONSTANTS
  Capacity = 3
  BatchMax = 3
  Duration = 1
  Retention = 2
  MaxTime = 4
  MaxSessions = 4
  MaxCrashes = 1
  IoFailures = TRUE
SPECIFICATION FairSpec
CHECK_DEADLOCK FALSE
INVARIANTS TypeOK Resolvable IdsFollowArrival BatchAccepted ReaderSound
PROPERTIES Progress
