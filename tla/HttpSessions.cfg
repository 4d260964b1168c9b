SPECIFICATION FairSpec
CONSTANTS
  Limit = 3
  MaxRequests = 2
  MaxChunks = 2
  Scripts <- MCScripts
  ChunkMax = 3
INVARIANTS TypeOK Associated OwnBytes AllAccounted
PROPERTIES Returns
CHECK_DEADLOCK FALSE
