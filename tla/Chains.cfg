SPECIFICATION Spec
CONSTANTS
  k1 = k1
  k2 = k2
  None = None
  Scripts <- MCScripts
  Window = 1
  Limit = 1
  MaxCandidates = 3
  Chunk = 2
INVARIANTS ListedOnce ListingComplete CursorAdvances BucketExact
CHECK_DEADLOCK FALSE
