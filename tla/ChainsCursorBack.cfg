SPECIFICATION Spec
CONSTANTS
  k1 = k1
  k2 = k2
  None = None
  Scripts <- Disordered
  Window = 1
  Limit = 1
  MaxCandidates = 3
  Chunk = 2
INVARIANTS EveryPageAdvances
CHECK_DEADLOCK FALSE
