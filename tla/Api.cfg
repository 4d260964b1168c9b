SPECIFICATION Spec
CONSTANTS
  Regexes = {1, 2}
  PageSize = 1
  MaxId = 3
  MaxStarts = 4
  Reverts = FALSE
  Slots = {r1, r2, r3}
  Clients = {alice, bob}
  Ports = {1, 2}
  Capacity = 1
  Verifiers = 1
  ChainReads = 1
  TTL = 1
  Leaving = {"login", "browse"}
  Scenarios <- All
SYMMETRY Interchangeable
INVARIANTS TypeOK SignedOut WorkBounded CaptureFollows FlagsCurrent
CHECK_DEADLOCK FALSE
