SPECIFICATION Spec
CONSTANTS
  Processes = {p1, p2}
  TTL = 1
  MaxClock = 3
  Sizes = {1, 2}
  ReadLimit = 2
SYMMETRY Commands
INVARIANTS CacheAnswersAreRecent OnceCachedNeverFails
