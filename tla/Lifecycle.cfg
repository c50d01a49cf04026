SPECIFICATION Spec
CONSTANTS
  Sessions = {s1, s2}
  Helpers = {h1, h2, h3}
  NoSession = NoSession
  NoHelper = NoHelper
  MaxHealthFailures = 1
INVARIANTS SessionsAreNamed RequestsReachTheirSession
SYMMETRY LifecycleSymmetry
