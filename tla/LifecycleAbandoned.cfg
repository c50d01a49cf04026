SPECIFICATION Spec
CONSTANTS
  Sessions = {s1}
  Helpers = {h1, h2}
  NoSession = NoSession
  NoHelper = NoHelper
  MaxHealthFailures = 3
INVARIANT EvidenceIsNamed
SYMMETRY LifecycleSymmetry
