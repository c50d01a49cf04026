SPECIFICATION FairSpec
CONSTANTS
  Sessions = {s1}
  Helpers = {h1, h2}
  NoSession = NoSession
  NoHelper = NoHelper
  MaxHealthFailures = 3
PROPERTIES DevicesGoAway UnansweredHelpersLeave
