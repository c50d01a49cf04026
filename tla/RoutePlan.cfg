SPECIFICATION Spec
CONSTANTS
  Bits4 = 3
  Bits6 = 2
  MinScopedBits = 2
  Gateways = {1, 6}
  Lan <- MCLan
  Plans <- MCPlans
  OtherPrefixes <- MCOtherPrefixes
  MaxChanges = 1
INVARIANTS UnderlayNeverLoops TrafficAsPlanned RestoredExactly
CHECK_DEADLOCK FALSE
