SPECIFICATION Spec
CONSTANTS
  Octets = 3
  OctetBits = 2
  ShortDefault = FALSE
INVARIANTS FoundIsExact OddMasksRefused LoopsAgree
CHECK_DEADLOCK FALSE
