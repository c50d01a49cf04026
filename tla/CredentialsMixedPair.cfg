SPECIFICATION Spec
CONSTANTS
  Clients = {c1, c2}
  Logins = {a, b}
  NoClient = NoClient
  Absent = Absent
INVARIANT StatusDetectsMixedPair
SYMMETRY CredentialSymmetry
