SPECIFICATION Spec
CONSTANTS
  Clients = {c1, c2}
  Logins = {a, b}
  NoClient = NoClient
  Absent = Absent
INVARIANTS FailureRestores SuccessSettles StatusIsCurrent MixedIsExplained
SYMMETRY CredentialSymmetry
