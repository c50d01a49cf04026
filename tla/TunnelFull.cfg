SPECIFICATION Spec
CONSTANTS
  s1 = s1  s2 = s2  u1 = u1  u2 = u2  v1 = v1  v2 = v2
  NoHelper = NoHelper
  NoSession = NoSession
  Sessions = {s1}
  Helpers = {h1, h2}
  Users = {u1}
  OwnerOf <- OneOwner
  Servers = {v1}
  ServerOf <- OneServer
  Policy = "full_ipv4"
  ScopedRoutes = 1
  ForeignVias = {}
  UserDNSValues = {"user"}
  EditsDuringWindows = FALSE
INVARIANTS DNSHasEvidence JournalsValidate CleanMeansUserDNS
PROPERTIES RollbackIsReverse RestoreRespectsUserDNS
SYMMETRY HelperSymmetry
