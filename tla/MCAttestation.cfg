CONSTANTS
  a1 = a1
  a2 = a2
  u1 = u1
  r1 = r1
  r2 = r2
  p1 = p1
  p2 = p2
  k1 = k1
  k2 = k2
  outside = outside
  embedded = embedded
  User = User
  Nothing = Nothing
  Attests = {a1, a2}
  Authenticates = {u1}
  Run <- RunOf
  Principal <- PrincipalOf
  Key <- KeyOf
  Runs = {r1, r2}
  Versions = {1, 2}
  Sealed <- SealedOf
  Principals = {p1, p2}
  Keys = {k1, k2}
  TrustFiles = {outside, embedded}
  Embedded = {embedded}
  PolicyLines = 2
  Policy <- FirstPolicy
  MaxChanges = 1
  MaxFaults = 1
  MaxStops = 1
SPECIFICATION Spec
INVARIANTS
  EnvelopeIsWhole
  SuccessIsDurable
  UsageIsUnpublished
  AuthenticatedIsEarned
  RefusalHasCause
PROPERTIES
  NothingIsClobbered
