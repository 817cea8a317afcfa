\* Two callers ask about one user of two organisations; calls to GitHub fail,
\* the process restarts.
SPECIFICATION MembershipSpec
SYMMETRY CallerSymmetry
CONSTANTS
  u1 = u1  o1 = o1  o2 = o2  c1 = c1  c2 = c2
  NoOne = NoOne
  User = {u1}
  Org = {o1, o2}
  AllowedOrgs <- TwoOrgs
  Caller = {c1, c2}
  TTL = 2
  MaxTime = 2
INVARIANTS
  RevocationWithinTTL
  DenialWithinTTL
PROPERTIES
  ImplementsPolicy
