\* Three overlapping commands of two users; calls fail and replicas crash.
SPECIFICATION Spec
SYMMETRY DeliverySymmetry
CONSTANTS
  d1 = d1  d2 = d2  d3 = d3  d4 = d4  u1 = u1  u2 = u2  i1 = i1  i2 = i2  c1 = c1
  NoClient = NoClient
  Client = {c1}
  Issue = {i1, i2}
  User = {u1, u2}
  Delivery = {d1, d2, d3}
  NoHeader = {}
  MaxAttempts = 1
  Event <- TimeEvents
INVARIANTS
  TypeOK
  ChainKeepsOwnerAndClient
  ChainsNeverMerge
  StatusMatchesLink
  RepliesTellTheTruth
  ChainsCanBeWalked
PROPERTIES
  HistoryIsKept
  OnlyOwnEntries
