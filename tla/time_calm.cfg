\* Two commands, each sent twice with any overlap, one of them without the
\* delivery header; no call fails.
SPECIFICATION CalmSpec
CONSTANTS
  d1 = d1  d2 = d2  d3 = d3  d4 = d4  u1 = u1  u2 = u2  i1 = i1  i2 = i2  c1 = c1
  NoClient = NoClient
  Client = {c1}
  Issue = {i1}
  User = {u1}
  Delivery = {d1, d2}
  NoHeader = {d2}
  MaxAttempts = 2
  Event <- TimeAndNoise
INVARIANTS
  OneRowPerDelivery
  OneReplyPerDelivery
  CorrectedEntryIsRetired
PROPERTIES
  EveryCommandAnswered
