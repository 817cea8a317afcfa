\* Three commands, one at a time, and a report between any two statements of
\* theirs; no call fails.
SPECIFICATION ReportSpec
SYMMETRY DeliverySymmetry
CONSTANTS
  d1 = d1  d2 = d2  d3 = d3  u1 = u1  u2 = u2  i1 = i1  i2 = i2  c1 = c1
  NoClient = NoClient
  Client = {c1}
  Issue = {i1, i2}
  User = {u1, u2}
  Delivery = {d1, d2, d3}
  NoHeader = {}
  MaxAttempts = 1
  Event <- SerialEvents
  MaxInt = 127
  LogTyped <- TwentyOne
  PlanTyped <- Twenty
INVARIANTS
  NoChainCountedTwice
  VerdictFollowsPercentage
PROPERTIES
  ReportsLatestPlan
  ImplementsTimeLedger
  ImplementsPlanLedger
