\* One /log, sent twice, and a replica crashes.
SPECIFICATION CrashSpec
CONSTANTS
  d1 = d1  d2 = d2  u1 = u1  i1 = i1  c1 = c1
  NoClient = NoClient
  Issue = {i1}
  Client = {c1}
  Delivery = {d1}
  NoHeader = {}
  MaxAttempts = 2
  User = {u1}
  Event <- LogEvents
INVARIANTS
  AcknowledgedIsProcessed
