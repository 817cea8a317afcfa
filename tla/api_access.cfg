\* Two requests of one user at a time, over the lifetimes of a cached decision
\* and of a session; UPDATEs fail, the process restarts.
SPECIFICATION AccessSpec
SYMMETRY CallerSymmetry
CONSTANTS
  u1 = u1  c1 = c1  c2 = c2
  NoOne = NoOne
  User = {u1}
  Caller = {c1, c2}
  TTL = 2
  MaxTime = 3
  SessionLife = 2
  Throttle = 2
  MaxTokens = 1
INVARIANTS
  ActsForTheEntitled
  RevokedTokenIsRefused
  LastUsedIsRecent
PROPERTIES
  RevocationIsFinal
