\* A request with one token revokes another.
SPECIFICATION AccessSpec
CONSTANTS
  u1 = u1  c1 = c1  c2 = c2
  NoOne = NoOne
  User = {u1}
  Caller = {c1}
  TTL = 2
  MaxTime = 3
  SessionLife = 2
  Throttle = 1
  MaxTokens = 2
PROPERTIES
  BrowserRevokesTokens
