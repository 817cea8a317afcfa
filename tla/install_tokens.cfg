\* Three callers during three lifetimes of a token.
SPECIFICATION Spec
CONSTANTS
  c1 = c1  c2 = c2  c3 = c3
  Caller = {c1, c2, c3}
  Nobody = Nobody
  Life = 5
  Margin = 2
  Timeout = 1
  MaxTime = 10
INVARIANTS
  TokenOutlivesItsUse
  OneFetchAndOnlyIfNeeded
PROPERTIES
  RefreshesAreSpaced
  WaitersAreReleased
