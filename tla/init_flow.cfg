\* Two runs of init over any .env, two Apps, and three callbacks a run.
SPECIFICATION Spec
CHECK_DEADLOCK FALSE
CONSTANTS
  id = id  pem = pem
  Key = {id, pem}
  MultiLine = {pem}
  NoKey = NoKey
  MaxApps = 2
  MaxRuns = 2
  MaxCalls = 3
INVARIANTS
  FillsOnlyGaps
  OneAppsCredentials
  
PROPERTIES
  EndsUnlessCalledTooOften
