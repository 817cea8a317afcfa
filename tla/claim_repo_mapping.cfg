\* One label, mapped globally and for one of two repositories.
SPECIFICATION Spec
CONSTANTS
  l1 = l1  l2 = l2  r1 = r1  r2 = r2  c1 = c1  c2 = c2
  Anywhere = Anywhere
  Label = {l1}
  Repo = {r1, r2}
  Caller = {c1}
  MaxClients = 2
  MaxMappings = 2
INVARIANTS
  OtherRepositoriesDoNotCount
