CONSTANTS
  p1 = p1  p2 = p2  c1 = c1  c2 = c2  i1 = i1  i2 = i2  title = title  done = done  d1 = d1  d2 = d2
  Null = Null
  None = None
  Pods = {p1}
  Clients = {c1, c2}
  Ids = {i1, i2}
  Fields <- MCFields
  Data = {d1, d2}
  Creates <- MCCreates
  Updates <- MCUpdates
  Workloads <- MCAtomic
  RetryAttempts = 2
  MaxFlaps = 0
  MaxLost = 1
  MaxRestarts = 0
SPECIFICATION Spec
INVARIANTS StoresAgree
PROPERTIES RefinesContextMap
