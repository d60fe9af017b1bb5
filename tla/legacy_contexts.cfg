SPECIFICATION Spec
CONSTANTS
  c1 = c1
  c2 = c2
  i1 = i1
  i2 = i2
  n1 = n1
  title = title
  done = done
  d1 = d1
  d2 = d2
  Clients = {c1, c2}
  None = None
  Uuids = {i1, i2}
  Names = {n1}
  Fields <- MCFields
  Data = {d1, d2}
  Creates <- MCCreates
  Updates <- MCUpdates
  Workloads <- MCWorkloads
  MaxLost = 1
INVARIANT TypeOK
PROPERTY OnlyRacesFail AppearsOnlyBy RefinesContextMap
