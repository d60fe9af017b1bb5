CONSTANTS
  Keys = {k1, k2, k3}
  Vals = {v1, v2}
  None = None
  DefaultTtl = 2
  Ttls = {0, 1}
  MaxSize = 2
  MaxTime = 5
SYMMETRY MCSymmetry
SPECIFICATION Spec
INVARIANTS TypeOK SizeBound
PROPERTIES DeadlineFixed NeverServesExpired EvictsLeastRecentlyUsed RefinesLossyMap
