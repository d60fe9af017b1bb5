CONSTANTS
  Clients = {c1, c2}
  None = None
  RetryAttempts = 3
  Available = TRUE
  MaxRequests = 4
  MaxLost = 3
  MaxFlaps = 2
SPECIFICATION FairSpec
INVARIANTS TypeOK DistinctCounters
PROPERTIES Answered
CHECK_DEADLOCK FALSE
