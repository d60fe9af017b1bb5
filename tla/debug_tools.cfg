CONSTANTS
  c1 = c1  c2 = c2
  None = None
  Clients = {c1, c2}
  Workloads <- MCWorkloads
  MaxProcs = 3
  MaxDuration = 2
  Grace = 1
SPECIFICATION FairSpec
INVARIANTS TypeOK LiveAreListed
PROPERTIES CutOnlyLate SpikesCleared Answered
