CONSTANTS
  Attempts = 3
  MaxRuns = 2
  MaxCommits = 3
  MaxFaults = 3
SPECIFICATION FairSpec
INVARIANTS TypeOK DoneIsOnMain FailsOnlyForCause
PROPERTIES NothingDiscarded OnlyRetriesRevert JobsEnd
CHECK_DEADLOCK FALSE
