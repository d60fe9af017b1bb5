CONSTANTS
  Pods = {p1}
  Settings = {{"redis"}, {"pg", "redis"}}
  Conditions = {"up", "down", "hung"}
  FailureThreshold = 3
  StartupFailures = 2
  MaxChanges = 5
  MaxCrashes = 1
SPECIFICATION FairSpec
INVARIANTS TypeOK StoppedOnlyInOutage
PROPERTIES OutageEndsInMemory
