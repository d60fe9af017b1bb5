CONSTANTS
  Threads = {t1, t2}
  None = None
  Verdicts = {FALSE}
  Window = 4
  MaxFailures = 2
  BaseDelay = 1
  MaxDelay = 3
  Second = 1
  MaxTracked = 3
SPECIFICATION Spec
INVARIANTS FailuresTracked
