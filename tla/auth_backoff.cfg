CONSTANTS
  Threads = {t1}
  None = None
  Verdicts = {TRUE, FALSE}
  Window = 8
  MaxFailures = 2
  BaseDelay = 1
  MaxDelay = 3
  Second = 4
  MaxTracked = 8
SPECIFICATION Spec
INVARIANTS TypeOK FailuresTracked SpacingGrows
PROPERTIES RefusedOnlyRecently
