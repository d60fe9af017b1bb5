CONSTANTS
  Clients = {c1}
  None = None
  RetryAttempts = 3
  Available = TRUE
  MaxRequests = 3
  MaxLost = 1
  MaxFlaps = 0
SPECIFICATION Spec
PROPERTIES ExactlyOnePerRequest
CHECK_DEADLOCK FALSE
