SPECIFICATION Spec
CONSTANTS
  Sizes = {s1, s2}
  MaxQueueSize = 1
  MaxRetries = 2
  NumUrls = 1
  None = None
PROPERTIES
  ReconfigureFatalIsFailure
CHECK_DEADLOCK FALSE
