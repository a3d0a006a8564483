SPECIFICATION FairSpec
CONSTANTS
  Sizes = {s1, s2}
  MaxQueueSize = 1
  MaxRetries = 1
  NumUrls = 1
  None = None
PROPERTIES
  ImplementsContract
  ImplementsPump
  ResizeIsServed
CHECK_DEADLOCK FALSE
