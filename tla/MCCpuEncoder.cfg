SPECIFICATION Spec
CONSTANTS
  Sizes = {s1}
  MaxQueueSize = 2
  MaxRetries = 1
  NumUrls = 1
  None = None
INVARIANTS
  CpuEncoderGetsPixels
CHECK_DEADLOCK FALSE
