SPECIFICATION Spec
CONSTANTS
  Sizes = {s1, s2}
  MaxQueueSize = 2
  MaxRetries = 2
  NumUrls = 2
  None = None
SYMMETRY SizeSymmetry
INVARIANTS
  TypeOK
  DeviceUsersHaveDevice
  NoLostResize
  EncodedFrameFits
  FirstPacketIsKey
  StateMeansResources
  TransitionsAccepted
  CleanExit
CHECK_DEADLOCK FALSE
