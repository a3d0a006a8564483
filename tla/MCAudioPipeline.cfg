SPECIFICATION FairSpec
CONSTANTS
  Subscribers = {p1, p2}
  CaptureLimit = 2
  Capacity = 2
  MaxBatch = 2
  MaxBuffers = 3
  None = None
INVARIANTS
  TypeOK
  ThreadsHaveResources
  RunningMeansAlive
  EveryoneHasTheStream
PROPERTIES
  AudioInOrder
  ImplementsBroadcast
  HardErrorEndsAudio
  StopReturns
CHECK_DEADLOCK FALSE
