SPECIFICATION FairSpec
CONSTANTS
  MaxQueueSize = 4
  PoolSize = 6
  MaxFrames = 8
  None = None
INVARIANTS
  TypeOK
  FramesInOrder
  TexturesInUseIntact
  NoLostWakeUp
PROPERTIES
  WaitEnds
  ImplementsPump
