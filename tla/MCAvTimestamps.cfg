SPECIFICATION Spec
CONSTANTS
  Second = 5
  Fps = 2
  Rate = 5
  PacketTime = 1
  Burst = 2
  Capacity = 2
  Start = 2
  Jumps <- MCJumps
  MaxTime = 6
INVARIANTS
  TypeOK
  VideoOnTime
  AudioOnTime
  ReconnectedInSync
PROPERTIES
  MuxerTimestampsGrow
CHECK_DEADLOCK FALSE
