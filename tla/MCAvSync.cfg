SPECIFICATION Spec
CONSTANTS
  Second = 5
  Fps = 2
  Rate = 5
  PacketTime = 1
  Burst = 2
  Capacity = 2
  Start = 2
  Jumps <- MCJumps
  MaxTime = 7
INVARIANT VideoInSyncWithAudio
CHECK_DEADLOCK FALSE
