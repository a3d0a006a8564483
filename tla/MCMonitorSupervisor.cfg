SPECIFICATION FairSpec
CONSTANTS
  DisplayA = DisplayA
  DisplayB = DisplayB
  NameOfA = NameOfA
  Monitors <- MCMonitors
  Layouts <- MCLayouts
  MaxChanges = 2
  None = None
INVARIANTS
  TypeOK
  PipelinesMatchLayout
  OneUserPerOutput
PROPERTIES
  PipelinesKeepContract
  StopMakesRunReturn
  FatalIsReplaced
  FinalLayoutIsServed
CHECK_DEADLOCK FALSE
