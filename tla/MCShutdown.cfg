SPECIFICATION Spec
CONSTANTS
  DisplayA = DisplayA
  DisplayB = DisplayB
  NameOfA = NameOfA
  Monitors <- MCMonitors
  Layouts <- MCLayouts
  MaxChanges = 1
  None = None
INVARIANTS
  EverythingShutDown
CHECK_DEADLOCK FALSE
