SPECIFICATION Spec
CONSTANTS
  ModuleOrder <- MCOneModule
  MaxSpawns = 1
  StartAllCalls = {1}
  Pages = {p1}
PROPERTY
  CtrlCStops
CHECK_DEADLOCK FALSE
