SPECIFICATION Spec
CONSTANTS
  ModuleOrder <- MCModuleOrder
  MaxSpawns = 2
  StartAllCalls = {1}
  Pages = {p1}
INVARIANTS
  TypeOK
  OneChild
  PageFollows
  ExitLeavesNoChild
PROPERTIES
  ForcedKillOnlyByReusedPid
  StopTakesEffect
  CtrlCWaitsOnlyForPages
CHECK_DEADLOCK FALSE
