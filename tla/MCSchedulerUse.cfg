SPECIFICATION Spec
CONSTANTS
  MaxTime = 2
  t1 = t1
  t2 = t2
  t3 = t3
  Tids <- MCTids
  Games <- MCGames
  OtherPid = 1
  Cores <- MCCores
  OriginalAffinity <- MCAffinity
  BasePriorities = {1}
  HandleRights <- MCRights
  ThreadAccessMayFail = TRUE
  UninitializedMasks <- MCMasks
  sched_max_priority = 2
  rollback_timeout = 1
  Priorities = {2}
SYMMETRY Symmetry
INVARIANTS
  CoveredThreadsRestored
  AffinityRestored
  ForeignThreadsUntouched
CHECK_DEADLOCK FALSE
