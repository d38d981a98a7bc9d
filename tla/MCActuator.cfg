SPECIFICATION Spec
CONSTANTS
  MaxTime = 4
  Window = 0
  max_actions_per_second = 1
  max_thread_priority = 2
  max_tgp_boost_w = 50
  AuditOpens = {TRUE, FALSE}
  min_confidence = 200
  Tids <- MCTids
  Games <- MCGames
  OtherPid = 1
  Cores <- MCCores
  OriginalAffinity <- MCAffinity
  BasePriorities = {1}
  HandleRights <- MCRights
  ThreadAccessMayFail = FALSE
  UninitializedMasks <- MCMasks
  sched_max_priority = 2
  rollback_timeout = 2
  default_tgp_w = 300
  absolute_max_tgp_w = 340
  max_boost_w = 50
  revert_timeout = 2
  FactoryLimit = 280
  InitOutcomes = {"ready", "absent", "failed"}
  Messages <- MCMessages
  scan_interval = 1
  max_queue_size = 1
  MaxCommands = 2
INVARIANTS
  ActuatorTypeOK
  TgpBookkept
  TgpCapped
  ElevationNeedsTarget
  AuditComplete
CHECK_DEADLOCK FALSE
PROPERTIES
  TgpIsLeased
  ThreadsAreLeased
