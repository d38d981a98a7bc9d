SPECIFICATION Spec
CONSTANTS
  MaxTime = 7
  Window = 2
  max_actions_per_second = 2
  max_thread_priority = 1
  max_tgp_boost_w = 50
  AuditOpens = {TRUE, FALSE}
  min_confidence = 200
  Commands <- MCCommands
  TargetPids <- MCTargetPids
  MaxCalls = 6
INVARIANTS
  AtMostMaxPerWindow
  LimiterExact
PROPERTY
  ImplementsLimiter
CHECK_DEADLOCK FALSE
