SPECIFICATION PathSpec
CONSTANTS
  max_queue_size = 1
  Malformed = {}
  MaxMessages = 2
  MaxConnections = 2
INVARIANTS
  ActionPipeTypeOK
  LossesCountedOnce
  OneHandle
  CommandsAreMessages
  InstancesKept
PROPERTIES
  IsPipe
  StopWaitsOnlyForSilence
  Reconnects
  PublishAndStopEnd
CHECK_DEADLOCK FALSE
