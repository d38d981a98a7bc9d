SPECIFICATION Spec
CONSTANTS
  max_queue_size = 1
  Malformed <- MCMalformed
  MaxMessages = 2
  MaxConnections = 1
PROPERTY
  StopReturns
CHECK_DEADLOCK FALSE
