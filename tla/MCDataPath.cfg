SPECIFICATION Spec
CONSTANTS
  Sockets = {1, 2}
  MaxMessages = 6
  Long = {2}
  MaxWire = 2
  MaxBuffer = 1
  Frames <- MCFrames
  Actions <- MCActions
  DOWNSAMPLE = 2
  maxPoints = 2
  maxActions = 2
  maxLogs = 2
  MAX_LOGS = 3
  LogsDropped = 2
  thresholds = {6940, 16670}
INVARIANTS
  TypeOK
  OneSocket
  ConnectedIsTrue
  StoppedForGood
  PageShowsRecent
  ChartIsReadable
PROPERTIES
  SettlesDown
  IsChannel
CHECK_DEADLOCK FALSE
