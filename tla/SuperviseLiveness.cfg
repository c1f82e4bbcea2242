CONSTANTS
  StartTimeout = 2
  Heartbeat = 2
  RestartTimeout = 2
  TerminateWait = 1
  RetryInitial = 1
  RetryMax = 1
  StableWindow = 1
  TrialWindow = 1
  ConfirmRetry = 1
  MaxFailures = 1
  Beat = 1
  Lag = 1
  RestartMin = 0
  PipeCap = 2
  MaxNoise = 0
SPECIFICATION FairSpec
PROPERTIES HungRemoved StopCompletes ChildReturns
CHECK_DEADLOCK FALSE
