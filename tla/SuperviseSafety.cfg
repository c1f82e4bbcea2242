CONSTANTS
  StartTimeout = 2
  Heartbeat = 4
  RestartTimeout = 3
  TerminateWait = 1
  RetryInitial = 1
  RetryMax = 2
  StableWindow = 2
  TrialWindow = 2
  ConfirmRetry = 1
  MaxFailures = 1
  Beat = 1
  Lag = 1
  RestartMin = 2
  PipeCap = 2
  MaxNoise = 1
SPECIFICATION Spec
INVARIANTS ProcessInv HealthyChildKept AttemptBounded
PROPERTIES OneChild ConfirmEarned BackoffForgets
CHECK_DEADLOCK FALSE
