CONSTANTS
  BootLimit = 1
  MaxFaults = 2
  SyncFaults = FALSE
SPECIFICATION FairSpec
INVARIANT InstallerOwnsJson
PROPERTIES
  AppReturns
  TrialEnds
