CONSTANTS
  BootLimit = 1
  MaxFaults = 2
  SyncFaults = TRUE
SPECIFICATION FairSpec
PROPERTY RollbackCompletes
