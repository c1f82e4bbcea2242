CONSTANTS
  MaxErrors = 2
SPECIFICATION FairSpec
INVARIANTS LayersHold ResetQuiet
PROPERTIES RequestServed CleanupEnds
CHECK_DEADLOCK FALSE
