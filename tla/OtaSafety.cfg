\* Three faults anywhere, a rename whose directory sync fails among them.
CONSTANTS
  BootLimit = 1
  MaxFaults = 3
  SyncFaults = TRUE
SPECIFICATION Spec
INVARIANTS StableIntact Bootable RunsSelected TrialProtected OtaInvariant
