SPECIFICATION Spec
CONSTANTS
  Plans = {p, q}
  None = None
  IdCount = 16
  IdBase = 14
  RetryMax = 2
  RecoveryMax = 1
  EventCap = 1
  MaxMessages = 2
  MaxChanges = 1
PROPERTIES ConfirmedAgree AppliedInOrder SyncReported
CHECK_DEADLOCK FALSE
