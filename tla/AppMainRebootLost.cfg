CONSTANTS
  MaxErrors = 0
SPECIFICATION Spec
INVARIANTS RebootNotDiscarded
CHECK_DEADLOCK FALSE
