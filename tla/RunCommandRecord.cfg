SPECIFICATION Spec
CONSTANTS
  Commands <- AllCommands
  MaxPortRetries = 5
  MaxInterrupts = 0
INVARIANT FailureRecordsCommands
CHECK_DEADLOCK FALSE
