SPECIFICATION Spec
CONSTANTS
  MaxAttempts = 2
  Configs = {c1}
  Discovers = FALSE
INVARIANTS
  OldAttemptsSpent
PROPERTIES
  OneExecutionOwner
CHECK_DEADLOCK FALSE
