SPECIFICATION Spec
CONSTANTS
  MaxAttempts = 2
  Configs = {c1}
  Discovers = FALSE
INVARIANT
  RetryIsServed
CHECK_DEADLOCK FALSE
