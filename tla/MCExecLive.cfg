SPECIFICATION Spec
CONSTANTS
  MaxAttempts = 1
  Configs = {c1}
  Discovers = TRUE
INVARIANTS
  SuccessIsTrue
PROPERTIES
  CommitResolves
  FallbackReleased
  HelpersEnd
CHECK_DEADLOCK FALSE
