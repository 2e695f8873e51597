SPECIFICATION Spec
CONSTANTS
  MaxAttempts = 2
  MaxReplies = 2
INVARIANTS
  CommitExcludesAlternatives
  OneVerdict
  AlternativeOnlyAfterWithdrawal
PROPERTIES
  CommitIsFinal
  LastLineIsRead
  FallbackReleased
CHECK_DEADLOCK FALSE
