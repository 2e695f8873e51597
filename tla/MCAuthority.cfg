SPECIFICATION Spec
CONSTANTS
  MaxAttempts = 2
  MaxUnread = 1
  DesktopEvents = {"start", "commit", "cancel", "other"}
  Impatient = {2}
  Configs = {c1}
  Discovers = TRUE
INVARIANTS
  
  RepliesHonest
  NoAbandonedRequest
PROPERTIES
  StartReported
  RowsSettle
CHECK_DEADLOCK FALSE
