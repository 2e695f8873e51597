SPECIFICATION LanSpec
CONSTANTS
  Addresses = {1, 2}
  Resolves = TRUE
  ConnectLimit = 3
  TcpLimit = 1
  WatchLimit = 2
  FindLimit = 1
INVARIANT
  TimeBoundKept
CHECK_DEADLOCK FALSE
