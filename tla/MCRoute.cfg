SPECIFICATION RouteSpec
CONSTANTS
  Addresses = {1, 2}
  Resolves = TRUE
  ConnectLimit = 3
  TcpLimit = 1
  WatchLimit = 2
  FindLimit = 1
  Threads = {1, 2}
  QueueMax = 2
  MaxCalls = 6
  MaxHeard = 4
INVARIANTS
  RouteTypeOK
  CallInTime
  ReplyIsOwn
  AnswersKept
PROPERTIES
  CarriesInOrder
  ClosedIsQuiet
  WorkerGoes
  CallsEnd
CHECK_DEADLOCK FALSE
