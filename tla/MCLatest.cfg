SPECIFICATION OpenedSpec
CONSTANTS
  r1 = r1  r2 = r2  a = a  b = b
  Requests = {r1, r2}
  Computers = {a}
  ComputerOf <- OneComputer
  Share = {}
  Pushed = {}
  Enrolls = {}
  Repeats = {}
  Resets = 0
  Taps = {r1}
  Kills = 0
PROPERTY LatestIsReviewed
CHECK_DEADLOCK FALSE
