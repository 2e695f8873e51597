SPECIFICATION Spec
CONSTANTS
  r1 = r1  r2 = r2  a = a  b = b
  Requests = {r1, r2}
  Computers = {a}
  ComputerOf <- OneComputer
  Share = {}
  Pushed = {r2}
  Enrolls = {r2}
  Repeats = {}
  Resets = 1
  Taps = {r2}
  Kills = 0
INVARIANT TypeOK
PROPERTIES SignsForThisKey PairingsKept
CHECK_DEADLOCK FALSE
