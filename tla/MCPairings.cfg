SPECIFICATION Spec
CONSTANTS
  r1 = r1  r2 = r2  a = a  b = b
  Requests = {r1, r2}
  Computers = {a}
  ComputerOf <- OneComputer
  Share = {}
  Pushed = {}
  Enrolls = {}
  Repeats = {}
  Resets = 1
  Taps = {}
  Kills = 0
INVARIANT PairingsForThisKey
CHECK_DEADLOCK FALSE
