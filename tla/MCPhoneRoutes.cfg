SPECIFICATION FairSpec
CONSTANTS
  r1 = r1  r2 = r2  a = a  b = b
  Requests = {r1, r2}
  Computers = {a, b}
  ComputerOf <- TwoComputers
  Share = {r2}
  Pushed = {}
  Enrolls = {}
  Repeats = {r2}
  Resets = 0
  Taps = {}
  Kills = 1
PROPERTIES AnsweredOnce LiveRequestKept WithdrawnStaysOut WithdrawnUnsigned WithdrawalSeen
CHECK_DEADLOCK FALSE
