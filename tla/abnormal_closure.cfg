SPECIFICATION FairSessionSpec
CONSTANTS
  Nil = Nil
  r1 = r1
  r2 = r2
  Requests = {r1, r2}
  Interactive = TRUE
  Breakable = {r1, r2}
  PipeCap = 1
  ExitCodes = {3}
  Signals = {}
PROPERTY AbnormalClosureKills
CHECK_DEADLOCK FALSE
