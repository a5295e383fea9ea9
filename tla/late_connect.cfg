SPECIFICATION ServerSpec
CONSTANTS
  Nil = Nil
  r1 = r1
  r2 = r2
  Requests = {r1, r2}
  Interactive = TRUE
  Breakable = {}
  PipeCap = 1
  ExitCodes = {3}
  Signals = {}
  p1 = p1
  Polls = {p1}
  DoError = DoError
PROPERTY OnlyRunningConnected
CHECK_DEADLOCK FALSE
