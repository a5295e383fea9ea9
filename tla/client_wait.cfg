SPECIFICATION FairSystemSpec
CONSTANTS
  Nil = Nil
  Requests <- DialledRequests
  Interactive = TRUE
  Breakable = {}
  PipeCap = 1
  WireCap = 1
  ExitCodes = {3}
  Signals = {}
  p1 = p1
  Polls = {p1}
  DoError = DoError
PROPERTY WaitReturns
CHECK_DEADLOCK FALSE
