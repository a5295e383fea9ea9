SPECIFICATION SystemSpec
CONSTANTS
  Nil = Nil
  Requests <- DialledRequests
  Interactive = FALSE
  Breakable = {}
  PipeCap = 1
  WireCap = 1
  ExitCodes = {3}
  Signals = {}
  p1 = p1
  Polls = {p1}
  DoError = DoError
INVARIANT ClientTypeOK
INVARIANT DialsInTime
INVARIANT ExitHasAllOutput
INVARIANT FatalHasReason
CHECK_DEADLOCK FALSE
