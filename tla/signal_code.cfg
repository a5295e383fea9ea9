SPECIFICATION SessionSpec
CONSTANTS
  Nil = Nil
  r1 = r1
  r2 = r2
  r3 = r3
  Requests = {r1, r2, r3}
  Interactive = FALSE
  Breakable = {}
  PipeCap = 1
  ExitCodes = {3}
  Signals = {9}
INVARIANT SignalIsReported
CHECK_DEADLOCK FALSE
