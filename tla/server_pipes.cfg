SPECIFICATION ServerSpec
CONSTANTS
  Nil = Nil
  r1 = r1
  r2 = r2
  r3 = r3
  Requests = {r1, r2, r3}
  Interactive = FALSE
  Breakable = {}
  PipeCap = 1
  ExitCodes = {3}
  Signals = {9}
  p1 = p1
  Polls = {p1}
  DoError = DoError
SYMMETRY ServerSymmetry
INVARIANT ServerTypeOK
INVARIANT SuccessIsComplete
INVARIANT KeptUntilFinal
PROPERTY Implements
CHECK_DEADLOCK FALSE
