SPECIFICATION FairSessionSpec
CONSTANTS
  Nil = Nil
  r1 = r1
  r2 = r2
  r3 = r3
  Requests = {r1, r2, r3}
  Interactive = FALSE
  Breakable = {r1}
  PipeCap = 1
  ExitCodes = {3}
  Signals = {}
INVARIANT SessionTypeOK
INVARIANT CommandWaitsForStreams
INVARIANT NoOutputLeftBehind
INVARIANT NoLostWakeup
INVARIANT AtMostOneStranded
PROPERTY ConnectedRunStarts
PROPERTY ReapedRunReturns
CHECK_DEADLOCK FALSE
