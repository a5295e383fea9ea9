SPECIFICATION FairSystemSpec
CONSTANTS
  Nil = Nil
  Requests <- DialledRequests
  Interactive = TRUE
  Breakable = {0}
  PipeCap = 1
  WireCap = 1
  ExitCodes = {3}
  Signals = {9}
  p1 = p1
  Polls = {p1}
  DoError = DoError
INVARIANT ExitIsAnswered
PROPERTY OnlyStoreRaceHangs
PROPERTY FinalSeenExits
PROPERTY DeadCommandIsAnswered
PROPERTY FinalIsForgotten
CHECK_DEADLOCK FALSE
