SPECIFICATION ControlSpec
CONSTANTS
  ChanCap = 2
  WireCap = 3
  MaxSize = 2
  MaxSignals = 5
INVARIANT ControlTypeOK
INVARIANT ForwardedInOrder
INVARIANT ResizeNotForgotten
PROPERTY ResizeIsShown
PROPERTY FailureEndsHandler
CHECK_DEADLOCK FALSE
