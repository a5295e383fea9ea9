SPECIFICATION InstanceSpec
CONSTANTS
  Pids = {1, 2, 3}
  NoPid = 0
  MaxUsage = 2
  lo = lo
  eth = eth
  Ifaces = {lo, eth}
  Names = {"lo", "eth0"}
  NoName = "none"
  AddrsOf <- GuestAddresses
  Files = 2
  Troubles = {{"memory"}, {"network"}, {"processes"}}
INVARIANT InstanceTypeOK
INVARIANT PeakNotBelowUsage
INVARIANT SteadyInterfaceShown
INVARIANT ScopeWrongIfMisread
INVARIANT NoProcessTwice
INVARIANT SteadyAreCounted
PROPERTY StateIsRendered
CHECK_DEADLOCK FALSE
