CONSTANTS
  ID = {a, b}
  a = a
  b = b
  Address = {addr1, addr2}
  addr1 = addr1
  addr2 = addr2
  MAC = {hw}
  hw = hw
  NoMAC = NoMAC
  Subnet = {net}
  net = net
  MinTargetInterval = 1
  MinDiscoveryInterval = 3
  MinCheckInInterval = 2
  Phase = 4
  ServerConfigs <- SlowConfig
  NoRuntime = NoRuntime
  DefaultDiscoveryInterval = 6
  BackoffBase = 2
  BackoffMax = 4
  MaxShift = 2
  TerminalFailure = 4
  HasMono = TRUE
  SyncsDirectory = TRUE
  ClockSteps <- EitherWay
  StartWall = 11
  MaxTime = 6
  MaxSteps = 1
  MaxLaunches = 1
SPECIFICATION Spec
INVARIANTS
  SilenceBounded
CHECK_DEADLOCK FALSE
