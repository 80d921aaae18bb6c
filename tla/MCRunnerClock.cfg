CONSTANTS
  ID = {a, b}
  a = a
  b = b
  Address = {addr1, addr2}
  addr1 = addr1
  addr2 = addr2
  MAC = {hw}
  hw = hw
  NoMAC = NoMAC
  Subnet = {net}
  net = net
  MinTargetInterval = 1
  MinDiscoveryInterval = 3
  MinCheckInInterval = 2
  Phase = 4
  ServerConfigs <- JoinConfigs
  NoRuntime = NoRuntime
  DefaultDiscoveryInterval = 3
  BackoffBase = 2
  BackoffMax = 2
  MaxShift = 2
  TerminalFailure = 4
  HasMono = TRUE
  SyncsDirectory = FALSE
  ClockSteps <- EitherWay
  StartWall = 5
  MaxTime = 3
  MaxSteps = 1
  MaxLaunches = 1
SPECIFICATION FairSpec
INVARIANTS
  SilenceUnlessSetBack
  SleepBounded
  SharedRounds
  NoTightLoop
PROPERTIES
  Heartbeat
CHECK_DEADLOCK FALSE
