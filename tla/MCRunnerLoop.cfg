CONSTANTS
  ID = {a, b}
  a = a
  b = b
  Address = {addr1, addr2}
  addr1 = addr1
  addr2 = addr2
  MAC = {hw}
  hw = hw
  NoMAC = NoMAC
  Subnet = {net}
  net = net
  MinTargetInterval = 1
  MinDiscoveryInterval = 3
  MinCheckInInterval = 2
  Phase = 2
  ServerConfigs <- TwoConfigs
  NoRuntime = NoRuntime
  DefaultDiscoveryInterval = 6
  BackoffBase = 2
  BackoffMax = 4
  MaxShift = 2
  TerminalFailure = 4
  HasMono = TRUE
  SyncsDirectory = TRUE
  ClockSteps <- NoSteps
  StartWall = 5
  MaxTime = 6
  MaxSteps = 0
  MaxLaunches = 2
SPECIFICATION Spec
INVARIANTS
  TypeOK
  EarliestHonoured
  NoLeak
  TerminalIsSlowest
  DiskHoldsLastConfiguration
  GoneBuysOneSweep
PROPERTIES
  DiscoveryKeepsPhase
CHECK_DEADLOCK FALSE
