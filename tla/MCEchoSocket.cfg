CONSTANTS
  h1 = h1
  h2 = h2
  Host = {h1, h2}
  HostLists <- FewLists
  Timeouts = {0, 2, 4}
  Settle = 2

SPECIFICATION FairProbeSpec

INVARIANTS
  SocketTypeOK
  HeardIsAlive
  SilenceIsAwaited

PROPERTIES
  ProbeEnds

CHECK_DEADLOCK FALSE
