CONSTANTS
  h1 = h1
  h2 = h2
  Host = {h1, h2}
  Mapped = {}
  MaxWorkers = 2
  LogMax = 2
  RecordSizes = {1, 2}
  MaxLogFaults = 1
  MaxStarts = 2
  MaxControls = 2
SPECIFICATION FairAgentSpec
INVARIANTS
  AgentTypeOK
  StoppedMeansDone
  WorkCanBeStopped
  SilenceIsProven
  FootprintBounded
  NewestKept
  RenameLeavesAFile
PROPERTIES
  StopIsHonoured
CHECK_DEADLOCK FALSE
