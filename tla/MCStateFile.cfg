CONSTANTS
  service = service
  foreground = foreground
  one = one
  other = other
  changed = changed
  Process <- TwoProcesses
  Token <- TwoTokens
  Runtime <- OneConfiguration
  None = None
  SyncsDirectory = TRUE
  MaxSaves = 3
  MaxStarts = 3
  MaxPurges = 1
SPECIFICATION Spec
INVARIANTS
  TypeOK
  IdentityKept
  TokenBuysIdentity
  NoLitter
PROPERTIES
  AtomicStore
CHECK_DEADLOCK FALSE
