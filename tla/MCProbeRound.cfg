CONSTANTS
  ID = {t1, t2}
  t1 = t1
  t2 = t2
  Address = {a1, a2}
  a1 = a1
  a2 = a2
  a3 = a3
  Device = {d1, d2}
  d1 = d1
  d2 = d2
  None = None
  Network = {lan, other}
  lan = lan
  other = other
  NetworkOf <- OneEach
  Foreign <- NoForeign
  ip <- Together
  mac <- OneKnown
  Enabled = {lan, other}
  MaxRounds = 1
  MaxMoves = 2
SPECIFICATION Spec
INVARIANTS
  TypeOK
  OnlineIsTheDevice
  SilentWasAsked
  MoveIsNoOutage
  EveryDueReported
  DevicesWereThere
  ScannedIsCovered
CHECK_DEADLOCK FALSE
