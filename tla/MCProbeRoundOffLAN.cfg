CONSTANTS
  ID = {t1, t2}
  t1 = t1
  t2 = t2
  Address = {a1, a2, a3}
  a1 = a1
  a2 = a2
  a3 = a3
  Device = {d1, d2}
  d1 = d1
  d2 = d2
  None = None
  Network = {lan, other}
  lan = lan
  other = other
  NetworkOf <- TwoNetworks
  Foreign <- OtherForeign
  ip <- Together
  mac <- BothKnown
  Enabled = {lan}
  MaxRounds = 1
  MaxMoves = 2
SPECIFICATION Spec
INVARIANTS
  OffLANStopsNobodyElse
CHECK_DEADLOCK FALSE
