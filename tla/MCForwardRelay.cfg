SPECIFICATION RelaySpec
CONSTANTS
  b1 = b1
  b2 = b2
  Relays = {b1, b2}
  Origin = origin
  Route <- TwoHops
  Versions = {"v2"}
  Provisioned = {b1, b2}
  CellBSends = 3
  InjectCopies = 2
  MaxFlows = 2
PROPERTY ReleasedByPartnerOnly
CHECK_DEADLOCK FALSE
