SPECIFICATION FairSpec
CONSTANTS
  Requests = {r1, r2}
  Kinds = {"v0", "v1", "v2", "bad", "cert", "open", "plain", "pay", "scada"}
  NoId = 0
  RelayDomain = relay
  PaymentDomain = payment
  AnyDomain = any
  NoExpiry = never
  Free = free
  TableMax = 4
  HopCost = 1
  Threshold = 4
  Capacity = 9
  EvidenceCopies = 1
  MaxSeq = 2
  MaxCerts = 2
  MaxChannels = 1
  MaxResets = 1
INVARIANT LoneForwardsAreTaken
INVARIANT BooksCoverBoards
PROPERTY EveryRequestEnds
CHECK_DEADLOCK FALSE
