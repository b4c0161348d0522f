SPECIFICATION BenchAndCellsSpec
CONSTANTS
  \* The fleet and its bench
  Units = {u1}
  Databases = {TRUE, FALSE}
  SdkFails = TRUE
  FleetDomain = dev
  DeviceDomain = dev
  AnyDomain = any
  NoExpiry = never
  Free = free
  Lifetimes = {2}
  TableMax = 2
  BootClock = 0
  MaxZones = 1
  MaxIssued = 2
  MaxIndex = 2
  MaxClock = 2
  MaxRestarts = 1
  \* Frames
  Senders = {s1, s2}
  CellIds = {i1, i2}
  FramesPerCell = 2
  ReasmSlots = 2
  ReasmTtl = 1
  RxQueueLen = 1
  Zeros = zeros
  NoCell = nocell
  MaxOpenings = 3
  MaxMs = 2
  MaxSent = 3
  \* Forwards
  b1 = b1
  b2 = b2
  Relays = {b1, b2}
  Origin = origin
  Route <- TwoHops
  Versions = {"v0", "v1", "v2"}
  Provisioned = {b1, b2}
  CellBSends = 3
  InjectCopies = 2
  MaxFlows = 2
  \* Rules
  Peers = {p1, p2}
  RuleSet <- TwoRules
  RulesMax = 5
  RingSize = 2
  QuorumN = 2
  QuorumWindow = 0
  ScriptOnly = FALSE
  Nothing = nothing
  MaxEvents = 3
  MaxStamp = 1
INVARIANT BurnedStaysBurned
INVARIANT RecipeCoversItsNodes
INVARIANT CleanRunMeansAnchored
PROPERTY LiveGrantsStay
INVARIANT KeptAmongFew
PROPERTY ImplementsCellPath
INVARIANT NoHopLeftOut
INVARIANT PaidOncePerHop
INVARIANT LoneFlowsArrive
INVARIANT QuorumIsHeard
INVARIANT ReportedRulesStay
SYMMETRY CellSymmetry
CHECK_DEADLOCK FALSE
