SPECIFICATION NodeAndBridgeSpec
CONSTANTS
  RecordsPerSector = 2
  Capacity = 4
  MaxU32 = 8
  MaxBatch = 2
  MaxBoots = 3
  MaxLogs = 2
  FlashFaults = {"write"}
  NvsFaults = {"boot", "acked"}
  Logs = {l1}
  Values = {v1,v2}
  MaxSeq = 3
  MaxSamples = 2
  MaxLines = 4
  Noise = noise
  MaxBody = 2
  MaxPosts = 2
SYMMETRY BridgeSymmetry
INVARIANT WindowIsTheRing
INVARIANT NeverReissuedBySoundFlash
INVARIANT NewestSurvives
INVARIANT PromiseKept
INVARIANT ThroughIsEarned
INVARIANT ServerFollowsFile
INVARIANT StoredWasSent
CHECK_DEADLOCK FALSE
