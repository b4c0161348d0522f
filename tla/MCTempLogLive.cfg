SPECIFICATION FairSpec
CONSTANTS
  RecordsPerSector = 1
  Capacity = 2
  MaxU32 = 4
  MaxBatch = 2
  MaxBoots = 2
  MaxLogs = 1
  FlashFaults = {}
  NvsFaults = {}
  MaxInFlight = 2
  MaxLines = 20
  PathFaults = {"lose"}
PROPERTY ImplementsPromise
PROPERTY EveryReadingAccounted
CHECK_DEADLOCK FALSE
