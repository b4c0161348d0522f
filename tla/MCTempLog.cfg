SPECIFICATION Spec
CONSTANTS
  RecordsPerSector = 2
  Capacity = 4
  MaxU32 = 6
  MaxBatch = 2
  MaxBoots = 2
  MaxLogs = 2
  FlashFaults = {}
  NvsFaults = {}
  MaxInFlight = 1
  MaxLines = 20
  PathFaults = {"lose", "duplicate"}
INVARIANT ReleasedUntilWiped
INVARIANT StoreIsTrue
CHECK_DEADLOCK FALSE
