SPECIFICATION SimSpec
CONSTANTS
  Logs = {l1}
  Values = {0}
  Node = l1
  MaxSeq = 4
  MaxSamples = 2
  MaxLines = 20
  RecordsPerSector = 1
  Sectors = 2
  MaxBoots = 3
  MaxDelay = 1
  MaxLost = 1
  MaxClock = 7
INVARIANT PlacedNearTruth
PROPERTY DeliverySettles
CHECK_DEADLOCK FALSE
