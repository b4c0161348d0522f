SPECIFICATION DemosSpec
CONSTANTS
  Viewers = {"control", "observer"}
  CertChannels = {c1, c2}
  Edges = {e1, e2}
  Gates = {"capability", "signature", "channel"}
  NoId = noid
  Free = free
  RefusalMax = 2
  Window = 1
  MaxLines = 4
  MaxSeq = 2
  MaxPoses = 3
  MaxClock = 2
  MaxLives = 2
  Boards = {A, B, C}
  Faulty = {C}
  WrongTiles <- WrongCells
  Preempts = FALSE
  CanLose = TRUE
  TileW = 1
  TileH = 1
  FirstTile <- FirstCell
  Slots = 2
  Ttl = 2
  MaxTime = 1
  MaxReboots = 1
  Outputs = {o1, o2}
  NoOutput = none
  Scripted = FALSE
  MaxCommands = 3
  MaxStarts = 2
  Purchases = {1, 2, 3, 4}
  Nobody = 0
  Chosen <- Sums
  MinSats = 2
  MostSats = 5
  MaxDrain = 1
SYMMETRY DemosSymmetry
INVARIANT ViewsCatchUp
INVARIANT SettledIsComputed
INVARIANT ReleasedIsValidated
INVARIANT KeptUntilSpent
INVARIANT TallyIsExact
CHECK_DEADLOCK FALSE
