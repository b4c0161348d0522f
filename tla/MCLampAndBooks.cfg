SPECIFICATION LampAndBooksSpec
CONSTANTS
  NoId = none
  \* The lamp
  Ids = {a, b}
  Capacities = {1}
  Expiries = {2, 6}
  Rate = 3
  Kilo = 2
  Tolerance = 1
  MaxCommits = 2
  MaxShare = 1
  MaxNow = 6
  VerifyTime = 1
  LoopPeriod = 1
  CellsPerPass = 1
  \* The books
  Boards = {b1, b2}
  Sats = {1, 2}
  Repeat = 2
  CommitRepeat = 2
  MaxChannels = 3
  MaxSeq = 2
  MaxCatchUp = 1
  MissedAcks = FALSE
  CrashPoints <- OutsideCommit
INVARIANT MeterFollowsChannel
INVARIANT LightIsPaidFor
INVARIANT BoardsFollowBooks
INVARIANT ListenersJoin
SYMMETRY LampAndBooksSymmetry
CHECK_DEADLOCK FALSE
