SPECIFICATION Spec
CONSTANTS
  Viewers = {"observer"}
  CertChannels = {c1}
  Edges = {e1}
  Gates = {"channel"}
  NoId = noid
  Free = free
  RefusalMax = 1
  Window = 1
  MaxLines = 3
  MaxSeq = 1
  MaxPoses = 1
  MaxClock = 1
  MaxLives = 1
INVARIANT CommitmentsAreShown
CHECK_DEADLOCK FALSE
