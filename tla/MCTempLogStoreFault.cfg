SPECIFICATION FaultyStoreSpec
CONSTANTS
  Logs = {l1}
  Values = {0}
  MaxSeq = 3
  MaxSamples = 2
  MaxLines = 5
INVARIANT HeldIsJournaled
CHECK_DEADLOCK FALSE
