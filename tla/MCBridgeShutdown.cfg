SPECIFICATION FairSpec
CONSTANTS
  Boots = {1}
  Sessions = {s1, s2, s3}
  NoSession = none
  SequenceModulus = 8
  MaxAckLag = 0
  HistoryDepth = 1
  MaxSequence = 2
  MaxGeneration = 1
  Events = {"shutdown"}
CHECK_DEADLOCK FALSE
PROPERTIES NothingEnabledAfterShutdown ShutdownCompletes
