SPECIFICATION FirstBootSpec
CONSTANTS
  Boots = {1, 2}
  Sessions = {s1, s2, s3}
  NoSession = none
  SequenceModulus = 8
  MaxAckLag = 1
  HistoryDepth = 2
  MaxSequence = 2
  MaxGeneration = 1
  MaxFaults = 1
  Events = {"io_fault", "command_timeout"}
INVARIANTS HonestBoardIsBelieved NoResumeAfterReset AcknowledgedOutputsAreOwn
SYMMETRY SessionSymmetry
