SPECIFICATION Spec
CONSTANTS
  Boots = {1}
  Sessions = {s1, s2, s3}
  NoSession = none
  SequenceModulus = 8
  MaxAckLag = 0
  HistoryDepth = 1
  MaxSequence = 2
  MaxGeneration = 1
  Events = {"intruder", "malformed", "command_timeout", "calibration"}
INVARIANTS TypeOK AuthorizedAfterDisarm SessionOpensDisabled
SYMMETRY SessionSymmetry
