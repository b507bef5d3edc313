SPECIFICATION Spec
CONSTANTS
  Boots = {1, 2}
  Sessions = {s1, s2, s3}
  NoSession = none
  SequenceModulus = 8
  MaxAckLag = 1
  HistoryDepth = 2
  MaxSequence = 3
  MaxGeneration = 1
  Events = {"io_fault", "bad_status", "status_timeout"}
INVARIANTS SessionBindsBoot NewestRequestLeaves
PROPERTIES EnabledFrameIsAuthorized
SYMMETRY SessionSymmetry
