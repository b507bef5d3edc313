SPECIFICATION Spec
CONSTANTS
  Timeout <- TimeoutAtOnce
  AllowRl = FALSE
  Limits = {1}
  InitialLimit = 1
  Producers = {"manual", "pid"}
  BodyInputs = {"absolute"}
  TargetInputs = {"valid"}
  MaxGeneration = 1
INVARIANT TimeoutDisarms
