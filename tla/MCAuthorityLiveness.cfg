SPECIFICATION FairSpec
CONSTANTS
  Timeout <- TimeoutStaggered
  AllowRl = TRUE
  Limits = {0, 1}
  InitialLimit = 1
  Producers = {"manual", "rl"}
  BodyInputs = {"absolute"}
  TargetInputs = {"valid"}
  MaxGeneration = 1
PROPERTIES LossStopsThrusters LoweredLimitTakesEffect
