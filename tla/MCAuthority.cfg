SPECIFICATION Spec
CONSTANTS
  Timeout <- TimeoutAtOnce
  AllowRl = TRUE
  Limits = {1}
  InitialLimit = 1
  Producers = {"manual", "pid", "rl"}
  BodyInputs = {"absolute", "lost"}
  TargetInputs = {"altitude_hold", "valid"}
  MaxGeneration = 2
INVARIANTS ArmedIsHealthy EnabledOutputIsFresh
PROPERTY ImplementsContract
