SPECIFICATION Spec
CONSTANTS
  Goals = {"station", "circle"}
  Controller <- BothControllers
  Endless = {"station"}
  AllowRl = TRUE
  MaxGeneration = 2
  Hazards = {"trip", "operator", "recorder_crash", "authority_missing"}
INVARIANTS RunHasOneOwner ArmedTracksValidatedPath
