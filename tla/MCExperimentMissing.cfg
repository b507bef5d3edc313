SPECIFICATION Spec
CONSTANTS
  Goals = {"station"}
  Controller <- SameController
  Endless = {}
  AllowRl = FALSE
  MaxGeneration = 1
  Hazards = {"authority_missing"}
INVARIANT FinishedIsDisarmed
