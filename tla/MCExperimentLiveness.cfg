SPECIFICATION FairSpec
CONSTANTS
  Goals = {"station", "circle"}
  Controller <- SameController
  Endless = {"station"}
  AllowRl = FALSE
  MaxGeneration = 2
  Hazards = {"operator", "recorder_crash"}
INVARIANT FinishedIsDisarmed
PROPERTIES CancelDisarms GoalEnds
