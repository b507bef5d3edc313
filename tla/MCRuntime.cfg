SPECIFICATION RuntimeSpec
CONSTANTS
  StatusTimeout = 2
  Handlers = {"h1"}
  Tags = {"tag1", "tag2"}
  Definitions = {"wall", "floor"}
  WebEdit = TRUE
  InitialMap <- DeployedMap
  MaxInodes = 3
  MaxRuns = 2
  MaxInputAge = 1
  StateDelay = 1
  HistoryLength = 2
  Samples <- PidSamples
  Configurations <- PidConfigurations
  Limits = {0, 3}
  MaxPidRun = 2
  PidErrorBound = 1
  Scenarios <- CatalogTasks
  Path <- LapOffsets
  Ramp = 4
  Center <- PoolCenter
  PoolMin <- PoolLow
  PoolMax <- PoolHigh
  Vehicle <- MeasuredPoses
  SticksSets <- StickInputs
  MaxElapsed = 10
INVARIANTS
  RuntimeTypeOK
  ClearIsEarned
  MapAlwaysWhole
  AnswerTellsTheMap
  LogsAreBracketed
  NoRecorderLeftBehind
  LogShowsCurrentAbort
  HistoryIsUnbroken
  StaleSampleOnlyAtResume
  BuffersFollowRunner
  RegimeOwnsIntegrals
  SlewedWithinLimit
  NoWindUp
  UntouchedHoldStaysPut
  HoldRestsWhereLeft
PROPERTIES
  EventsFollowTheBoard
  FilesImplementMap
  PolicyFindsTheRun
  ApprovedRunStaysValid
CHECK_DEADLOCK FALSE
