SPECIFICATION HostSpec
CONSTANTS
  Handlers = {"h1", "h2"}
  Tags = {"tag1", "tag2"}
  Definitions = {"wall", "floor"}
  WebEdit = TRUE
  InitialMap <- DeployedMap
  MaxInodes = 3
INVARIANT MapAlwaysWhole
CHECK_DEADLOCK FALSE
