SPECIFICATION FairSpec
CONSTANTS
  c1 = c1
  c2 = c2
  NoClient = NoClient
  IsProgram = FALSE
  Clients = {c1}
  Operations = {"Start", "Stop"}
  StartRetries = 2
  StartSecs = 1
  RestartPause = 0
  AutoRestart = "true"
  Outcomes = {"unexpected"}
  Descendants = FALSE
  MaxAttempts = 2
PROPERTIES
  StartReturns
  ExitIsNoticed
  StopEndsChild
  StopperEnds
CHECK_DEADLOCK FALSE
