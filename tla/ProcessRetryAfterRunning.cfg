SPECIFICATION Spec
CONSTANTS
  c1 = c1
  c2 = c2
  NoClient = NoClient
  IsProgram = TRUE
  Clients = {c1}
  Operations = {"Start"}
  StartRetries = 2
  StartSecs = 1
  RestartPause = 0
  AutoRestart = "false"
  Outcomes = {"expected"}
  Descendants = FALSE
  MaxAttempts = 2
PROPERTIES
  NoRetryAfterRunning
CHECK_DEADLOCK FALSE
