SPECIFICATION Spec
CONSTANTS
  c1 = c1
  c2 = c2
  NoClient = NoClient
  IsProgram = TRUE
  Clients = {c1}
  Operations = {"Start", "Stop"}
  StartRetries = 1
  StartSecs = 1
  RestartPause = 0
  AutoRestart = "false"
  Outcomes = {"unexpected"}
  Descendants = FALSE
  MaxAttempts = 1
INVARIANTS
  NoPidWhenIdle
CHECK_DEADLOCK FALSE
