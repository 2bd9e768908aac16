SPECIFICATION Spec
CONSTANTS
  c1 = c1
  c2 = c2
  NoClient = NoClient
  IsProgram = TRUE
  Clients = {c1}
  Operations = {"Start", "Stop", "Signal"}
  StartRetries = 2
  StartSecs = 0
  RestartPause = 1
  AutoRestart = "true"
  Outcomes = {"unexpected", "lost"}
  Descendants = TRUE
  MaxAttempts = 2
INVARIANTS
  DescendantsGoFirst
CHECK_DEADLOCK FALSE
