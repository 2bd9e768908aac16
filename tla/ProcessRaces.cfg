SPECIFICATION Spec
CONSTANTS
  c1 = c1
  c2 = c2
  NoClient = NoClient
  IsProgram = FALSE
  Clients = {c1, c2}
  Operations = {"Start", "Stop"}
  StartRetries = 2
  StartSecs = 1
  RestartPause = 0
  AutoRestart = "unexpected"
  Outcomes = {"unexpected"}
  Descendants = FALSE
  MaxAttempts = 2
SYMMETRY ClientSymmetry
INVARIANTS
  TypeOK
  AtMostOneRunner
  AtMostOneChild
  LiveChildIsReported
  LiveChildIsSupervised
PROPERTIES
  MonitorPromotesItsOwn
  CommandFixedWhileSignalling
  OnlyStopSilencesStart
  RetriesAreExact
  ImplementsProgram
CHECK_DEADLOCK FALSE
