SPECIFICATION FairSpec
CONSTANTS
  SuccessThreshold = 1
  FailureThreshold = 2
  SuccessAction = TRUE
  FailureActions = {"restart", "stop", "script"}
  Slots = {1, 2, 3}
INVARIANTS
  FailuresAreFresh
  FailedIsActedOn
PROPERTIES
  ActionNeedsFailures
  KeepsActing
CHECK_DEADLOCK FALSE
