SPECIFICATION FairSpec
CONSTANTS
  Lockers = {"null"}
  MaxSize = 2
  Backups = 2
  EventsEnabled = TRUE
  Descendants = FALSE
  MaxAttempts = 1
  MaxChunk = 2
  Found <- MCNothingFound
  MaxByte = 2
  TailLengths = {2}
  IntLimit = 8
  ReadArgs <- MCReadArgs
PROPERTIES
  LoggerClosesOnExit
CHECK_DEADLOCK FALSE
