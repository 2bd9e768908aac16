SPECIFICATION FairSpec
CONSTANTS
  Lockers = {"null", "mutex"}
  MaxSize = 2
  Backups = 2
  EventsEnabled = FALSE
  Descendants = TRUE
  MaxAttempts = 2
  MaxChunk = 2
  Found <- MCFound
  MaxByte = 6
  TailLengths = {2}
  IntLimit = 8
  ReadArgs <- MCReadArgs
INVARIANTS
  NewestDataKept
  CurrentBounded
  TailNeverRepeats
  OutputAccepted
  ReadsAreExact
PROPERTIES
  LoggerCloses
CHECK_DEADLOCK FALSE
