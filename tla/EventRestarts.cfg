SPECIFICATION FairSpec
CONSTANTS
  e1 = e1
  e2 = e2
  Emitters = {e1}
  Types = {"TICK_5"}
  Derives <- MCDerives
  Events = {"TICK"}
  BufferSize = 1
  MaxEvents = 3
  MaxInstances = 2
  MaxPoolSerial = 6
PROPERTIES
  EventsAreAcknowledged
  StoppedPumpEnds
CHECK_DEADLOCK FALSE
