SPECIFICATION Spec
CONSTANTS
  e1 = e1
  e2 = e2
  Emitters = {e1, e2}
  Types <- MCTypes
  Derives <- MCDerives
  Events = {"PROCESS_STATE"}
  BufferSize = 1
  MaxEvents = 3
  MaxInstances = 2
  MaxPoolSerial = 4
SYMMETRY EmitterSymmetry
INVARIANTS
  HeadIsInFlight
  NoLostWakeup
  SerialsDistinct
PROPERTIES
  QueuesAreFifo
CHECK_DEADLOCK FALSE
