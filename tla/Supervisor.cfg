SPECIFICATION Spec
CONSTANTS
  a = a
  b = b
  l = l
  c1 = c1
  c2 = c2
  Programs = {a, b}
  Listeners = {l}
  AutoStart = {a}
  Files <- MCFiles
  Clients = {c1, c2}
  Operations <- MCOperations
  Selections <- MCSelections
  MaxProcesses = 3
  Callbacks = {1}
  RestartPause = 1
INVARIANTS
  ReloadConverges
  RemovedIsStopped
  ShutdownStopsAll
CHECK_DEADLOCK FALSE
