SPECIFICATION FairSpec
CONSTANTS
  Programs <- MCPrograms
  Names <- MCNames
  Priority <- MCPriority
INVARIANTS
  DependenciesFirst
  PlacedOnce
  ResultIsStartOrder
  CycleNeverSorted
PROPERTIES
  SortEnds
CHECK_DEADLOCK FALSE
