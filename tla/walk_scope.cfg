SPECIFICATION Spec
CONSTANTS
  NULL = NULL
  Row <- MCRow
  InitialTables <- MCTables
  Params <- ScopeLists
  Limits = {1, 2}
  MaxChanges = 1
  MaxFaults = 2
INVARIANTS
  PageInScope
  PageSize
PROPERTIES
  CursorHasMore
  WalkEnds
