SPECIFICATION Spec
CONSTANTS
  NULL = NULL
  Row <- MCRow
  InitialTables <- MCTables
  Params <- SomeSorts
  Limits = {2}
  MaxChanges = 0
  MaxFaults = 1
PROPERTIES
  SortChangeIsBadRequest
