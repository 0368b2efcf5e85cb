SPECIFICATION Spec
CONSTANTS
  NULL = NULL
  Row <- MCRow
  InitialTables <- MCTables
  Params <- DescendingComposition
  Limits = {1, 2}
  MaxChanges = 1
  MaxFaults = 1
INVARIANTS
  PageInScope
