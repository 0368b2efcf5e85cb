SPECIFICATION Spec
CONSTANTS
  NULL = NULL
  Row <- MCRow
  InitialTables <- MCTables
  Params <- AllSorts
  Limits = {2}
  MaxChanges = 2
  MaxFaults = 2
INVARIANTS
  TypeOK
  ForeignCursorRefused
PROPERTIES
  NoRepeat
  PagesAdvance
  ImplementsContract
