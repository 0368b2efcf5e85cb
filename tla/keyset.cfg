SPECIFICATION Spec
CONSTANTS
  NULL = NULL
  Rows <- SmallRow
INVARIANTS
  OrderIsTotal
  CursorSelectsAfter
