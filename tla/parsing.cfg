SPECIFICATION Spec
CONSTANTS
  NULL = NULL
  UNSET = UNSET
  nullWord = nullWord
  MALFORMED = MALFORMED
  DefaultText = 3
  StarText = 4
  NullText = 5
  NullPattern = {5}
  LongText = {9}
  Filter <- MCFilter
  LongFilter <- MCLongFilter
  LongLabels <- MCLongLabels
  Token <- MCToken
  maxChecks = 3
  Values <- MCValues
  Rows <- SomeRow
  CanIChecks <- MCCanIChecks
  MaxEdits = 3
INVARIANTS
  AcceptedIsListable
  GetAndPostAgree
  SelectedIfAsked
  BatchIsItsChecks
