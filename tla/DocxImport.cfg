SPECIFICATION DocxSpec
CONSTANTS
  Documents <- MCDocuments
  Values <- MCValues
  MaxChosen = 3
  MaxNesting = 2
INVARIANTS RefusedOrExact FieldsNest
CHECK_DEADLOCK FALSE
