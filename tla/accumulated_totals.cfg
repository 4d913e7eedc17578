SPECIFICATION Spec
CONSTANTS
  NULL = NULL
  MaxThreads = 2
INVARIANT RowIsOfItsThreads
CHECK_DEADLOCK FALSE
