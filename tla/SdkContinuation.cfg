SPECIFICATION Spec
CONSTANTS
  Columns = 2
  BufSize = 4
  MaxOffered = 2
  MaxErrors = 2
  MaxRows = 2
CHECK_DEADLOCK FALSE
INVARIANT ValidFileFoundValid
