SPECIFICATION Spec
CONSTANTS
  MaxInt8 = 2
  MaxWidth = 2
  MaxBlocks = 1
  MaxRows = 4
  MaxBlanks = 0
  MaxHashes = 3
  MaxNotes = 1
  MaxCuts = 1
  MaxLines = 7
  Columns = 2
  MaxErrors = 2
  MaxInvalid = 2
INVARIANTS TypeOK CommentsOfTheirField LimitIsExact RowsAccountedFor
  ErrorsNameTheirRow
PROPERTIES RefinesLogicalRows CommentFatalOnlyInside
CHECK_DEADLOCK FALSE
