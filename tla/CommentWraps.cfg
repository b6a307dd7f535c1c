SPECIFICATION Spec
CONSTANTS
  MaxInt8 = 127
  MaxWidth = 1
  MaxBlocks = 1
  MaxRows = 3
  MaxBlanks = 0
  MaxHashes = 128
  MaxNotes = 0
  MaxCuts = 0
  MaxLines = 131
  Columns = 2
  MaxErrors = 1
  MaxInvalid = 1
INVARIANT NoCommentInsideRow
CHECK_DEADLOCK FALSE
