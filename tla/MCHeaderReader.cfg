SPECIFICATION Spec
CONSTANTS
  MaxInt8 = 2
  MaxWidth = 2
  MaxBlocks = 1
  MaxRows = 2
  MaxBlanks = 1
  MaxHashes = 2
  MaxNotes = 1
  MaxCuts = 1
  MaxLines = 6
INVARIANTS TypeOK ContinuationComments CleanHandOver
PROPERTIES HeaderIsALogicalRow
CHECK_DEADLOCK FALSE
