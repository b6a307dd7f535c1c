SPECIFICATION Spec
CONSTANTS
  Columns = 2
  BufSize = 4
  MaxOffered = 2
  MaxErrors = 2
  MaxRows = 3
CHECK_DEADLOCK FALSE
INVARIANTS SdkTypeOK OutputIsAccepted VerdictIsRight DecodedRowsAreTheFiles WrittenReadsBack
PROPERTY CloseMeansWritten
