SPECIFICATION ReadersSpec
CONSTANTS
  Bytes <- MCBytes
  CR = "CR"
  LF = "LF"
  Comma = ","
  MaxFieldSize = 2
  MaxInput = 3
  ChunkSize = 3
  ChunkIds = {1, 2, 3, 4}
  Caller = "SdkDecoder"
INVARIANTS FieldsInBounds SeenAsDelivered
PROPERTIES ReleasedMemoryBounded EveryRowDelivered RefinesRowStream
CHECK_DEADLOCK FALSE
