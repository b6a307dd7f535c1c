SPECIFICATION ReadersSpec
CONSTANTS
  Bytes <- MCBytes
  CR = "CR"
  LF = "LF"
  Comma = ","
  MaxFieldSize = 0
  MaxInput = 4
  ChunkSize = 3
  ChunkIds = {1, 2, 3, 4, 5}
  Caller = "SdkValidator"
INVARIANT SeenAsDelivered
CHECK_DEADLOCK FALSE
