SPECIFICATION BufferSpec
CONSTANTS
  Bytes <- MCBytes
  CR = "CR"
  LF = "LF"
  MaxInput = 4
  ChunkSize = 2
  ChunkIds = {c1, c2, c3, c4, c5}
SYMMETRY ChunkSymmetry
INVARIANTS BufferTypeOK ChunkOwnedOnce UnreadIsNext
PROPERTIES ReleaseKeepsOnlyUnread RefinesByteStream
CHECK_DEADLOCK FALSE
