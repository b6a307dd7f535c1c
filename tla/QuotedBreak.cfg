SPECIFICATION HistSpec
CONSTANTS
  MaxDepth = 3
  MaxGeneric = 1
  MaxBlocks = 1
  MaxFields = 2
PROPERTY QuotedBreakKept
CHECK_DEADLOCK FALSE
