SPECIFICATION HistSpec
CONSTANTS
  MaxDepth = 3
  MaxGeneric = 1
  MaxBlocks = 1
  MaxFields = 2
INVARIANTS TypeOK NestingOK FlagsFollowTokens
PROPERTY LineBreakRule
CHECK_DEADLOCK FALSE
