SPECIFICATION Spec
CONSTANTS
  MaxInt = 127
  MaxIntDigits = 3
  MaxDecimal = 6
  MaxFraction = 1
  MaxExponent = 3
  FloatLimit = 1800
  NanoDigits = 2
  MaxTimezone = 4
  maxFieldSize = 36
  MaxElements = 60
  MaxRows = 40
  Columns <- MCColumns
  Seeds <- MCSeeds
  Alphabet <- MCAlphabet
  MaxEdits <- MCMaxEdits
INVARIANTS
  ScalarsAgree
  ScalarsAreExact
  CalendarIsReal
  ContainersAgree
  ShapesHold
  RewrittenReadsBack
  StringsReadBack
  HeadersSurvive
  AnnotationsAgree
CHECK_DEADLOCK FALSE
