---------------------------- MODULE FieldChecks ----------------------------
(***************************************************************************)
(* The row validator's judgement of one field (RowValidator.validateCol)   *)
(* and, below it, the streaming validators of lists and arrays             *)
(* (validate/container_stream.go) and the checks of strings and scalars    *)
(* (validate/validator.go). Every operator answers whether the text is     *)
(* accepted; the error code is left out.                                   *)
(*                                                                         *)
(* An element type is [kind, enum]; a column is                            *)
(* [kind, element, length, rows, cols], a dimension being 0 when the       *)
(* header does not fix it.                                                 *)
(***************************************************************************)
EXTENDS Temporals

CONSTANTS MaxTimezone,    \* 64, the longest time zone name
          maxFieldSize    \* the option of the validator, 0 for no limit

-----------------------------------------------------------------------------
(***************************************************************************)
(* Strings and scalars.                                                    *)
(***************************************************************************)
validateQuotedString(t) == IsQuoted(t) /\ PairedQuotes(Inside(t))

validateUnquotedString(t) ==
  LET trimmed == TrimASCIISpace(t)
  IN /\ trimmed # <<>>
     /\ \A i \in DOMAIN trimmed : trimmed[i] \notin IsForbiddenInString
     /\ {trimmed[1], trimmed[Len(trimmed)]} \cap IsUnicodeEdgeWS = {}

ValidateTimezone(t) == Len(t) <= MaxTimezone

\* The pre-bound check of a scalar column (NewRowValidator).
validateFn(t, type) ==
  CASE type.kind = "string" -> TRUE
    [] type.kind = "timezone" -> ValidateTimezone(t)
    [] type.kind = "enum" -> Lookup(type.enum, t).ok
    [] type.kind = "int" -> ValidateInt(t)
    [] type.kind = "float" -> ValidateFloat(t)
    [] type.kind = "decimal" -> ValidateDecimal(t)
    [] type.kind = "bool" -> ValidateBool(t)
    [] type.kind = "date" -> ValidateDate(t)
    [] type.kind = "time" -> ValidateTime(t)
    [] type.kind = "timestamp" -> ValidateTimestamp(t)
    [] type.kind = "datetime" -> ValidateDatetime(t)
    [] type.kind = "datetimetz" -> ValidateDatetimeTZ(t)
    [] type.kind = "duration" -> ValidateDuration(t)
    [] type.kind = "uuid" -> ValidateUUID(t)
    [] type.kind = "hex" -> ValidateBytesHex(t)
    [] type.kind = "b64" -> ValidateBytesB64(t)

\* The check of an element knows neither datetime nor datetimetz.
validateScalarWithDFA(t, type) ==
  type.kind \notin {"datetime", "datetimetz"} /\ validateFn(t, type)

-----------------------------------------------------------------------------
(***************************************************************************)
(* Containers.                                                             *)
(***************************************************************************)
\* Position behind the quote that closes the text opened before i, or behind the end.
AfterQuoted(t, i) ==
  LET closing == {k \in i..Len(t) : /\ t[k] = Quote /\ At(t, k + 1) # Quote
                                    /\ Cardinality({j \in i..k : t[j] = Quote}) % 2 = 1}
  IN IF closing = {} THEN Len(t) + 1 ELSE FirstOf(closing) + 1

\* The element at pos and where the next one begins. A line feed may precede an element,
\* once; a comma may follow it, and a comma may not follow that.
parseNextElement(t, pos, allowNewline) ==
  LET Element(start, end, gap, next) ==
        LET quoted == At(t, start) = Quote
            comma == At(t, gap) = ","
        IN IF \/ start > Len(t)
              \/ Breaks(t, pos, start) > (IF allowNewline THEN 1 ELSE 0)
              \/ ~quoted /\ Breaks(t, start, end) > 0
              \/ Breaks(t, end, gap) > 0
              \/ comma /\ (Breaks(t, gap, next) > 1 \/ At(t, next) = ",")
           THEN Rejected
           ELSE [ok |-> TRUE, element |-> TrimASCIISpace(SubSeq(t, start, end - 1)), quoted |-> quoted,
                 pos |-> next,
                 allowNewline |-> IF comma THEN Breaks(t, gap, next) = 0
                                  ELSE allowNewline /\ Breaks(t, pos, start) = 0]
      Comma(start, end, gap) ==
        Element(start, end, gap, IF At(t, gap) = "," THEN After(t, gap + 1, IsWhitespace) ELSE gap)
      Gap(start, end) == Comma(start, end, After(t, end, IsWhitespace))
      Start(start) == Gap(start, IF At(t, start) = Quote THEN AfterQuoted(t, start + 1)
                                 ELSE FirstOf({k \in start..(Len(t) + 1) : At(t, k) \in {",", NoChar}}))
  IN Start(After(t, pos, IsWhitespace))

\* The loop over the elements of a list.
ListElements(t) ==
  LET Elements[pos \in 1..(Len(t) + 1), allowNewline \in BOOLEAN] ==
        LET AndTheRest(e) == IF e.ok THEN Before(e, Elements[e.pos, e.allowNewline]) ELSE Rejected
        IN IF pos > Len(t) THEN Decoded(<<>>) ELSE AndTheRest(parseNextElement(t, pos, allowNewline))
  IN Elements[1, TRUE]

validateListElement(e, type) ==
  \/ e.element = Null
  \/ e.quoted /\ type.kind = "string" /\ validateQuotedString(e.element)
  \/ ~e.quoted /\ type.kind = "string" /\ validateUnquotedString(e.element)
  \/ ~e.quoted /\ type.kind # "string" /\ At(e.element, 1) # "["
       /\ validateScalarWithDFA(e.element, type)

parseBracketedContent(t) ==
  LET value == TrimASCIISpace(t)
  IN IF Len(value) >= 2 /\ value[1] = "[" /\ value[Len(value)] = "]"
     THEN Decoded(TrimASCIISpace(Inside(value))) ELSE Rejected

\* "N][" and "R,C][", which the stripped brackets leave of the prefixes [N] and [R,C].
\* The number is an int: it wraps around. One line feed may follow.
BehindPrefix(t, i) ==
  IF Breaks(t, i, After(t, i, IsWhitespace)) > 1 THEN Rejected
  ELSE Decoded(TrimASCIISpace(From(t, i)))

Delimiter(t, i) == At(t, i) = "]" /\ At(t, i + 1) = "["

parsePrefix1D(t, fixedLength) ==
  LET start == After(t, 1, IsWhitespace)
      end == AfterDigits(t, start)
      rest == BehindPrefix(t, end + 2)
  IN IF ~(At(t, start) \in Digit \ {"0"} /\ Delimiter(t, end))
     THEN [ok |-> TRUE, length |-> -1, rest |-> t]
     ELSE IF fixedLength > 0 \/ ~rest.ok THEN Rejected
     ELSE [ok |-> TRUE, length |-> Wrapped(Number(SubSeq(t, start, end - 1))), rest |-> rest.value]

parsePrefix2D(t) ==
  LET rows == AfterDigits(t, 1)
      cols == AfterDigits(t, rows + 1)
      rest == BehindPrefix(t, cols + 2)
  IN IF ~(/\ At(t, 1) \in Digit \ {"0"} /\ At(t, rows) = ","
          /\ At(t, rows + 1) \in Digit \ {"0"} /\ Delimiter(t, cols))
     THEN [ok |-> TRUE, rows |-> -1, cols |-> -1, rest |-> t]
     ELSE IF ~rest.ok THEN Rejected
     ELSE [ok |-> TRUE, rows |-> Wrapped(Number(SubSeq(t, 1, rows - 1))),
           cols |-> Wrapped(Number(SubSeq(t, rows + 1, cols - 1))), rest |-> rest.value]

\* Mutant: the check dropped.
MayEndInComma(t) == FALSE
EndsInComma(t) == t # <<>> /\ t[Len(t)] = ","

\* The elements of a list that has as many as it should, still as texts. An expected length
\* that is not positive is not checked.
Counted(elements, prefix, expectedLength) ==
  LET count == Len(elements.value)
  IN IF \/ ~elements.ok
        \/ EndsInComma(TrimASCIISpace(prefix.rest))
        \/ prefix.length >= 0 /\ prefix.length # count
        \/ expectedLength > 0 /\ expectedLength # count
     THEN Rejected
     ELSE elements

BehindLength(prefix, expectedLength) ==
  IF prefix.ok THEN Counted(ListElements(prefix.rest), prefix, expectedLength) ELSE Rejected

InBrackets(content, expectedLength) ==
  IF ~content.ok \/ (content.value = <<>> /\ expectedLength > 0) THEN Rejected
  ELSE IF content.value = <<>> THEN Decoded(<<>>)
  ELSE BehindLength(parsePrefix1D(content.value, expectedLength), expectedLength)

ListTexts(t, expectedLength) == InBrackets(parseBracketedContent(t), expectedLength)

\* Where the row that opens at start ends: the brackets are counted without a look at
\* quotes, two deep at most. 0 when there is no such row.
RowEnd(t, start) ==
  LET Depth(k) == Cardinality({j \in start..k : t[j] = "["}) - Cardinality({j \in start..k : t[j] = "]"})
      ends == {k \in start..Len(t) : Depth(k) = 0}
  IN IF ends = {} \/ \E k \in start..FirstOf(ends) : Depth(k) > 2 THEN 0 ELSE FirstOf(ends)

\* The loop over the rows: their texts, limit of them if there is a prefix (limit >= 0).
RowTexts(t, limit) ==
  LET Rows[pos \in 1..(Len(t) + 1), count \in 0..Len(t)] ==
        LET Row(start, end, gap, next) ==
              IF \/ At(t, start) # "["
                 \/ end = 0
                 \/ Breaks(t, end + 1, gap) > 0
                 \/ At(t, gap) = "," /\ (Breaks(t, gap, next) > 1 \/ next > Len(t))
              THEN Rejected
              ELSE IF limit >= 0 /\ count + 1 >= limit
              THEN IF next > Len(t) THEN Decoded(<<SubSeq(t, start, end)>>) ELSE Rejected
              ELSE Before(SubSeq(t, start, end), Rows[next, count + 1])
            Comma(start, end, gap) ==
              Row(start, end, gap, IF At(t, gap) = "," THEN After(t, gap + 1, IsWhitespace) ELSE gap)
            Gap(start, end) == Comma(start, end, After(t, end + 1, IsWhitespace))
            Start(start) == IF start > Len(t) THEN Decoded(<<>>) ELSE Gap(start, RowEnd(t, start))
        IN Start(After(t, pos, IsWhitespace))
  IN Rows[1, 0]

\* Every row has as many elements as the prefix, the header or the first row says; rows
\* holds an answer of ListTexts for each.
Fits(elements, width) == elements.ok /\ (width = 0 => elements.value = <<>>)
AllFit(rows, width) == IF \A i \in DOMAIN rows : Fits(rows[i], width)
                       THEN Decoded([i \in DOMAIN rows |-> rows[i].value]) ELSE Rejected

LikeFirst(first, texts, expectedCols) ==
  LET width == IF expectedCols = -1 THEN Len(first.value) ELSE expectedCols
  IN IF ~first.ok THEN Rejected
     ELSE AllFit([i \in DOMAIN texts |-> IF i = 1 THEN first ELSE ListTexts(texts[i], width)], width)

Rectangular(texts, expectedCols) ==
  IF texts = <<>> THEN Decoded(<<>>) ELSE LikeFirst(ListTexts(texts[1], expectedCols), texts, expectedCols)

Shaped(texts, prefix, column) ==
  IF \/ ~texts.ok
     \/ prefix.rows >= 0 /\ Len(texts.value) # prefix.rows
     \/ column.rows > 0 /\ Len(texts.value) # column.rows
  THEN Rejected
  ELSE Rectangular(texts.value, IF prefix.cols >= 0 THEN prefix.cols
                                ELSE IF column.cols > 0 THEN column.cols ELSE -1)

BehindShape(prefix, column) ==
  IF \/ ~prefix.ok
     \/ column.rows > 0 /\ prefix.rows >= 0
     \/ column.cols > 0 /\ prefix.cols >= 0
  THEN Rejected
  ELSE Shaped(RowTexts(prefix.rest, prefix.rows), prefix, column)

validate2DArray(t, column) == BehindShape(parsePrefix2D(t), column)

\* The shape of the text decides, not the rank of the column.
Is2D(t) ==
  LET rows == AfterDigits(t, 1)
      cols == AfterDigits(t, rows + 1)
  IN \/ At(t, 1) = "["
     \/ rows > 1 /\ At(t, rows) = "," /\ cols > rows + 1 /\ Delimiter(t, cols)

OneRow(elements) == IF elements.ok THEN Decoded(<<elements.value>>) ELSE Rejected

\* The rows of the elements, still as texts; a list is one row.
ContainerRows(t, column, content) ==
  IF column.kind = "array" /\ ~content.ok THEN Rejected
  ELSE IF column.kind = "array" /\ Is2D(content.value) THEN validate2DArray(content.value, column)
  ELSE OneRow(ListTexts(t, column.length))

AllValid(rows, type) ==
  rows.ok /\ \A r \in DOMAIN rows.value : \A i \in DOMAIN rows.value[r] : validateListElement(rows.value[r][i], type)

\* StreamingListValidator and StreamingArrayValidator.
StreamingValidator(t, column) ==
  AllValid(ContainerRows(t, column, parseBracketedContent(t)), column.element)

-----------------------------------------------------------------------------
(***************************************************************************)
(* A field.                                                                *)
(***************************************************************************)
hasInternalWhitespace(t) == \E i \in DOMAIN t : t[i] \in IsWhitespace

\* validateUnquotedScalar: blanks inside are for strings and times of day with a date.
BlankAllowed == {"string", "datetime", "datetimetz", "timestamp"}

validateScalarField(t, quoted, type) ==
  LET cleaned == TrimASCIISpace(t)
      stringy == type.kind \in {"string", "timezone"}
  IN /\ IF stringy THEN IF quoted THEN validateQuotedString(t) ELSE validateUnquotedString(t)
        ELSE type.kind \in BlankAllowed \/ ~hasInternalWhitespace(cleaned)
     /\ validateFn(IF stringy /\ quoted THEN unescapeDoubledQuotes(Inside(t)) ELSE cleaned, type)

validateCol(t, quoted, column) ==
  /\ quoted => column.kind = "scalar" /\ column.element.kind \in {"string", "timezone"}
  /\ \/ t = Null
     \/ /\ maxFieldSize = 0 \/ Len(t) <= maxFieldSize
        /\ IF column.kind = "scalar" THEN validateScalarField(t, quoted, column.element)
           ELSE StreamingValidator(t, column)
=============================================================================
