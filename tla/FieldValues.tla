---------------------------- MODULE FieldValues ----------------------------
(***************************************************************************)
(* The row decoder's reading of one field: decodeScalarValue for scalars,  *)
(* the list and array decoders of decode/containers.go and their own       *)
(* copies of the container helpers (decode/helpers.go), which the          *)
(* validator's copies in FieldChecks are meant to agree with.              *)
(*                                                                         *)
(* An answer is Rejected, Nil for the null literal or Decoded(value); the  *)
(* value of a list is the sequence of its elements' answers, that of an    *)
(* array [rank, items], the items of rank 2 being such lists. Room for a   *)
(* container is made before its elements are read, and make panics when    *)
(* the length is beyond what a slice can have.                             *)
(***************************************************************************)
EXTENDS Temporals

CONSTANTS MaxElements,   \* the greatest capacity of a []any
          MaxRows        \* the greatest capacity of a [][]any

Panicked == [ok |-> FALSE, panics |-> TRUE]

\* Whatever is between two quotes is unescaped; any other text is the value itself.
decodeString(t) == IF IsQuoted(t) THEN unescapeDoubledQuotes(Inside(t)) ELSE t

\* A uuid is kept as the text that was read.
decodeScalarValue(t, type) ==
  CASE t = Null -> Nil
    [] t # Null /\ type.kind \in {"string", "timezone"} -> Decoded(decodeString(t))
    [] t # Null /\ type.kind = "enum" -> Lookup(type.enum, t)
    [] t # Null /\ type.kind = "int" -> decodeInt(t)
    [] t # Null /\ type.kind = "float" -> decodeFloat(t)
    [] t # Null /\ type.kind = "decimal" -> decodeDecimal(t)
    [] t # Null /\ type.kind = "bool" -> decodeBool(t)
    [] t # Null /\ type.kind = "date" -> decodeDate(t)
    [] t # Null /\ type.kind = "time" -> decodeTime(t)
    [] t # Null /\ type.kind = "timestamp" -> decodeTimestamp(t)
    [] t # Null /\ type.kind = "datetime" -> decodeDatetime(t)
    [] t # Null /\ type.kind = "datetimetz" -> decodeDatetimeTZ(t)
    [] t # Null /\ type.kind = "duration" -> decodeDuration(t)
    [] t # Null /\ type.kind = "uuid" -> IF decodeUUID(t).ok THEN Decoded(t) ELSE Rejected
    [] t # Null /\ type.kind = "hex" -> decodeBytesHex(t)
    [] t # Null /\ type.kind = "b64" -> decodeBytesB64(t)

-----------------------------------------------------------------------------
(***************************************************************************)
(* The helpers.                                                            *)
(***************************************************************************)
validateQuotedStringStructure(t) == IsQuoted(t) /\ PairedQuotes(Inside(t))

validateUnquotedStringStructure(t) ==
  LET trimmed == TrimASCIISpace(t)
  IN /\ trimmed # <<>>
     /\ ~\E i \in DOMAIN trimmed : trimmed[i] \in IsForbiddenInString
     /\ trimmed[1] \notin IsUnicodeEdgeWS /\ trimmed[Len(trimmed)] \notin IsUnicodeEdgeWS

\* A text from which blanks are about to be trimmed may begin with one line feed, not two.
TrimmedBehind(t) ==
  IF Breaks(t, 1, After(t, 1, IsWhitespace)) > 1 THEN Rejected ELSE Decoded(TrimASCIISpace(t))

parseBracketedContent(t) ==
  LET value == TrimASCIISpace(t)
  IN IF Len(value) < 2 \/ value[1] # "[" \/ value[Len(value)] # "]" THEN Rejected
     ELSE TrimmedBehind(Inside(value))

\* [length, rest], the length being -1 without a prefix; rest is an answer.
parsePrefix1D(t, fixedLength) ==
  LET start == After(t, 1, IsWhitespace)
      end == AfterDigits(t, start)
  IN IF /\ At(t, start) \in Digit \ {"0"}
        /\ At(t, end) = "]" /\ At(t, end + 1) = "["
     THEN [length |-> Wrapped(Number(SubSeq(t, start, end - 1))),
           rest |-> IF fixedLength > 0 THEN Rejected ELSE TrimmedBehind(From(t, end + 2))]
     ELSE [length |-> -1, rest |-> Decoded(t)]

parsePrefix2D(t) ==
  LET comma == AfterDigits(t, 1)
      end == AfterDigits(t, comma + 1)
  IN IF /\ At(t, 1) \in Digit \ {"0"} /\ At(t, comma) = ","
        /\ At(t, comma + 1) \in Digit \ {"0"} /\ At(t, end) = "]" /\ At(t, end + 1) = "["
     THEN [rows |-> Wrapped(Number(SubSeq(t, 1, comma - 1))),
           cols |-> Wrapped(Number(SubSeq(t, comma + 1, end - 1))),
           rest |-> TrimmedBehind(From(t, end + 2))]
     ELSE [rows |-> -1, cols |-> -1, rest |-> Decoded(t)]

\* parseNextElement in the four scans of the code, each over the blanks or the element.
parseNextElement(t, pos, allowNewline) ==
  LET Closes(start, k) == t[k] = Quote /\ At(t, k + 1) # Quote
                          /\ Cardinality({i \in start..k : t[i] = Quote}) % 2 = 0
      Element(start, quoted, end, gap, next) ==
        IF \/ Breaks(t, pos, start) > 1 \/ (Breaks(t, pos, start) = 1 /\ ~allowNewline)
           \/ start > Len(t)
           \/ ~quoted /\ \E k \in start..(end - 1) : t[k] = "\n"
           \/ \E k \in end..(gap - 1) : t[k] = "\n"
           \/ next > gap /\ (Breaks(t, gap, next) > 1 \/ At(t, next) = ",")
        THEN Rejected
        ELSE Decoded([text |-> TrimASCIISpace(SubSeq(t, start, end - 1)), quoted |-> quoted, pos |-> next,
                      allowNewline |-> IF next > gap THEN Breaks(t, gap, next) = 0
                                       ELSE allowNewline /\ Breaks(t, pos, start) = 0])
      Comma(start, quoted, end, gap) ==
        Element(start, quoted, end, gap, IF At(t, gap) = "," THEN After(t, gap + 1, IsWhitespace) ELSE gap)
      Gap(start, quoted, end) == Comma(start, quoted, end, After(t, end, IsWhitespace))
      End(start, closing) == IF closing = {} THEN Len(t) + 1 ELSE FirstOf(closing) + 1
      Start(start) ==
        IF At(t, start) = Quote
        THEN Gap(start, TRUE, End(start, {k \in (start + 1)..Len(t) : Closes(start, k)}))
        ELSE Gap(start, FALSE, After(t, start, {t[i] : i \in DOMAIN t} \ {","}))
  IN Start(After(t, pos, IsWhitespace))

-----------------------------------------------------------------------------
(***************************************************************************)
(* Lists and arrays.                                                       *)
(***************************************************************************)
\* Unlike the validator's, an element of an enum may be quoted.
decodeListElement(text, quoted, type) ==
  IF text = Null THEN Nil
  ELSE IF IF quoted THEN type.kind \notin {"string", "enum"} \/ ~validateQuotedStringStructure(text)
          ELSE At(text, 1) = "[" \/ (type.kind = "string" /\ ~validateUnquotedStringStructure(text))
       THEN Rejected
  ELSE IF type.kind = "string" THEN Decoded(decodeString(text))
  ELSE decodeScalarValue(IF quoted THEN decodeString(text) ELSE text, type)

\* The loop over the elements of a list, still as texts.
ElementTexts(t) ==
  LET Elements[pos \in 1..(Len(t) + 1), allowNewline \in BOOLEAN] ==
        LET AndTheRest(e) == IF e.ok THEN Before(e.value, Elements[e.value.pos, e.value.allowNewline]) ELSE Rejected
        IN IF pos > Len(t) THEN Decoded(<<>>) ELSE AndTheRest(parseNextElement(t, pos, allowNewline))
  IN Elements[1, TRUE]

\* Mutant: the check dropped.
MayEndInComma(t) == FALSE
EndsInComma(t) == t # <<>> /\ t[Len(t)] = ","

\* Mutant: a list that is too long passes.
PrefixTooLong(length, count) == length > count
\* Prefix and header: a length that is not there is not checked.
WrongPrefix(length, count) == length >= 0 /\ length # count
\* Mutant: a list that is too short passes.
TooManyElements(expectedLength, count) == expectedLength > 0 /\ count > expectedLength
WrongLength(expectedLength, count) == expectedLength > 0 /\ expectedLength # count

\* The elements, when no comma follows the last one and there are as many as there should be.
Counted(elements, body, length, expectedLength) ==
  IF \/ ~elements.ok
     \/ EndsInComma(TrimASCIISpace(body))
     \/ WrongPrefix(length, Len(elements.value))
     \/ WrongLength(expectedLength, Len(elements.value))
  THEN Rejected
  ELSE elements

\* The length for which room is made: the prefix's or, without one, the header's.
Room(length, expectedLength) == IF length >= 0 THEN length ELSE expectedLength

BehindPrefix1D(prefix, expectedLength) ==
  IF ~prefix.rest.ok THEN Rejected
  ELSE IF Room(prefix.length, expectedLength) > MaxElements THEN Panicked
  ELSE Counted(ElementTexts(prefix.rest.value), prefix.rest.value, prefix.length, expectedLength)

ListInBrackets(content, expectedLength) ==
  IF ~content.ok \/ (content.value = <<>> /\ expectedLength > 0) THEN Rejected
  ELSE IF content.value = <<>> THEN Decoded(<<>>)
  ELSE BehindPrefix1D(parsePrefix1D(content.value, expectedLength), expectedLength)

\* The elements of a list, still as texts: a text that is no element rejects the list as
\* much as an element without a value does, whichever comes first.
ListTexts(t, expectedLength) == ListInBrackets(parseBracketedContent(t), expectedLength)

\* The bracket that closes the one at start, at most two deep, or 0.
MatchingBracket(t, start) ==
  LET End[k \in start..(Len(t) + 1), open \in Int] ==
        LET Behind(depth) == IF depth = 0 THEN k ELSE IF depth > 2 THEN 0 ELSE End[k + 1, depth]
        IN IF k > Len(t) THEN 0
           ELSE Behind(open + (IF t[k] = "[" THEN 1 ELSE IF t[k] = "]" THEN -1 ELSE 0))
  IN End[start, 0]

\* The loop over the rows, still as texts, limit of them if there is a prefix (limit >= 0):
\* those it reads, and whether it reads on to the end. A row is decoded before what
\* follows it is looked at.
RowTexts(t, limit) ==
  LET Stopped(rows) == [ok |-> FALSE, value |-> rows]
      Rows[pos \in 1..(Len(t) + 1), count \in 0..Len(t)] ==
        LET InFront(row, rest) == [rest EXCEPT !.value = <<row>> \o @]
            Row(row, end, gap, next) ==
              IF Breaks(t, end + 1, gap) > 0 \/ (next > gap /\ (Breaks(t, gap, next) > 1 \/ next > Len(t)))
              THEN Stopped(<<row>>)
              ELSE IF limit >= 0 /\ count + 1 >= limit THEN [ok |-> next > Len(t), value |-> <<row>>]
              ELSE InFront(row, Rows[next, count + 1])
            Comma(row, end, gap) ==
              Row(row, end, gap, IF At(t, gap) = "," THEN After(t, gap + 1, IsWhitespace) ELSE gap)
            Bracket(start, end) ==
              IF t[start] # "[" \/ end = 0 THEN Stopped(<<>>)
              ELSE Comma(SubSeq(t, start, end), end, After(t, end + 1, IsWhitespace))
            Start(start) == IF start > Len(t) THEN Decoded(<<>>) ELSE Bracket(start, MatchingBracket(t, start))
        IN Start(After(t, pos, IsWhitespace))
  IN Rows[1, 0]

\* One answer for all: the values of every one of them, or the first without one.
AllOf(answers) ==
  LET without == {i \in DOMAIN answers : ~answers[i].ok}
  IN IF without # {} THEN answers[FirstOf(without)]
     ELSE Decoded([i \in DOMAIN answers |-> answers[i].value])

\* The rows, each with as many elements as expectedCols says, or, when it is -1, as the first
\* has. A width of 0 is not checked: see Counted.
Rectangular(first, rows, expectedCols) ==
  LET Width == IF expectedCols = -1 THEN Len(first.value) ELSE expectedCols
  IN IF ~first.ok THEN first
     ELSE AllOf([i \in DOMAIN rows |-> IF i = 1 THEN first ELSE ListTexts(rows[i], Width)])

ElementRows(texts, expectedCols) ==
  LET rows == IF texts.value = <<>> THEN Decoded(<<>>)
              ELSE Rectangular(ListTexts(texts.value[1], expectedCols), texts.value, expectedCols)
  IN IF rows.ok /\ ~texts.ok THEN Rejected ELSE rows

Shaped(rows, prefix, column) ==
  IF /\ rows.ok
     /\ \/ prefix.rows >= 0 /\ Len(rows.value) # prefix.rows
        \/ column.rows > 0 /\ Len(rows.value) # column.rows
  THEN Rejected
  ELSE rows

\* Room is made before the first row is looked at.
InRows(t, prefix, column, expectedCols) ==
  IF Room(prefix.rows, column.rows) > MaxRows THEN Panicked
  ELSE Shaped(ElementRows(RowTexts(t, prefix.rows), expectedCols), prefix, column)

BehindPrefix2D(prefix, column) ==
  IF \/ ~prefix.rest.ok
     \/ column.rows > 0 /\ prefix.rows >= 0
     \/ column.cols > 0 /\ prefix.cols >= 0
  THEN Rejected
  ELSE InRows(prefix.rest.value, prefix, column,
              IF prefix.cols >= 0 THEN prefix.cols ELSE IF column.cols > 0 THEN column.cols ELSE -1)

decode2DArray(t, column) == BehindPrefix2D(parsePrefix2D(t), column)

\* The shape of the text decides, not the rank of the column.
Is2D(content) ==
  LET comma == AfterDigits(content, 1)
      end == AfterDigits(content, comma + 1)
  IN \/ At(content, 1) = "["
     \/ /\ comma > 1 /\ At(content, comma) = "," /\ end > comma + 1
        /\ At(content, end) = "]" /\ At(content, end + 1) = "["

\* What a list or an array holds, or why it holds nothing: its rank, 0 for a list, and the rows of its elements, one
\* row unless the rank is 2.
Holding(rank, rows) == IF rows.ok THEN [ok |-> TRUE, rank |-> rank, rows |-> rows.value] ELSE rows
OneRow(elements) == IF elements.ok THEN Decoded(<<elements.value>>) ELSE elements

ArrayTexts(data, column) ==
  IF Len(data) < 2 \/ data[1] # "[" \/ data[Len(data)] # "]" THEN Rejected
  ELSE IF Is2D(TrimASCIISpace(Inside(data))) THEN Holding(2, decode2DArray(TrimASCIISpace(Inside(data)), column))
  ELSE Holding(1, OneRow(ListTexts(data, column.length)))

\* streamingListDecoder and streamingArrayDecoder, as far as the texts of the elements.
ContainerTexts(t, column) ==
  IF column.kind = "list" THEN Holding(0, OneRow(ListTexts(t, column.length)))
  ELSE ArrayTexts(TrimASCIISpace(t), column)

\* The elements are answers themselves: Nil is the null literal.
Elements(row, type) == [i \in DOMAIN row |-> decodeListElement(row[i].text, row[i].quoted, type)]

OfRank(rank, rows) ==
  IF \E r \in DOMAIN rows : \E i \in DOMAIN rows[r] : ~rows[r][i].ok THEN Rejected
  ELSE Decoded(CASE rank = 0 -> rows[1]
                 [] rank = 1 -> [rank |-> 1, items |-> rows[1]]
                 [] rank = 2 -> [rank |-> 2, items |-> rows])

decodeContainer(held, type) ==
  IF ~held.ok THEN held
  ELSE OfRank(held.rank, [r \in DOMAIN held.rows |-> Elements(held.rows[r], type)])

IsNull(t, column) == (IF column.kind = "array" THEN TrimASCIISpace(t) ELSE t) = Null

-----------------------------------------------------------------------------
\* A field as RowDecoder reads it in mode DecodeFull.
decodeFn(t, column) ==
  IF column.kind = "scalar" THEN decodeScalarValue(t, column.element)
  ELSE IF IsNull(t, column) THEN Nil
  ELSE decodeContainer(ContainerTexts(t, column), column.element)
=============================================================================
