------------------------------- MODULE Values -------------------------------
(***************************************************************************)
(* One field of a row as its author types it (Typing): after every edit    *)
(* the validator (FieldChecks), the decoder (FieldValues) and the encoder  *)
(* (FieldTexts) are asked about it. The properties compare the three with  *)
(* each other and with definitions of what the types mean that do not      *)
(* come from their code.                                                   *)
(*                                                                         *)
(* Where the three are known to differ, the difference is an operator with *)
(* a name, and the property says that there is no other.                   *)
(***************************************************************************)
EXTENDS Typing

Text == INSTANCE FieldTexts

-----------------------------------------------------------------------------
kind == column.element.kind
IsScalar(kinds) == column.kind = "scalar" /\ kind \in kinds

Trimmed == text = TrimASCIISpace(text)
accepted == said.accepted
decoded == said.decoded
IsField == column.kind \in {"scalar", "list", "array"}
HasValue == decoded.ok /\ decoded # Nil

ReadsBack(t, v, col) == LET Means(answer) == answer.accepted /\ answer.decoded = v
                        IN Means(AskOfField(t, col))

Stringy == {"string", "timezone"}
Calendar == {"date", "timestamp", "datetime", "datetimetz"}

-----------------------------------------------------------------------------
(***************************************************************************)
(* Validator and decoder.                                                  *)
(***************************************************************************)
\* Digits behind the first decimal point.
FractionDigits(t) ==
  IF Contains(t, ".")
  THEN LET point == FirstOf({i \in DOMAIN t : t[i] = "."}) IN AfterDigits(t, point + 1) - point - 1
  ELSE 0

\* A float that strconv cannot represent passes the validator; a duration with more
\* fraction digits than are kept passes the decoder, and so does a text longer than the
\* validator's limit, which the row decoder leaves to the stream.
OnlyValid == kind = "float" /\ OutOfRange(text)
OnlyDecoded == \/ kind = "duration" /\ FractionDigits(text) > NanoDigits
               \/ maxFieldSize > 0 /\ Len(text) > maxFieldSize

\* The validator accepts a scalar exactly when the decoder has a value for it
\* (validate/dfa against decode/decode_*.go), but for the three differences above.
ScalarsAgree ==
  (column.kind = "scalar" /\ kind \notin Stringy /\ Trimmed)
    => IF OnlyValid THEN ~decoded.ok
       ELSE IF OnlyDecoded THEN ~accepted
       ELSE accepted = decoded.ok

\* An int is accepted exactly when it is the canonical text of a number of its width, and
\* decodes to that number: no leading zeros, no "-0", no wrap at either end of the range.
IntTexts == {AppendInt(n) : n \in MinInt..MaxInt}
IntsAreExact ==
  (IsScalar({"int"}) /\ text # Null)
    => /\ decoded.ok <=> text \in IntTexts
       /\ decoded.ok => AppendInt(decoded.value) = text

\* A decimal is [-]digits[.digits] without a leading zero before another digit, never a
\* zero with a sign, and neither the text nor the fraction is longer than its limit.
DecimalText(t) ==
  \E sign \in {<<>>, <<"-">>}, k \in 0..Len(t) :
    LET body == SubSeq(t, Len(sign) + 1, Len(t))
        whole == SubSeq(body, 1, k)
        fraction == SubSeq(body, k + 2, Len(body))
    IN /\ IsPrefix(sign, t) /\ k \in 1..Len(body)
       /\ AllIn(whole, Digit) /\ (whole[1] = "0" => k = 1)
       /\ IF k = Len(body) THEN sign = <<"-">> => whole # <<"0">>
          ELSE /\ body[k + 1] = "." /\ fraction # <<>> /\ AllIn(fraction, Digit)
               /\ Len(fraction) <= MaxFraction
               /\ (sign = <<"-">> /\ whole = <<"0">>) => ~AllIn(fraction, {"0"})
\* The path for a negative number below one does not count its fraction, whose limit
\* (decode_decimal.go:14, dfa/decimal.go:14) a text may so pass.
OverlongFraction(t) ==
  LET fraction == From(t, 4)
  IN /\ Len(t) > 3 /\ t[1] = "-" /\ t[2] = "0" /\ t[3] = "."
     /\ AllIn(fraction, Digit) /\ ~AllIn(fraction, {"0"}) /\ Len(fraction) > MaxFraction

DecimalsAreExact ==
  (IsScalar({"decimal"}) /\ text # Null)
    => /\ DecimalText(text) /\ Len(text) <= MaxDecimal => decoded.ok
       /\ decoded.ok => Len(text) <= MaxDecimal /\ (DecimalText(text) \/ OverlongFraction(text))

\* Days from the beginning of the calendar to the end of a year.
DaysThrough(year) == 365 * year + year \div 4 - year \div 100 + year \div 400
MonthEnds == <<31, 59, 90, 120, 151, 181, 212, 243, 273, 304, 334, 365>>

\* A decoded date is a day of the Gregorian calendar: there are as many days in its month
\* as the length of the year leaves for it.
DateIsReal(d) ==
  LET leap == DaysThrough(d.year) - DaysThrough(d.year - 1) - 365
      End(m) == IF m = 0 THEN 0 ELSE MonthEnds[m] + (IF m >= 2 THEN leap ELSE 0)
  IN d.month \in 1..12 /\ d.day \in 1..(End(d.month) - End(d.month - 1))
DatesAreReal ==
  (IsScalar(Calendar) /\ HasValue)
    => DateIsReal(IF kind = "date" THEN decoded.value ELSE decoded.value.date)

\* A decoded time of day is one, its zone is less than a day away, and no part of a duration
\* is negative (value_types.go, "0+"), but for one whose digits an int does not hold.
Day == 24 * Hour
NumberWraps == \E i \in DOMAIN text : Number(SubSeq(text, i, AfterDigits(text, i) - 1)) > MaxInt
ClockIsReal(c) == /\ c.hour \in 0..23 /\ c.minute \in 0..59 /\ c.second \in 0..59
                  /\ c.nanos \in 0..(TenTo[NanoDigits] - 1)
ClocksAreReal ==
  (column.kind = "scalar" /\ HasValue) =>
    /\ IsScalar({"time"}) => ClockIsReal(decoded.value)
    /\ IsScalar(Calendar \ {"date"}) => /\ ClockIsReal(decoded.value.clock)
                                         /\ decoded.value.offset \in (1 - Day)..(Day - 1)
    /\ IsScalar({"duration"}) => NumberWraps \/ \A part \in DOMAIN NoDuration : decoded.value[part] >= 0

\* A timestamp is a datetime with or without a zone: the three automata, written apart,
\* agree on every text whose fraction is not longer than the digits that are kept. A longer
\* one passes wherever the limit on the whole text leaves room for it.
TimestampsAgree ==
  (IsScalar({"timestamp"}) /\ FractionDigits(text) <= NanoDigits)
    => (ValidateTimestamp(text) <=> ValidateDatetime(text) \/ ValidateDatetimeTZ(text))

\* bytes<hex>: the bytes written in lower case are the text.
HexText(bytes) ==
  LET nibble(n) == IF n < 10 THEN Digits[n + 1] ELSE HexDigits[n - 9]
  IN [i \in 1..(2 * Len(bytes)) |->
        nibble(IF i % 2 = 1 THEN bytes[(i + 1) \div 2] \div 16 ELSE bytes[i \div 2] % 16)]
BytesAreExact ==
  (IsScalar({"hex"}) /\ HasValue) => HexText(decoded.value) = LowerText(text)

\* An enum text means one member, whatever its case: the first with that name or, if no
\* name fits, the first with that value.
EnumsAreFirst ==
  (IsScalar({"enum"}) /\ HasValue)
    => LET enum == column.element.enum
           Means(i) == LowerText(text) \in {LowerText(enum[i].name), LowerText(enum[i].value)}
           chosen == decoded.value
       IN /\ Means(chosen)
          /\ \A i \in DOMAIN enum : Means(i) =>
               \/ i >= chosen
               \/ LowerText(enum[chosen].name) = LowerText(text)

\* What is taken as a scalar has the form of its type, and is decoded to the one value that
\* the text means (decode/decode_*.go and the automata of validate/dfa).
ScalarsAreExact == IntsAreExact /\ DecimalsAreExact /\ BytesAreExact /\ EnumsAreFirst

\* A decoded date or time exists, and the automata of the types that share one take the same
\* texts.
CalendarIsReal == DatesAreReal /\ ClocksAreReal /\ TimestampsAgree

-----------------------------------------------------------------------------
(***************************************************************************)
(* Lists and arrays.                                                       *)
(***************************************************************************)
IsContainer == column.kind \in {"list", "array"}
Rows == decoded.value.items

\* The differences between the two copies of the container code: the validator knows no
\* datetime in a container, only the decoder takes the quotes off an enum, only the decoder
\* looks for a blank line behind "[", and only the validator keeps the rows behind an empty
\* first row empty, or those whose number of columns wraps around to zero in the prefix.
UnknownElement == kind \in {"datetime", "datetimetz"}
QuotedEnum == kind = "enum" /\ Contains(text, Quote)
BlankLineInside == \E i \in DOMAIN text :
  /\ text[i] = "[" /\ Breaks(text, i + 1, After(text, i + 1, IsWhitespace)) > 1
RowsBehindEmptyOne ==
  /\ column.kind = "array" /\ HasValue
  /\ decoded.value.rank = 2 /\ Rows # <<>> /\ Rows[1] = <<>>
  /\ \E i \in DOMAIN Rows : Rows[i] # <<>>
ColumnsWrapToZero ==
  LET comma == AfterDigits(text, After(text, 2, IsWhitespace))
      columns == Number(SubSeq(text, comma + 1, AfterDigits(text, comma + 1) - 1))
  IN /\ column.kind = "array" /\ HasValue /\ decoded.value.rank = 2
     /\ At(text, comma) = "," /\ columns > MaxInt /\ Wrapped(columns) = 0

\* Those between the two checks of a scalar, in an element; a time zone, which an element
\* cannot quote, has a greatest length in the validator only.
ElementsOf(v) ==
  CASE column.kind = "list" -> {v.value[i] : i \in DOMAIN v.value}
    [] column.kind = "array" /\ v.value.rank = 1 -> {v.value.items[i] : i \in DOMAIN v.value.items}
    [] column.kind = "array" /\ v.value.rank = 2 ->
         UNION {{v.value.items[i][j] : j \in DOMAIN v.value.items[i]} : i \in DOMAIN v.value.items}
    [] OTHER -> {v}
FloatTooLarge ==
  kind = "float" /\ \E i, j \in DOMAIN text : /\ At(text, i - 1) \in IsWhitespace \cup {"[", ","}
                                              /\ At(text, j + 1) \in IsWhitespace \cup {"]", ","}
                                              /\ OutOfRange(SubSeq(text, i, j))
FractionTooLong ==
  kind = "duration" /\ \E i \in DOMAIN text : text[i] = "." /\ AfterDigits(text, i + 1) - (i + 1) > NanoDigits
ZoneTooLong ==
  kind = "timezone" /\ HasValue /\ \E v \in ElementsOf(decoded) : v # Nil /\ Len(v.value) > MaxTimezone
TooLong == maxFieldSize > 0 /\ Len(text) > maxFieldSize

OnlyValidInside == BlankLineInside \/ FloatTooLarge
OnlyDecodedInside == \/ UnknownElement \/ QuotedEnum \/ RowsBehindEmptyOne \/ ColumnsWrapToZero
                     \/ FractionTooLong \/ ZoneTooLong \/ TooLong

\* The validator accepts a list or an array exactly when the decoder has a value for it,
\* but for those differences (validate/container_stream.go against decode/containers.go and
\* decode/helpers.go).
ValidatorAndDecoderAgree ==
  (IsContainer /\ At(text, 1) # Quote /\ Trimmed)
    => \/ accepted = decoded.ok
       \/ ~accepted /\ decoded.ok /\ OnlyDecodedInside
       \/ accepted /\ ~decoded.ok /\ OnlyValidInside

\* In mode DecodeShallow a program can read every field of a valid file, and no other
\* container; a field that it gets as text in this mode has a value in mode DecodeFull, but
\* for what only the full decoder looks at.
ShallowReadsValid ==
  LET Serves(shallow) ==
        /\ accepted => shallow.ok
        /\ IsContainer /\ shallow.ok =>
             /\ accepted \/ TooLong
             /\ OnlyValidInside \/ (decoded.ok /\ (shallow = Nil <=> decoded = Nil))
  IN (IsField /\ At(text, 1) # Quote /\ Trimmed /\ text # <<>> /\ ~OnlyValid)
       => Serves(DecodeShallow(text, column))

\* The decoder panics only on a text that the validator rejects, and only for a length beyond
\* what a slice can have, in the header or in the prefix: a program that reads valid fields
\* never does (decode/containers.go:48-53, 309-313).
LengthTooGreat ==
  \/ \E length \in {column.length, column.rows, column.cols} : length > MaxElements \/ length > MaxRows
  \/ \E i \in DOMAIN text :
       LET number == SubSeq(text, i, AfterDigits(text, i) - 1)
       IN /\ number # <<>> /\ At(text, AfterDigits(text, i)) \in {",", "]"}
          /\ Number(number) > MaxElements \/ Number(number) > MaxRows
PanicsOnInvalid == decoded = Value!Panicked => ~accepted /\ LengthTooGreat

\* The three readers of a list or an array take the same texts, but for the differences
\* above: the validator, the decoder, and the decoder in its shallow mode.
ContainersAgree ==
  ValidatorAndDecoderAgree /\ ShallowReadsValid /\ (IsContainer => PanicsOnInvalid)

\* What the header says about the shape holds for every value: a list has its fixed
\* length, an array of rank 2 its rows and columns and, behind a first row that is not
\* empty, rows of one length. A literal of the other rank is not looked at: only
\* ShapeIgnored values break it.
ShapeIgnored == \/ column.rank = "1D" /\ decoded.value.rank = 2
                \/ column.rank = "2D" /\ decoded.value.rank = 1
FixedShapesHold ==
  (IsContainer /\ HasValue)
    => \/ column.kind = "list" /\ (column.length > 0 => Len(decoded.value) = column.length)
       \/ column.kind = "array" /\ ShapeIgnored
       \/ /\ column.kind = "array" /\ decoded.value.rank = 1
          /\ column.length > 0 => Len(Rows) = column.length
       \/ /\ column.kind = "array" /\ decoded.value.rank = 2
          /\ column.rows > 0 => Len(Rows) = column.rows
          /\ \A i \in DOMAIN Rows : column.cols > 0 => Len(Rows[i]) = column.cols
          /\ \/ RowsBehindEmptyOne \/ ColumnsWrapToZero
             \/ \A i \in DOMAIN Rows : Len(Rows[i]) = Len(Rows[1])

\* A list with the prefix [N] has N elements, as long as N is a number an int can hold.
\* A greater one wraps around to a negative length, which nothing checks.
PrefixesCount ==
  (column.kind = "list" /\ HasValue /\ At(text, 2) \in Digit \ {"0"})
    => LET end == AfterDigits(text, 2)
           written == Number(SubSeq(text, 2, end - 1))
       IN (SubSeq(text, end, Len(text)) # <<>> /\ At(text, end) = "]" /\ At(text, end + 1) = "[")
            => (Len(decoded.value) = written \/ written > MaxInt)

\* The commas outside quotes separate the elements of a list: there is one element more
\* than there are commas, unless two elements meet without one, and then the first is
\* quoted (the parser does not ask for a comma behind a closing quote). A quote in a time
\* zone is a character as any other.
Unquoted == {i \in DOMAIN text : \/ kind = "timezone"
                                 \/ Cardinality({j \in 1..(i - 1) : text[j] = Quote}) % 2 = 0}
QuoteMeetsElement ==
  \E i \in DOMAIN text : /\ text[i] = Quote /\ i + 1 \in Unquoted
                         /\ At(text, After(text, i + 1, IsWhitespace)) \notin {",", "]"}
CommasSeparate ==
  (column.kind = "list" /\ HasValue /\ decoded.value # <<>>)
    => \/ Len(decoded.value) = 1 + Cardinality({i \in Unquoted : text[i] = ","})
       \/ QuoteMeetsElement /\ kind \in {"string", "enum"}

\* The lengths in the header, in the prefix and in the text are those of the decoded value.
ShapesHold == FixedShapesHold /\ PrefixesCount /\ CommasSeparate

-----------------------------------------------------------------------------
(***************************************************************************)
(* Encoder.                                                                *)
(***************************************************************************)
\* The Go type of what the decoder returns for a scalar kind.
DecodedType ==
  [int |-> "int64", float |-> "float64", bool |-> "bool", string |-> "string",
   timezone |-> "string", uuid |-> "string", decimal |-> "Decimal", hex |-> "bytes",
   b64 |-> "bytes", enum |-> "EnumField", date |-> "Date", time |-> "Time",
   timestamp |-> "Timestamp", datetime |-> "Datetime", datetimetz |-> "DatetimeTZ",
   duration |-> "Duration"]

\* What is lost between the decoder and the encoder: a duration of zero, or one whose number
\* wrapped around; a string or a time zone that looks like the null literal, or that has a
\* Unicode blank at an end, which only a control character has quotes for; a container of those, or of time zones that are written in quotes.
EdgeBlank(t) == t # <<>> /\ {t[1], t[Len(t)]} \cap (IsUnicodeEdgeWS \ Text!Control) # {}
LostScalar(v) ==
  \/ kind = "duration" /\ v # Nil
       /\ (v.value = NoDuration \/ \E f \in DOMAIN v.value : v.value[f] < 0)
  \/ kind \in Stringy /\ v # Nil /\ (v.value = Null \/ EdgeBlank(v.value))
  \/ kind = "timezone" /\ IsContainer /\ v # Nil /\ Text!needsQuotingBytes(v.value)

\* String of a calendar value or a duration (value_conversions.go, "a parseable literal").
Literal(v) ==
  CASE kind = "date" -> DateString(v)
    [] kind = "time" -> TimeString(v)
    [] kind = "datetime" -> DatetimeString(v)
    [] kind \in {"timestamp", "datetimetz"} -> TimestampString(v)
    [] kind = "duration" -> DurationString(v)

\* The texts that stand for the decoded value: what the encoder writes for it, for every kind
\* it has its own formatter for, and what String returns, unless the number wrapped around.
HasFormatter == accepted /\ kind # "float" /\ \A v \in ElementsOf(decoded) : ~LostScalar(v)
HasLiteral == IsScalar(Calendar \cup {"time", "duration"}) /\ ~(kind = "duration" /\ NumberWraps)
Rewritten(out) == (IF out.ok /\ HasFormatter THEN {out.value} ELSE {})
                    \cup (IF HasLiteral THEN {Literal(decoded.value)} ELSE {})

\* The encoder refuses a decoded value only for its Go type (decimal, bytes and enum, which
\* it wants as strings) or for a shape the reader did not look at.
RefusedKinds == {"decimal", "hex", "b64", "enum"}
MayBeRefused == kind \in RefusedKinds \/ (column.kind = "array" /\ (ShapeIgnored \/ RowsBehindEmptyOne))

Survives(out) == /\ accepted => out.ok \/ MayBeRefused
                 /\ \A t \in Rewritten(out) : ReadsBack(t, decoded, column)

\* A value that was read and goes back to text, by the encoder or by its String, is refused
\* for one of these reasons or reads as the same value, but for what is lost above.
RewrittenReadsBack ==
  (IsField /\ HasValue) => Survives(Text!AppendValue(decoded, DecodedType[kind], column))

\* Any string, written alone, in a list or in the only row of an array, reads back, but for
\* the lost ones and, in an array of rank 2, for brackets that do not match: the reader
\* looks for the end of a row without regard to quotes.
StringType == [kind |-> "string", enum |-> <<>>]
OfStrings(container, rank) == [kind |-> container, element |-> StringType, rank |-> rank,
                               length |-> 0, rows |-> 0, cols |-> 0]
IsTextOf(out, v, col) == out.ok /\ ReadsBack(out.value, v, col)
StringSurvives(v, col) == IsTextOf(Text!AppendValue(v, "string", col), v, col)
RowBreaks(t) == LET inRow == <<"[">> \o t \o <<"]">> IN Check!RowEnd(inRow, 1) # Len(inRow)
AnyStringReadsBack ==
  (IsScalar({"string"}) /\ text # Null /\ ~EdgeBlank(text) /\ (maxFieldSize > Len(text) + 6))
    => LET v == Decoded(text)
           Holding == [scalar |-> v, list |-> Decoded(<<v, v>>),
                       array |-> Decoded([rank |-> 2, items |-> <<<<v>>>>])]
       IN \A container \in DOMAIN Holding :
            \/ container = "array" /\ RowBreaks(text)
            \/ StringSurvives(Holding[container], OfStrings(container, "flexible"))

\* The two ways to write a string agree, but for a Unicode blank at an end, which only
\* EncodeString puts between quotes (encoders.go:743), and for the character DEL, which only
\* appendString takes for a control character (encoders.go:431 against 758).
EncodersAgree ==
  IsScalar({"string"})
    => \/ Text!EncodeString(Decoded(text)) = Text!appendString(text)
       \/ EdgeBlank(text) /\ Text!appendString(text) = text
       \/ Contains(text, "del") /\ Text!EncodeString(Decoded(text)) = text

\* Both: what a program writes as a string is the string that is read.
StringsReadBack == AnyStringReadsBack /\ EncodersAgree
=============================================================================
