----------------------------- MODULE FieldTexts -----------------------------
(***************************************************************************)
(* The text the encoder writes for one value (encode/encoders.go): the     *)
(* append... functions of the row encoder and, in the same file, the       *)
(* Encode... functions that return a string.                               *)
(*                                                                         *)
(* A value is Nil, Decoded(v) with the Go type go, or, for a container,     *)
(* Decoded(sequence). An answer is Rejected (the sentinel errors) or       *)
(* Decoded(text).                                                          *)
(***************************************************************************)
EXTENDS Temporals
LOCAL INSTANCE SequencesExt

\* The Go types appendScalarValue takes for each kind; a string of a calendar type is
\* written as it is.
TakenTypes ==
  [int |-> {"int64"}, float |-> {"float64"}, bool |-> {"bool"}, string |-> {"string"},
   decimal |-> {"string"}, hex |-> {"string"}, b64 |-> {"string"}, timezone |-> {"string"},
   uuid |-> {"string"}, enum |-> {"string"},
   date |-> {"Date", "string"}, time |-> {"Time", "string"},
   timestamp |-> {"Timestamp", "string"}, datetime |-> {"Datetime", "string"},
   datetimetz |-> {"DatetimeTZ", "string"}, duration |-> {"Duration", "string"}]

\* The characters below the space.
Control == {"tab", "\n", "\r", "vt", "nul", "bs"}

\* Control characters, DEL, forbidden characters, and a blank at an end. A Unicode blank is
\* none of these.
needsQuotingBytes(s) ==
  \/ s = <<>>
  \/ \E i \in DOMAIN s : s[i] \in IsForbiddenInString \cup Control \cup {"del"}
  \/ {s[1], s[Len(s)]} \cap {"sp", "tab"} # {}

\* Mutant: quotes inside are not doubled.
QuotedAsItIs(s) == <<Quote>> \o s \o <<Quote>>
appendQuotedString(s) ==
  <<Quote>> \o FlattenSeq([i \in DOMAIN s |-> IF s[i] = Quote THEN <<Quote, Quote>> ELSE <<s[i]>>])
    \o <<Quote>>

appendString(s) == IF needsQuotingBytes(s) THEN appendQuotedString(s) ELSE s

appendScalarValue(v, go, type) ==
  IF go \notin TakenTypes[type.kind] THEN Rejected
  ELSE Decoded(CASE go = "int64" -> AppendInt(v)
                 [] go = "bool" -> AppendBool(v)
                 [] go = "Date" -> appendDate(v)
                 [] go = "Time" -> appendTime(v)
                 [] go = "Timestamp" -> appendTimestamp(v)
                 [] go = "Datetime" -> appendDatetimeVal(v)
                 [] go = "DatetimeTZ" -> appendDatetimeTZ(v)
                 [] go = "Duration" -> appendDuration(v)
                 [] go = "string" /\ type.kind \in {"string", "timezone"} -> appendString(v)
                 [] OTHER -> v)

appendValue(v, go, type) == IF v = Nil THEN Decoded(Null) ELSE appendScalarValue(v.value, go, type)

\* "[", the texts with commas between them, "]"; an element that has no text stops it.
Bracketed(texts) ==
  IF \E i \in DOMAIN texts : ~texts[i].ok THEN Rejected
  ELSE Decoded(<<"[">> \o FlattenSeq([i \in DOMAIN texts |->
                              (IF i > 1 THEN <<",">> ELSE <<>>) \o texts[i].value]) \o <<"]">>)

appendList(list, go, type) == Bracketed([i \in DOMAIN list |-> appendValue(list[i], go, type)])
Matrix(rows, go, type) == Bracketed([i \in DOMAIN rows |-> appendList(rows[i], go, type)])

(***************************************************************************)
(* Arrays: [rank |-> 1, items] and [rank |-> 2, items], items being rows.  *)
(***************************************************************************)
appendArrayDynamic(v, go, type) ==
  IF v.rank = 1 THEN appendList(v.items, go, type)
  ELSE IF \E i \in DOMAIN v.items : Len(v.items[i]) # Len(v.items[1]) THEN Rejected
  ELSE Matrix(v.items, go, type)

appendArray1D(v, go, column) ==
  IF v.rank # 1 \/ Len(v.items) # column.length THEN Rejected
  ELSE appendList(v.items, go, column.element)

\* Mutant: rows and columns swapped.
Array2DTransposed(v, go, column) ==
  IF \/ v.rank # 2 \/ Len(v.items) # column.cols
     \/ \E i \in DOMAIN v.items : Len(v.items[i]) # column.rows
  THEN Rejected
  ELSE Matrix(v.items, go, column.element)

appendArray2D(v, go, column) ==
  IF \/ v.rank # 2 \/ Len(v.items) # column.rows
     \/ \E i \in DOMAIN v.items : Len(v.items[i]) # column.cols
  THEN Rejected
  ELSE Matrix(v.items, go, column.element)

appendArray(v, go, column) ==
  CASE column.rank = "1D" -> appendArray1D(v, go, column)
    [] column.rank = "2D" -> appendArray2D(v, go, column)
    [] column.rank = "flexible" -> appendArrayDynamic(v, go, column.element)

\* The text of a field; go is the Go type of the scalars in it.
AppendValue(v, go, column) ==
  IF v = Nil THEN Decoded(Null)
  ELSE CASE column.kind = "scalar" -> appendValue(v, go, column.element)
         [] column.kind = "list" -> appendList(v.value, go, column.element)
         [] column.kind = "array" -> appendArray(v.value, go, column)

-----------------------------------------------------------------------------
(***************************************************************************)
(* The functions that return a string. needsQuoting trims what             *)
(* strings.TrimSpace does, Unicode blanks included, and has no test of     *)
(* DEL.                                                                    *)
(***************************************************************************)
\* What strings.TrimSpace trims.
Space == {"sp", "tab", "\n", "\r", "vt", "ws"}

\* Mutant: the empty string forgotten.
NeedsQuotingUnlessEmpty(s) ==
  /\ s # <<>>
  /\ \/ {s[1], s[Len(s)]} \cap Space # {}
     \/ \E i \in DOMAIN s : s[i] \in IsForbiddenInString \cup Control
needsQuoting(s) ==
  \/ s = <<>>
  \/ {s[1], s[Len(s)]} \cap Space # {}
  \/ \E i \in DOMAIN s : s[i] \in IsForbiddenInString \cup Control

quoteString(s) ==
  LET Out[i \in 0..Len(s)] ==
        IF i = 0 THEN <<Quote>>
        ELSE Out[i - 1] \o (IF s[i] = Quote THEN <<Quote, Quote>> ELSE <<s[i]>>)
  IN Append(Out[Len(s)], Quote)

EncodeString(v) == IF v = Nil THEN Null
                   ELSE IF needsQuoting(v.value) THEN quoteString(v.value) ELSE v.value
=============================================================================
