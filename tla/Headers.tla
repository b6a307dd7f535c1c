------------------------------ MODULE Headers ------------------------------
(***************************************************************************)
(* What surrounds the values, as its author types it (Typing): a field of  *)
(* the header, read by the parser and written again by the SDK             *)
(* (HeaderTypes); an unquoted field with annotation blocks, and the first  *)
(* line of a file (Annotations).                                           *)
(***************************************************************************)
EXTENDS Typing, Annotations

LOCAL Is(what) == column.kind = what

-----------------------------------------------------------------------------
(***************************************************************************)
(* The header: a column that is there already, and the field being typed.  *)
(***************************************************************************)
header == said.header
IsHeader == Is("header") /\ header.ok

\* A header the SDK can hold: it panics on the list and arr of enums that the format has
\* (supercsv-usage-guide-v1.0.md:191).
IsSdkHeader == IsHeader /\ \A k \in DOMAIN header.value : ~ConversionPanics(header.value[k].type)
sdkColumns == [k \in DOMAIN header.value |->
                [name |-> header.value[k].name, type |-> convertColumnType(header.value[k].type)]]

\* The header that the SDK's encoder writes for a header that was read is read as the same
\* columns, in each of its modes: the tables that write the aliases, the table that reads
\* them and the conversions between the two families of types fit together.
HeaderReadsBack ==
  IsSdkHeader => \A mode \in Modes : ParseHeader(serializeHeader(sdkColumns, mode)) = header

\* The encoder checks values against the type that was read, but for the length of a list,
\* which it forgets: it writes lists of any length into a column of list<T>[N].
LengthForgotten(type) == type.kind = "list" /\ type.length > 0
EncoderKeepsTypes ==
  IsSdkHeader => \A k \in DOMAIN sdkColumns :
                   LET type == header.value[k].type
                   IN \/ toInternalType(sdkColumns[k].type) = type
                      \/ /\ LengthForgotten(type)
                         /\ toInternalType(sdkColumns[k].type) = [type EXCEPT !.length = 0]

\* Every member of an accepted enum can be written by its name, whatever its case, and means
\* itself; its value means the first member with that value. So no text of a data row
\* stands for two members because of the order in which names and values are looked up.
EnumMembersMeanThemselves ==
  IsHeader => LET enum == header.value[2].type.element.enum
                  First(i) == FirstIn({j \in DOMAIN enum : LowerText(enum[j].value) = LowerText(enum[i].value)}, 0)
              IN \A i \in DOMAIN enum :
                   /\ Lookup(enum, enum[i].name) = Decoded(i)
                   /\ enum[i].value # <<>> => Lookup(enum, enum[i].value) = Decoded(First(i))

\* Spaces do not matter, except where they part a word or stand before the bracket of
\* bytes<...>: the same text without them is the same column.
Squeezed == SelectSeq(text, LAMBDA c : c \notin IsWhitespace \cup {"ws"})
BlanksDoNotMatter == IsHeader => ParseHeader(<<FirstField, Squeezed>>) = header

\* A header means the same columns to the parser, to the SDK and, written again, to the next
\* reader, and a text of a data row at most one member of an enum.
HeadersSurvive ==
  HeaderReadsBack /\ EncoderKeepsTypes /\ BlanksDoNotMatter /\ EnumMembersMeanThemselves

-----------------------------------------------------------------------------
(***************************************************************************)
(* Annotations.                                                            *)
(***************************************************************************)
\* A tab in a block, or a lone ")" in a metadata block: the scans of fields keep such a
\* block as part of the value, the scan of lines takes it for an annotation.
TabInBlock == \E i, k \in DOMAIN text : text[i] = "(" /\ i < k /\ text[k] = "tab"
LooseParen == \E i \in DOMAIN text : /\ Doubled(text, i, "(")
                                     /\ \E k \in (i + 2)..(Closing(text, i) - 1) : text[k] = ")"

\* A line holds nothing but annotations exactly when nothing is left of it as a field, and
\* then both ways to count its blocks agree; but for the two differences above.
LinesAndFieldsAgree ==
  (Is("annotation") /\ ~TabInBlock /\ ~LooseParen)
    => /\ isLineLevelCommentOrMeta(text) <=> trimWhitespace(text) # <<>> /\ stripMetadataBlocksBytes(text) = <<>>
       /\ isLineLevelCommentOrMeta(text) => countBlocksOnLine(text) = countSuffixAnnotations(text)

\* Blocks in front of a value and behind it never change it, nor does the value change their
\* number, as long as it has no parenthesis itself.
Annotation(t) == trimWhitespace(t) = <<>> \/ isLineLevelCommentOrMeta(t)
ValueUntouched ==
  (Is("annotation") /\ ~TabInBlock /\ ~LooseParen)
    => \A i \in DOMAIN text : \A j \in i..Len(text) :
         LET value == SubSeq(text, i, j)
             behind == From(text, j + 1)
         IN (/\ AllIn(<<text[i], text[j]>>, {"x"}) /\ ~\E k \in i..j : text[k] \in {"(", ")"}
             /\ Annotation(SubSeq(text, 1, i - 1)) /\ Annotation(behind))
              => /\ stripMetadataBlocksBytes(text) = value
                 /\ countSuffixAnnotations(text) = countBlocksOnLine(behind)

-----------------------------------------------------------------------------
(***************************************************************************)
(* The first line.                                                         *)
(***************************************************************************)
StrictVersion == "v1.0"
opened == NewCSVStream(text, StrictVersion)

\* The bytes 0 and 8 pass for a space and a parenthesis.
ControlsFold == {"nul", "bs"} \cap {text[i] : i \in DOMAIN text} # {}

\* A file that passes the strict version check starts with a line that the scanner skips as
\* the version directive: nothing of it is read as data or counted as an annotation.
StrictLineIsSkipped ==
  (Is("firstline") /\ opened.ok /\ ~ControlsFold)
    => LET line == FirstLine(opened.value)
       IN isLineLevelCommentOrMeta(line) /\ isCanonicalVersionDirectiveLine(line)

\* The scans of lines, of fields and of the first line agree on what an annotation is
\* (csvstream/stream.go), but for the differences above.
AnnotationsAgree == LinesAndFieldsAgree /\ ValueUntouched /\ StrictLineIsSkipped
=============================================================================
