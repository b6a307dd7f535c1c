---------------------------- MODULE HeaderTypes ----------------------------
(***************************************************************************)
(* The fields of the header: headerdef.ParseHeader with its type           *)
(* expressions and aliases, and what the SDK makes of them: its own types  *)
(* (supr/types.go), the conversion to and from them, and the text the      *)
(* encoder writes for a type.                                              *)
(*                                                                         *)
(* A text is a sequence of tokens: a character, or a word of letters. Two  *)
(* words side by side are a longer word, which is no keyword.              *)
(***************************************************************************)
EXTENDS Scalars, SequencesExt

\* strings.TrimSpace trims Unicode blanks too, but not the invisible characters.
TrimSpace(t) ==
  LET inked == {i \in DOMAIN t : t[i] \notin IsWhitespace \cup {"ws"}}
  IN SubSeq(t, CHOOSE i \in inked \cup {Len(t) + 1} : \A j \in inked : i <= j,
               CHOOSE i \in inked \cup {0} : \A j \in inked : i >= j)

\* The position of the first c, or behind the end.
IndexByte(t, c) ==
  CHOOSE i \in 1..(Len(t) + 1) : At(t, i) \in {c, NoChar} /\ \A j \in 1..(i - 1) : t[j] # c

\* Mutant: a name may have blanks inside.
PunctuationWithoutBlanks == IsForbiddenInString \cup {"+", "."}
Punctuation == IsForbiddenInString \cup IsWhitespace \cup IsUnicodeEdgeWS \cup {"+", "."}
isValidIdentifier(t) ==
  /\ t # <<>>
  /\ \A i \in DOMAIN t : t[i] \notin Punctuation
  /\ t[1] \notin {"_", "-"}

-----------------------------------------------------------------------------
(***************************************************************************)
(* Aliases.                                                                *)
(***************************************************************************)
scalarKindToCanonical ==
  [int |-> <<"int">>, float |-> <<"float">>, decimal |-> <<"decimal">>, bool |-> <<"bool">>,
   string |-> <<"string">>, hex |-> <<"bytes", "<", "hex", ">">>, b64 |-> <<"bytes", "<", "b64", ">">>,
   date |-> <<"date">>, time |-> <<"time">>, timestamp |-> <<"timestamp">>,
   datetime |-> <<"datetime">>, datetimetz |-> <<"datetimetz">>, duration |-> <<"duration">>,
   timezone |-> <<"timezone">>, uuid |-> <<"uuid">>]
scalarKindToSmall ==
  [int |-> <<"int">>, float |-> <<"flt">>, decimal |-> <<"dec">>, bool |-> <<"bl">>,
   string |-> <<"str">>, hex |-> <<"hex">>, b64 |-> <<"b64">>, date |-> <<"dat">>, time |-> <<"tm">>,
   timestamp |-> <<"ts">>, datetime |-> <<"dt">>, datetimetz |-> <<"dtz">>, duration |-> <<"dur">>,
   timezone |-> <<"tz">>, uuid |-> <<"uu">>]
scalarKindToTiny ==
  [int |-> <<"i">>, float |-> <<"f">>, decimal |-> <<"d">>, bool |-> <<"b">>, string |-> <<"s">>,
   hex |-> <<"bx">>, b64 |-> <<"b6">>, date |-> <<"da">>, time |-> <<"t">>, timestamp |-> <<"ts">>,
   datetime |-> <<"dt">>, datetimetz |-> <<"dtz">>, duration |-> <<"du">>, timezone |-> <<"z">>,
   uuid |-> <<"u">>]
ScalarKinds == DOMAIN scalarKindToCanonical

\* The parser has a table of its own, from alias to kind.
aliasToScalarKind ==
  [int |-> "int", float |-> "float", decimal |-> "decimal", bool |-> "bool", string |-> "string",
   date |-> "date", time |-> "time", timestamp |-> "timestamp", datetime |-> "datetime",
   datetimetz |-> "datetimetz", duration |-> "duration", timezone |-> "timezone", uuid |-> "uuid",
   flt |-> "float", dec |-> "decimal", bl |-> "bool", str |-> "string", hex |-> "hex", b64 |-> "b64",
   dat |-> "date", tm |-> "time", ts |-> "timestamp", dt |-> "datetime", dtz |-> "datetimetz",
   dur |-> "duration", tz |-> "timezone", uu |-> "uuid",
   i |-> "int", f |-> "float", d |-> "decimal", b |-> "bool", s |-> "string", bx |-> "hex",
   b6 |-> "b64", da |-> "date", t |-> "time", du |-> "duration", z |-> "timezone", u |-> "uuid"]

containerKeywordToSmall == [list |-> "li", arr |-> "ar", enum |-> "en"]
\* Mutant: two aliases swapped.
TinyKeywordsSwapped == [list |-> "a", arr |-> "l", enum |-> "e"]
containerKeywordToTiny == [list |-> "l", arr |-> "a", enum |-> "e"]
containerKeywordAliasToCanonical ==
  [list |-> "list", arr |-> "arr", enum |-> "enum", li |-> "list", ar |-> "arr", en |-> "enum",
   l |-> "list", a |-> "arr", e |-> "enum"]

-----------------------------------------------------------------------------
(***************************************************************************)
(* The parser. A type is [kind, element, rank, length, rows, cols] and an  *)
(* element [kind, enum], as in FieldChecks.                                *)
(***************************************************************************)
\* The word before "<", "" when it is none.
extractContainerKeyword(expr) ==
  LET before == TrimSpace(SubSeq(expr, 1, IndexByte(expr, "<") - 1))
  IN IF Len(before) = 1 THEN before[1] ELSE ""

\* "list", "arr" or "enum", or "" for a word that opens no container.
resolveContainerKeywordAlias(word) ==
  IF word \in DOMAIN containerKeywordAliasToCanonical THEN containerKeywordAliasToCanonical[word] ELSE ""

\* What is between the brackets behind the keyword, and what follows them; only spaces may
\* stand between the keyword and its bracket.
extractGeneric(expr) ==
  LET start == After(expr, 2, {"sp"})
      Depth(k) == Cardinality({j \in start..k : expr[j] = "<"}) - Cardinality({j \in start..k : expr[j] = ">"})
      ends == {k \in start..Len(expr) : Depth(k) = 0}
      end == CHOOSE k \in ends : \A j \in ends : k <= j
  IN IF At(expr, start) # "<" \/ ends = {} THEN Rejected
     ELSE [ok |-> TRUE, body |-> SubSeq(expr, start + 1, end - 1), rest |-> TrimSpace(From(expr, end + 1))]

\* Atoi: a sign is allowed, and an int is as wide as an int64.
parsePositiveInt(t) ==
  LET digits == IF At(t, 1) \in {"+", "-"} THEN Tail(t) ELSE t
  IN IF digits = <<>> \/ ~AllIn(digits, Digit) THEN Rejected
     ELSE IF At(t, 1) = "-" \/ Number(digits) \notin 1..MaxInt THEN Rejected
     ELSE Decoded(Number(digits))

\* The texts between the separators ("strings.Split").
Split(t, c) ==
  LET ends == {i \in 1..(Len(t) + 1) : At(t, i) \in {c, NoChar}}
      End(n) == CHOOSE i \in ends : Cardinality({j \in ends : j < i}) = n - 1
  IN [n \in 1..Cardinality(ends) |-> SubSeq(t, IF n = 1 THEN 1 ELSE End(n - 1) + 1, End(n) - 1)]

Element(kind) == [kind |-> kind, enum |-> <<>>]

parseBytesType(expr) ==
  LET Encoded(encoding) == IF encoding \in {<<"hex">>, <<"b64">>} THEN Decoded(Element(encoding[1])) ELSE Rejected
      Opened(generic) == IF generic.ok /\ generic.rest = <<>> THEN Encoded(TrimSpace(generic.body)) ELSE Rejected
  IN Opened(extractGeneric(expr))

parseScalar(expr) ==
  IF At(expr, 1) = "bytes" /\ At(expr, 2) = "<" THEN parseBytesType(expr)
  ELSE IF Len(expr) = 1 /\ expr[1] \in DOMAIN aliasToScalarKind
       THEN Decoded(Element(aliasToScalarKind[expr[1]])) ELSE Rejected

\* An entry is a name or value=name; the value of a name alone is <<>>.
EnumEntry(entry) ==
  LET equals == IndexByte(entry, "=")
  IN IF equals > Len(entry) THEN [name |-> TrimSpace(entry), value |-> <<>>]
     ELSE [name |-> TrimSpace(From(entry, equals + 1)), value |-> TrimSpace(SubSeq(entry, 1, equals - 1))]

\* No name may be an earlier member's name or value, and no value an earlier member's name.
\* Mutant: values are not compared.
NamesCollide(members, k) ==
  \E j \in 1..(k - 1) : LowerText(members[k].name) = LowerText(members[j].name)
Collides(members, k) ==
  \E j \in 1..(k - 1) :
    \/ LowerText(members[k].name) = LowerText(members[j].name)
    \/ members[k].value # <<>> /\ LowerText(members[k].value) = LowerText(members[j].name)
    \/ LowerText(members[k].name) = LowerText(members[j].value)

parseEnumType(expr) ==
  LET Members(entries, mapped, members) ==
        IF \/ mapped \notin {{}, DOMAIN entries}
           \/ \E k \in DOMAIN members : \/ ~isValidIdentifier(members[k].name)
                                        \/ k \in mapped /\ ~isValidIdentifier(members[k].value)
                                        \/ Collides(members, k)
        THEN Rejected
        ELSE Decoded([kind |-> "enum", enum |-> members])
      Entries(entries) == Members(entries, {k \in DOMAIN entries : Contains(entries[k], "=")},
                                  [k \in DOMAIN entries |-> EnumEntry(entries[k])])
      Opened(generic) == IF generic.ok /\ generic.rest = <<>> THEN Entries(Split(generic.body, ",")) ELSE Rejected
  IN Opened(extractGeneric(expr))

parseElement(body) ==
  LET ByKeyword(keyword, expr) == CASE keyword \in {"list", "arr"} -> Rejected
                                    [] keyword = "enum" -> parseEnumType(expr)
                                    [] keyword = "" -> parseScalar(expr)
      Trimmed(expr) == ByKeyword(resolveContainerKeywordAlias(extractContainerKeyword(expr)), expr)
  IN Trimmed(TrimSpace(body))

ColumnType(kind, element) ==
  [kind |-> kind, element |-> element, rank |-> "flexible", length |-> 0, rows |-> 0, cols |-> 0]

\* The numbers in the brackets behind a container: none, or at most the given number of them.
Suffix(rest, most) ==
  LET Numbers(numbers) ==
        IF Len(numbers) > most \/ (\E k \in DOMAIN numbers : ~numbers[k].ok) THEN Rejected
        ELSE Decoded([k \in DOMAIN numbers |-> numbers[k].value])
      Parts(parts) == Numbers([k \in DOMAIN parts |-> parsePositiveInt(TrimSpace(parts[k]))])
  IN IF rest = <<>> THEN Decoded(<<>>)
     ELSE IF rest[1] # "[" \/ rest[Len(rest)] # "]" THEN Rejected
     ELSE Parts(Split(Inside(rest), ","))

ListType(element, numbers) ==
  [ColumnType("list", element) EXCEPT !.length = IF numbers = <<>> THEN 0 ELSE numbers[1]]
ArrayType(element, numbers) ==
  LET array == ColumnType("array", element)
  IN CASE Len(numbers) = 0 -> array
       [] Len(numbers) = 1 -> [array EXCEPT !.rank = "1D", !.length = numbers[1]]
       [] Len(numbers) = 2 -> [array EXCEPT !.rank = "2D", !.rows = numbers[1], !.cols = numbers[2]]

\* parseListType and parseArrayType.
parseContainerType(keyword, expr) ==
  LET Of(element, suffix) ==
        IF ~element.ok \/ ~suffix.ok THEN Rejected
        ELSE Decoded(IF keyword = "list" THEN ListType(element.value, suffix.value)
                     ELSE ArrayType(element.value, suffix.value))
      Opened(generic) == IF generic.ok THEN Of(parseElement(generic.body),
                                               Suffix(generic.rest, IF keyword = "list" THEN 1 ELSE 2))
                         ELSE Rejected
  IN Opened(extractGeneric(expr))

parseColumnType(expr) ==
  LET AsScalar(element) == IF element.ok THEN Decoded(ColumnType("scalar", element.value)) ELSE Rejected
      ByKeyword(keyword) == IF keyword \in {"list", "arr"} THEN parseContainerType(keyword, expr)
                            ELSE AsScalar(IF keyword = "enum" THEN parseEnumType(expr) ELSE parseScalar(expr))
  IN ByKeyword(resolveContainerKeywordAlias(extractContainerKeyword(expr)))

\* name:type
splitCell(raw) ==
  LET Parts(column, typeExpr) == IF typeExpr = <<>> \/ ~isValidIdentifier(column) THEN Rejected
                                 ELSE [ok |-> TRUE, name |-> column, typeExpr |-> typeExpr]
      Cell(cell, colon) == IF colon > Len(cell) THEN Rejected
                           ELSE Parts(TrimSpace(SubSeq(cell, 1, colon - 1)), TrimSpace(From(cell, colon + 1)))
      Trimmed(cell) == Cell(cell, IndexByte(cell, ":"))
  IN Trimmed(TrimSpace(raw))

\* The columns of a header row without annotations: the names differ, whatever their case.
ParseHeader(fields) ==
  LET Columns_(cells, types) ==
        IF \/ \E k \in DOMAIN fields : ~types[k].ok
           \/ \E j, k \in DOMAIN fields : j < k /\ LowerText(cells[j].name) = LowerText(cells[k].name)
        THEN Rejected
        ELSE Decoded([k \in DOMAIN fields |-> [name |-> cells[k].name, type |-> types[k].value]])
      Split_(cells) ==
        IF \E k \in DOMAIN fields : ~cells[k].ok THEN Rejected
        ELSE Columns_(cells, [k \in DOMAIN fields |-> parseColumnType(cells[k].typeExpr)])
  IN Split_([k \in DOMAIN fields |-> splitCell(fields[k])])

-----------------------------------------------------------------------------
(***************************************************************************)
(* The types of the SDK, Rank telling a container's kind:                  *)
(* [Kind |-> "scalar", ScalarKind], [Kind |-> "enum", Values] or           *)
(* [Kind |-> "container", Rank, ElementType, Dim1, Dim2].                  *)
(***************************************************************************)
Scalar(kind) == [Kind |-> "scalar", ScalarKind |-> kind]
Enum(values) == [Kind |-> "enum", Values |-> values]
\* Mutant: rows and columns swapped.
DimensionsSwapped(rank, element, dim1, dim2) ==
  [Kind |-> "container", Rank |-> rank, ElementType |-> element, Dim1 |-> dim2, Dim2 |-> dim1]
Container(rank, element, dim1, dim2) ==
  [Kind |-> "container", Rank |-> rank, ElementType |-> element, Dim1 |-> dim1, Dim2 |-> dim2]

\* convertScalarType knows no enum, and is called for the element of a container before the
\* enum is looked at: it panics.
ConversionPanics(type) == type.kind # "scalar" /\ type.element.kind = "enum"

convertColumnType(type) ==
  LET element == IF type.element.kind = "enum" THEN Enum(type.element.enum) ELSE Scalar(type.element.kind)
  IN CASE type.kind = "scalar" -> element
       [] type.kind = "list" -> Container(IF type.length # 0 THEN "ListFixed" ELSE "List", element, type.length, 0)
       [] type.kind = "array" ->
            CASE type.rank = "flexible" -> Container("ArrayDynamic", element, 0, 0)
              [] type.rank = "1D" -> Container("Array1D", element, type.length, 0)
              [] type.rank = "2D" -> Container("Array2D", element, type.rows, type.cols)

\* The encoder's way back. It does not keep the length of a list.
toInternalType(t) ==
  LET InternalElement(e) == IF e.Kind = "enum" THEN [kind |-> "enum", enum |-> e.Values] ELSE Element(e.ScalarKind)
  IN IF t.Kind # "container" THEN ColumnType("scalar", InternalElement(t))
     ELSE LET element == InternalElement(t.ElementType)
              array == ColumnType("array", element)
          IN CASE t.Rank \in {"List", "ListFixed"} -> ColumnType("list", element)
               [] t.Rank = "ArrayDynamic" -> array
               [] t.Rank = "Array1D" -> [array EXCEPT !.rank = "1D", !.length = t.Dim1]
               [] t.Rank = "Array2D" -> [array EXCEPT !.rank = "2D", !.rows = t.Dim1, !.cols = t.Dim2]

-----------------------------------------------------------------------------
(***************************************************************************)
(* The text of a type, in the three header modes.                          *)
(***************************************************************************)
Modes == {"canonical", "small", "tiny"}

formatScalarType(kind, mode) ==
  CASE mode = "canonical" -> scalarKindToCanonical[kind]
    [] mode = "small" -> scalarKindToSmall[kind]
    [] mode = "tiny" -> scalarKindToTiny[kind]

formatContainerKeyword(word, mode) ==
  CASE mode = "canonical" -> word
    [] mode = "small" -> containerKeywordToSmall[word]
    [] mode = "tiny" -> containerKeywordToTiny[word]

Generic(word, inside) == <<word, "<">> \o inside \o <<">">>
Comma(i) == IF i > 1 THEN <<",">> ELSE <<>>

formatEnum(values, mode) ==
  Generic(formatContainerKeyword("enum", mode),
          FlattenSeq([i \in DOMAIN values |->
            Comma(i) \o (IF values[i].value = <<>> THEN <<>> ELSE values[i].value \o <<"=">>) \o values[i].name]))

formatType(t, mode) ==
  LET Basic(e) == IF e.Kind = "enum" THEN formatEnum(e.Values, mode) ELSE formatScalarType(e.ScalarKind, mode)
  IN IF t.Kind # "container" THEN Basic(t)
     ELSE LET word == IF t.Rank \in {"List", "ListFixed"} THEN "list" ELSE "arr"
          IN Generic(formatContainerKeyword(word, mode), Basic(t.ElementType))
               \o CASE t.Rank \in {"List", "ArrayDynamic"} -> <<>>
                    [] t.Rank \in {"ListFixed", "Array1D"} -> <<"[">> \o AppendInt(t.Dim1) \o <<"]">>
                    [] t.Rank = "Array2D" ->
                         <<"[">> \o AppendInt(t.Dim1) \o <<",">> \o AppendInt(t.Dim2) \o <<"]">>

\* The fields of the header the encoder writes; columns are [name, type].
serializeHeader(columns, mode) ==
  [i \in DOMAIN columns |-> columns[i].name \o <<":">> \o formatType(columns[i].type, mode)]
=============================================================================
