------------------------------ MODULE MCValues ------------------------------
(***************************************************************************)
(* Small widths and a column for every scalar kind, for lists and for      *)
(* arrays of every rank. Kinds with few characters start from the empty    *)
(* text and grow to every short text; the long ones start from texts of    *)
(* the right shape.                                                        *)
(***************************************************************************)
EXTENDS Values, Headers
LOCAL INSTANCE SequencesExt
LOCAL INSTANCE TLC

\* The characters of a string; "~" is a line feed, "^" a Unicode blank, "|" an invisible
\* character, "%" a vertical tab, "$" DEL, "&" another control character.
T(s) == [i \in 1..Len(s) |->
           LET c == SubSeq(s, i, i)
           IN CASE c = " " -> "sp" [] c = "\"" -> Quote [] c = "~" -> "\n" [] c = "^" -> "ws"
                [] c = "|" -> "zw" [] c = "%" -> "vt" [] c = "$" -> "del" [] c = "&" -> "nul"
                [] OTHER -> c]
TextsOf(S) == {T(s) : s \in S}
CharsOf(s) == {T(s)[i] : i \in 1..Len(s)}

EnumMembers == <<[name |-> T("a"), value |-> T("x")], [name |-> T("bc"), value |-> T("BC")],
                 [name |-> T("d"), value |-> T("X")]>>

Type(k) == [kind |-> k, enum |-> IF k = "enum" THEN EnumMembers ELSE <<>>]
Column_(container, k, rank, length, rows, cols) ==
  [kind |-> container, element |-> Type(k), rank |-> rank, length |-> length, rows |-> rows, cols |-> cols]
ScalarColumn(k) == Column_("scalar", k, "flexible", 0, 0, 0)
ListColumn(k, length) == Column_("list", k, "flexible", length, 0, 0)

\* One row of the table: a column, the texts it starts from, what is typed, how often.
Case(column_, seeds, typed, edits_) ==
  [column |-> column_, seeds |-> TextsOf(seeds), typed |-> CharsOf(typed), edits |-> edits_]

Cases ==
  [int |-> Case(ScalarColumn("int"), {"", "127", "-128"}, "01278-x", 3),
   decimal |-> Case(ScalarColumn("decimal"), {""}, "01-.", 6),
   float |-> Case(ScalarColumn("float"), {"", "1e", "0.5", "nan", "-Inf", "1799", "0.18e4", "-1.8e3"}, "01-.e+", 3),
   bool |-> Case(ScalarColumn("bool"), {"", "true", "fALSE"}, "01tF", 2),
   hex |-> Case(ScalarColumn("hex"), {"", "a0", "F9"}, "09aFg", 3),
   b64 |-> Case(ScalarColumn("b64"), {"", "aB+/", "aA=", "a==="}, "aA/=-", 3),
   uuid |-> Case(ScalarColumn("uuid"), {"01234567-89ab-cdef-0123-456789ABCDEF"}, "0aG-", 1),
   enum |-> Case(ScalarColumn("enum"), {""}, "aAbcdX", 3),
   date |-> Case(ScalarColumn("date"), {"2023-02-28", "2000/02/29", "1900-02-28"},
                 "012389-/", 2),
   time |-> Case(ScalarColumn("time"), {"23:59:59", "00:00:00.12"}, "0259:.", 2),
   timestamp |-> Case(ScalarColumn("timestamp"),
                      {"2024-02-29T23:59:59", "2024-02-29 23:59:59.12Z", "1900/02/28T00:00:00.1+23:59",
                       "2024-01-01T00:00:00.123-00:30", "2024-01-01T00:00:00-00:00"}, "0123459-+:.Z", 1),
   datetime |-> Case(ScalarColumn("datetime"), {"2024-02-29T23:59:59", "2024-02-29 23:59:59.12"},
                     "0123459-+:.Z ", 1),
   datetimetz |-> Case(ScalarColumn("datetimetz"), {"2024-02-29T23:59:59Z", "2024-02-29T23:59:59.1+05:30"},
                       "0123459-+:.Z", 1),
   duration |-> Case(ScalarColumn("duration"), {"P1DT2H", "PT1H2M3.5S", "P", "PT0S", "P99DT0M"}, "0129PTDHMS.", 2),
   timezone |-> Case(ScalarColumn("timezone"), {"", "abcd", "\"a\""}, "ab\"_^", 2),
   string |-> Case(ScalarColumn("string"), {"", "\"a\""}, "|_\" ^~[],%$&", 3),
   ints |-> Case(ListColumn("int", 0), {"[1,1]", "[2][1,1]", "[1]", "[]", "[12,_]"}, "1,[] ~", 2),
   ints2 |-> Case(ListColumn("int", 2), {"[1,1]", "[2][1,1]"}, "1,[] ~", 2),
   prefixed |-> Case(ListColumn("int", 0), {"[12][1]", "[3][1,1]", "[61][1]"}, "123,", 2),
   strings |-> Case(ListColumn("string", 0), {"[\"a\",b]", "[_,\"\"]"}, "a,\" ^[~", 2),
   enums |-> Case(ListColumn("enum", 0), {"[a,\"d\"]", "[]"}, "aX\",", 2),
   datetimes |-> Case(ListColumn("datetime", 0), {"[2024-01-01T00:00:00]"}, "0,T", 1),
   durations |-> Case(ListColumn("duration", 0), {"[PT0S,P1D]"}, "01,_", 1),
   fractions |-> Case(ListColumn("duration", 0), {"[PT0.01S]", "[P1D,PT1.123S]"}, "01,.", 2),
   floats |-> Case(ListColumn("float", 0), {"[1e3]", "[ -0.1e+4 ,1]", "[2e3]"}, "01,e]", 2),
   zones |-> Case(ListColumn("timezone", 0), {"[abcd,_]", "[a/b]"}, "a,\"", 2),
   long |-> Case(ListColumn("int", 0), {"[1,1,1,1,1,1,1,1,1,1,1,1,1,1,1,1,1 ]"}, "1,", 1),
   wide |-> Case(Column_("array", "int", "flexible", 0, 0, 0),
                 {"[1,256][[1]]", "[2,256][[1],[1,1]]", "[256,1][[1]]", "[1,129][[1]]",
                  "[1,61][[1],1]", "[41,61][[]]"}, "156,[", 1),
   huge |-> Case(ListColumn("int", 61), {"[1,1]", "[]"}, "1,[]", 1),
   hugeRows |-> Case(Column_("array", "int", "2D", 0, 41, 1), {"[[1],[1]]"}, "1,[]", 1),
   hugeCols |-> Case(Column_("array", "int", "2D", 0, 1, 61), {"[[1,1]]", "[[1],1"}, "1,[]", 1),
   array |-> Case(Column_("array", "int", "flexible", 0, 0, 0),
                  {"[[1],[1]]", "[1,2][[1,1]]", "[[],[]]", "[1,1]", "[]"}, "1,[] ~", 2),
   array2 |-> Case(Column_("array", "int", "1D", 2, 0, 0), {"[1,1]", "[[1],[1]]", "[2][1,1]"}, "1,[]", 2),
   array12 |-> Case(Column_("array", "int", "2D", 0, 1, 2), {"[[1,1]]", "[1,2][[1,1]]", "[1,1]"}, "1,[]", 2),
   matrix |-> Case(Column_("array", "string", "flexible", 0, 0, 0),
                   {"[[\"[]\"],[\"a\"]]", "[[a,_]]"}, "a,\"[]", 2)]

\* A header field is made of words, a file's first line of words and marks.
Other(what, seeds, typed, edits_) ==
  [column |-> [kind |-> what, element |-> [kind |-> what]], seeds |-> seeds, typed |-> typed, edits |-> edits_]
Generic_(word, inside, suffix) == <<"x", ":", word, "<">> \o inside \o <<">">> \o T(suffix)

HeaderSeeds ==
  {<<"x", ":", alias>> : alias \in DOMAIN aliasToScalarKind}
    \cup {Generic_(word, <<alias>>, suffix) :
            word \in {"list", "li", "l", "arr", "ar", "a"}, alias \in {"int", "dtz", "hex"},
            suffix \in {"", "[2]", "[1,2]"}}
    \cup {Generic_("bytes", <<"b64">>, ""), Generic_("list", <<"bytes", "<", "hex", ">">>, "[2]"),
          Generic_("en", T("1=b,1=c"), ""), Generic_("enum", T("b"), ""),
          Generic_("arr", <<"en", "<">> \o T("b,c") \o <<">">>, "")}

Others ==
  [header |-> Other("header", HeaderSeeds,
                    {"x", "y", "X", "sp", "tab", "<", ">", "[", "]", "2", "+", "list", "en", "hex"}, 1),
   enumType |-> Other("header", {Generic_("e", T("b,c"), ""), Generic_("e", T("1=b,1=c"), ""),
                                 Generic_("e", T("b=b,b=c"), "")}, CharsOf("B1=, "), 2),
   annotation |-> Other("annotation", {<<>>}, {"(", ")", "x", "sp", "tab"}, 6),
   firstline |-> Other("firstline", {<<"(", "(", "SuperCSV", "sp", "v1.0", ")", ")", "\n", "x">>},
                       {"(", ")", "sp", "nul", "bs", "supercsv", "SUPERCSV", "v2.0", "utf8", "utf16", "\n", "\r"}, 2)]

AllCases == Cases @@ Others
MCColumns == [n \in DOMAIN AllCases |-> AllCases[n].column]
MCSeeds == [n \in DOMAIN AllCases |-> AllCases[n].seeds]
MCAlphabet == [n \in DOMAIN AllCases |-> AllCases[n].typed]
MCMaxEdits == [n \in DOMAIN AllCases |-> AllCases[n].edits]
=============================================================================
