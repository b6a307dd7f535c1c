---------------------------- MODULE Annotations ----------------------------
(***************************************************************************)
(* Annotation blocks, ( comment ) and (( metadata )), as text: the lines   *)
(* that hold nothing else (isLineLevelCommentOrMeta, countBlocksOnLine),   *)
(* the blocks behind an unquoted value (countSuffixAnnotations) and the    *)
(* value without the blocks around it (stripMetadataBlocksBytes), each     *)
(* with a scan of its own in csvstream/stream.go; and the first line of a  *)
(* file, which declares the version (checkStrictVersionFirstLine).         *)
(***************************************************************************)
EXTENDS Chars
LOCAL INSTANCE SequencesExt

Blanks == {"sp", "tab"}

trimWhitespace(t) ==
  LET inked == {i \in DOMAIN t : t[i] \notin Blanks}
  IN SubSeq(t, CHOOSE i \in inked \cup {Len(t) + 1} : \A j \in inked : i <= j,
               CHOOSE i \in inked \cup {0} : \A j \in inked : i >= j)

\* The first and the last position in S, or none when there is none.
FirstIn(S, none) == IF S = {} THEN none ELSE CHOOSE i \in S : \A j \in S : i <= j
LastIn(S, none) == IF S = {} THEN none ELSE CHOOSE i \in S : \A j \in S : i >= j

NoBlocks == [comments |-> 0, meta |-> 0]
One(double) == IF double THEN [comments |-> 0, meta |-> 1] ELSE [comments |-> 1, meta |-> 0]
Plus(a, b) == [comments |-> a.comments + b.comments, meta |-> a.meta + b.meta]

-----------------------------------------------------------------------------
(***************************************************************************)
(* A line of its own.                                                      *)
(***************************************************************************)
Doubled(t, i, c) == At(t, i) = c /\ At(t, i + 1) = c

\* Where the block that opens at start is closed, 0 if it never is.
Closing(t, start) ==
  LET double == Doubled(t, start, "(")
  IN IF double THEN FirstIn({k \in (start + 2)..Len(t) : Doubled(t, k, ")")}, 0)
     ELSE FirstIn({k \in (start + 1)..Len(t) : t[k] = ")"}, 0)

\* The position behind the block that opens at start.
Behind(t, start) == Closing(t, start) + (IF Doubled(t, start, "(") THEN 2 ELSE 1)
Opening(t, start) == IF Doubled(t, start, "(") THEN start + 2 ELSE start + 1

\* Nothing but closed blocks and blanks, and no "(" in a block.
isLineLevelCommentOrMeta(t) ==
  LET OnlyBlocks[i \in 1..(Len(t) + 1)] ==
        LET start == After(t, i, Blanks)
        IN \/ start > Len(t)
           \/ /\ t[start] = "("
              /\ Closing(t, start) > 0
              /\ \A k \in Opening(t, start)..(Closing(t, start) - 1) : t[k] # "("
              /\ OnlyBlocks[Behind(t, start)]
  IN "(" \in {t[i] : i \in DOMAIN t} /\ OnlyBlocks[1]

countBlocksOnLine(t) ==
  LET Count[i \in 1..(Len(t) + 1)] ==
        LET start == After(t, i, Blanks)
        IN IF At(t, start) # "(" THEN NoBlocks
           ELSE IF Closing(t, start) = 0 THEN NoBlocks
           ELSE Plus(One(Doubled(t, start, "(")), Count[Behind(t, start)])
  IN Count[1]

-----------------------------------------------------------------------------
(***************************************************************************)
(* Around a value.                                                         *)
(***************************************************************************)
\* Mutant: "(" is allowed.
ForbidsOnlyClosing(inner) == \E i \in DOMAIN inner : inner[i] \in {")", "\n", "\r", "tab", "nul", "bs"}
hasForbiddenBlockContent(inner) ==
  \E i \in DOMAIN inner : inner[i] \in {"(", ")", "\n", "\r", "tab", "nul", "bs"}

\* A block at one end of a trimmed text: whether it is double, and what is left without it.
Cut(double, inner, left) ==
  IF hasForbiddenBlockContent(inner) THEN Rejected
  ELSE [ok |-> TRUE, double |-> double, rest |-> trimWhitespace(left)]

PrefixDouble(t) ==
  LET end == FirstIn({k \in 3..Len(t) : Doubled(t, k, ")")}, 0)
  IN IF ~Doubled(t, 1, "(") \/ end = 0 THEN Rejected
     ELSE Cut(TRUE, SubSeq(t, 3, end - 1), From(t, end + 2))
PrefixSingle(t) ==
  LET end == FirstIn({k \in 2..Len(t) : t[k] = ")"}, 0)
  IN IF At(t, 1) # "(" \/ end = 0 THEN Rejected
     ELSE Cut(FALSE, SubSeq(t, 2, end - 1), From(t, end + 1))
SuffixDouble(t) ==
  LET start == LastIn({k \in 1..(Len(t) - 3) : Doubled(t, k, "(")}, 0)
  IN IF ~Doubled(t, Len(t) - 1, ")") \/ start = 0 THEN Rejected
     ELSE Cut(TRUE, SubSeq(t, start + 2, Len(t) - 2), SubSeq(t, 1, start - 1))
\* Mutant: the first "(" taken for the last.
SuffixFromFirst(t) ==
  LET start == FirstIn({k \in 1..(Len(t) - 1) : t[k] = "("}, 0)
  IN IF At(t, Len(t)) # ")" \/ start = 0 THEN Rejected
     ELSE Cut(FALSE, SubSeq(t, start + 1, Len(t) - 1), SubSeq(t, 1, start - 1))
SuffixSingle(t) ==
  LET start == LastIn({k \in 1..(Len(t) - 1) : t[k] = "("}, 0)
  IN IF At(t, Len(t)) # ")" \/ start = 0 THEN Rejected
     ELSE Cut(FALSE, SubSeq(t, start + 1, Len(t) - 1), SubSeq(t, 1, start - 1))

\* The first of the cuts that there is.
FirstCut(cuts) ==
  LET some == {i \in DOMAIN cuts : cuts[i].ok}
  IN IF some = {} THEN Rejected ELSE cuts[FirstIn(some, 0)]

countSuffixAnnotations(t) ==
  LET Take(acc, c) ==
        LET cut == FirstCut(<<SuffixDouble(acc.rest), SuffixSingle(acc.rest)>>)
        IN IF cut.ok THEN [rest |-> cut.rest, count |-> Plus(acc.count, One(cut.double))] ELSE acc
  IN FoldLeft(Take, [rest |-> trimWhitespace(t), count |-> NoBlocks], t).count

stripMetadataBlocksBytes(t) ==
  LET Take(rest, c) ==
        LET cut == FirstCut(<<PrefixDouble(rest), PrefixSingle(rest), SuffixDouble(rest), SuffixSingle(rest)>>)
        IN IF cut.ok THEN cut.rest ELSE rest
  IN FoldLeft(Take, trimWhitespace(t), t)

-----------------------------------------------------------------------------
(***************************************************************************)
(* The first line. Words are tokens; "nul" and "bs" are the bytes 0 and 8, *)
(* which become a space and a "(" when the bit of lower case is set.       *)
(***************************************************************************)
BitFold == [SuperCSV |-> "supercsv", SUPERCSV |-> "supercsv", nul |-> "sp", bs |-> "("]
Folded(c) == IF c \in DOMAIN BitFold THEN BitFold[c] ELSE c
Directive == <<"(", "(", "supercsv", "sp">>

matchPrefixIgnoreCaseASCII(t, prefix) ==
  Len(t) >= Len(prefix) /\ \A i \in DOMAIN prefix : Folded(t[i]) = prefix[i]

\* Mutant: one ")" is enough.
DirectiveWithOneParen(line) ==
  /\ Len(line) >= Len(Directive) + 2
  /\ matchPrefixIgnoreCaseASCII(line, Directive)
  /\ line[Len(line)] = ")"
isCanonicalVersionDirectiveLine(line) ==
  /\ Len(line) >= Len(Directive) + 2
  /\ matchPrefixIgnoreCaseASCII(line, Directive)
  /\ Doubled(line, Len(line) - 1, ")")

\* A UTF-8 mark at the start is dropped, any other one refused.
rejectBOM(t) == IF At(t, 1) = "utf16" THEN Rejected
                ELSE Decoded(IF At(t, 1) = "utf8" THEN Tail(t) ELSE t)

FirstLine(t) == SubSeq(t, 1, FirstIn({i \in DOMAIN t : t[i] \in {"\n", "\r"}}, Len(t) + 1) - 1)

\* "" asks for no version.
checkStrictVersionFirstLine(t, strictVersion) ==
  LET line == FirstLine(t)
  IN \/ strictVersion = ""
     \/ /\ isCanonicalVersionDirectiveLine(line)
        /\ SubSeq(line, Len(Directive) + 1, Len(line) - 2) = <<strictVersion>>

NewCSVStream(t, strictVersion) ==
  LET input == rejectBOM(t)
  IN IF input.ok /\ checkStrictVersionFirstLine(input.value, strictVersion) THEN input ELSE Rejected
=============================================================================
