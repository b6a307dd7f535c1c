-------------------------- MODULE RoundTripProofs ---------------------------
(***************************************************************************)
(* Proofs about the SDK end to end, for every number of columns, size of   *)
(* the buffered writer, and limit on errors: what leaves the encoder is    *)
(* what its calls that returned nil were to write, a reader's verdict is   *)
(* that of the file, and what was written reads back.                      *)
(*                                                                         *)
(* The invariant IInv has a part for the encoder and one for the reader.   *)
(* EncoderInv says that the accepted text is the header and as many whole  *)
(* rows as were counted, and that what left the writer and what it holds   *)
(* make up that text or, behind a failure, the torso of it and one more    *)
(* call.  ReaderInv ties counts and the sticky errors to the rows read.    *)
(*                                                                         *)
(* WrittenReadsBack needs two facts about texts.  A text whose pieces are  *)
(* all checked or cut has one reading (TextsRead, a recursive function,    *)
(* unfolded piece by piece).  How the stream splits a text up to a piece   *)
(* does not depend on what comes behind (Splits), so that the rows of a    *)
(* torso are those of the whole text but for the last.                     *)
(***************************************************************************)
EXTENDS RoundTrip, SequenceTheorems, WellFoundedInduction, TLAPS

-----------------------------------------------------------------------------
(***************************************************************************)
(* Induction over the natural numbers in a form the proofs can cite: a set *)
(* that has 0 and the successor of each of its numbers has every number.   *)
(* It takes the place of the library's NatInduction, whose parameter is an *)
(* operator.                                                               *)
(***************************************************************************)
LEMMA LeastElement ==
  ASSUME NEW T \in SUBSET Nat, T # {}
  PROVE  \E m \in T : \A k \in T : m <= k
<1> DEFINE R == OpToRel(<, Nat)
<1>1. IsWellFoundedOn(R, Nat)
  BY NatLessThanWellFounded
<1>2. \A x, y \in Nat : x < y => <<x, y>> \in R
  BY DEF OpToRel
<1> HIDE DEF R
<1>3. PICK m \in T : \A k \in T : ~(<<k, m>> \in R)
  BY <1>1, WFMin
<1>4. ASSUME NEW k \in T PROVE m <= k
  <2>1. k \in Nat /\ m \in Nat
    OBVIOUS
  <2>2. ~(k < m)
    BY <1>2, <1>3, <2>1
  <2> QED BY <2>1, <2>2
<1> QED BY <1>3, <1>4

LEMMA SetInduction ==
  ASSUME NEW T \in SUBSET Nat, 0 \in T, \A n \in T : n + 1 \in T
  PROVE  T = Nat
<1> SUFFICES ASSUME T # Nat PROVE FALSE
  OBVIOUS
<1> DEFINE U == Nat \ T
<1>1. U \in SUBSET Nat /\ U # {}
  OBVIOUS
<1>2. PICK m \in U : \A k \in U : m <= k
  BY <1>1, LeastElement
<1>3. m \in Nat /\ m # 0 /\ m \notin T
  OBVIOUS
<1>4. m - 1 \in Nat /\ ~(m <= m - 1)
  BY <1>3
<1>5. m - 1 \in T
  BY <1>2, <1>4
<1>6. (m - 1) + 1 = m
  BY <1>3
<1> QED BY <1>3, <1>5, <1>6

-----------------------------------------------------------------------------

Marks  == {"version", "header", "newline", "fits", "mismatch", "unchecked", "cut",
           "good", "bad", "empty"}
Pieces == [row : Nat, col : Nat, value : Marks]
Texts  == Seq(Pieces)
\* The pieces behind the header that the encoder means to write.
IsCell(p)  == p.row > 0 /\ p.value \in {"fits", "unchecked"}
BodyPieces == {p \in Pieces : p = Newline \/ IsCell(p)}

HeaderText == <<Version, Header, Newline>>
Body(t)    == SubSeq(t, 4, Len(t))
Full(r)    == Len(r) = Columns /\ \A c \in 1..Len(r) : IsCell(r[c])

\* The end of a text at which every row of it is whole, and there are n.
WholeRows(b, n) ==
  LET split == Splits(b)[Len(b)]
  IN  split.line = <<>> /\ Len(split.whole) = n /\ \A i \in 1..n : Full(split.whole[i])

\* What is left of a text whose writing broke off.
Torso(out, t) ==
  /\ Len(out) <= Len(t)
  /\ \A i \in 1..Len(out) : i < Len(out) => out[i] = t[i]
  /\ out # <<>> =>
       LET last == Len(out)
       IN  \/ out[last] = t[last]
           \/ t[last].row > 0 /\ out[last] = [t[last] EXCEPT !.value = "cut"]

-----------------------------------------------------------------------------
Writers == [out : Texts, buffer : Texts, failed : BOOLEAN]

EncoderTypes ==
  /\ headerDone \in BOOLEAN /\ closed \in BOOLEAN
  /\ rowsWritten \in Nat /\ offered \in Seq(RowsToOffer)
  /\ rowsWritten <= Len(offered) /\ Len(offered) <= MaxOffered
  /\ accepted \in Texts /\ failing \in Texts

AcceptedInv ==
  IF headerDone
  THEN /\ accepted = HeaderText \o Body(accepted)
       /\ Body(accepted) \in Seq(BodyPieces)
       /\ WholeRows(Body(accepted), rowsWritten)
  ELSE accepted = <<>> /\ rowsWritten = 0

FailingInv ==
  IF ~writer.failed THEN failing = <<>>
  ELSE IF headerDone THEN failing \in Seq(BodyPieces)
  ELSE failing = HeaderText

\* What left the writer and what it holds is t; or it failed in writing t.
Holds(w, t) ==
  /\ w \in Writers /\ Len(w.buffer) <= BufSize
  /\ IF w.failed THEN w.buffer = <<>> /\ Torso(w.out, t) ELSE w.out \o w.buffer = t

WriterInv ==
  /\ Holds(writer, accepted \o failing)
  /\ closed /\ ~writer.failed => writer.buffer = <<>> \/ Len(accepted) = 3

EncoderInv == EncoderTypes /\ AcceptedInv /\ FailingInv /\ WriterInv

-----------------------------------------------------------------------------
Files == [header : BOOLEAN, rows : Seq(Texts), end : {"EOF", "error"}]

ReaderTypes ==
  /\ file \in Files
  /\ reader \in Readers \cup {"none"}
  /\ rowsRead \in Nat /\ rowsRead <= Len(file.rows)
  /\ rowErr \in BOOLEAN /\ fatalErr \in FatalErrors
  /\ rowNum \in Nat /\ errorCount \in Nat /\ errorCount <= rowNum
  /\ anyErrors = (errorCount > 0)
  /\ rows \in Seq([shared : BOOLEAN, row : Texts])

Opened ==
  IF reader = "none"
  THEN /\ file = NoFile /\ rowsRead = 0 /\ nextResult = "not called"
       /\ fatalErr = "none" /\ rowNum = 0 /\ errorCount = 0 /\ rows = <<>>
  ELSE \/ (closed \/ writer.failed) /\ file \in WrittenFiles
       \/ writer.out = <<>>

Wrong == \E i \in 1..rowsRead : ~RowValid(file.rows[i])

FatalInv ==
  /\ reader # "none" => (fatalErr = "header" <=> ~file.header)
  /\ fatalErr = "parse" => file.end # "EOF"
  /\ fatalErr = "decode" => reader # "Validator" /\ Wrong
  /\ fatalErr = "max errors" => reader = "Validator" /\ errorCount = MaxErrors /\ MaxErrors > 0
  /\ nextResult = "false" /\ fatalErr = "none" => AtEnd /\ file.end = "EOF"

CountInv ==
  /\ MaxErrors > 0 => errorCount <= MaxErrors
  /\ IF reader = "Validator"
     THEN rowNum = rowsRead /\ (errorCount > 0 <=> Wrong)
     ELSE errorCount = 0

RowsInv ==
  reader \in {"Decoder", "FileDecoder"} /\ fatalErr = "none" =>
    /\ Len(rows) = rowsRead
    /\ \A i \in 1..Len(rows) : ~rows[i].shared /\ rows[i].row = file.rows[i]

ReaderInv == ReaderTypes /\ Opened /\ FatalInv /\ CountInv /\ RowsInv

IInv == EncoderInv /\ ReaderInv

-----------------------------------------------------------------------------
(* Texts and their parts.                                                  *)

LEMMA LenType ==
  ASSUME NEW S, NEW s \in Seq(S)
  PROVE  /\ Len(s) \in Nat /\ DOMAIN s = 1..Len(s)
         /\ \A i \in 1..Len(s) : s[i] \in S
BY ElementOfSeq

LEMMA Part ==
  ASSUME NEW S, NEW s \in Seq(S),
         NEW m \in 1..(Len(s) + 1), NEW n \in (m - 1)..Len(s)
  PROVE  /\ SubSeq(s, m, n) \in Seq(S) /\ Len(SubSeq(s, m, n)) = n - m + 1
         /\ \A i \in 1..(n - m + 1) : SubSeq(s, m, n)[i] = s[m + i - 1]
<1>1. Len(s) \in Nat /\ m \in Int /\ n \in Int
  BY LenType
<1>2. \A i \in m..n : s[i] \in S
  BY <1>1, LenType
<1>3. (IF m <= n THEN n - m + 1 ELSE 0) = n - m + 1
  BY <1>1
<1> QED BY <1>1, <1>2, <1>3, SubSeqProperties

LEMMA ConcatParts ==
  ASSUME NEW S, NEW s \in Seq(S), NEW t \in Seq(S)
  PROVE  /\ s \o t \in Seq(S) /\ Len(s \o t) = Len(s) + Len(t)
         /\ \A i \in 1..Len(s) : (s \o t)[i] = s[i]
         /\ \A i \in 1..Len(t) : (s \o t)[Len(s) + i] = t[i]
<1>1. Len(s) \in Nat /\ Len(t) \in Nat
  BY LenType
<1>2. ASSUME NEW i \in 1..Len(s) PROVE (s \o t)[i] = s[i]
  <2>1. i \in 1..(Len(s) + Len(t)) /\ i <= Len(s)
    BY <1>1
  <2> QED BY <2>1, ConcatProperties
<1>3. ASSUME NEW i \in 1..Len(t) PROVE (s \o t)[Len(s) + i] = t[i]
  <2>1. Len(s) + i \in 1..(Len(s) + Len(t)) /\ ~(Len(s) + i <= Len(s)) /\ (Len(s) + i) - Len(s) = i
    BY <1>1
  <2> QED BY <2>1, ConcatProperties
<1> QED BY <1>2, <1>3, ConcatProperties

LEMMA Single ==
  ASSUME NEW S, NEW e \in S
  PROVE  <<e>> \in Seq(S) /\ Len(<<e>>) = 1 /\ <<e>>[1] = e
OBVIOUS

LEMMA Tuples ==
  ASSUME NEW S, NEW a \in S, NEW b \in S
  PROVE  <<a>> \in Seq(S) /\ <<a, b>> \in Seq(S) /\ <<a, b, a>> \in Seq(S)
OBVIOUS

LEMMA Symbols ==
  /\ Newline \in Pieces /\ Version \in Pieces /\ Header \in Pieces
  /\ Newline.row = 0 /\ Version.row = 0 /\ Header.row = 0
  /\ Newline.value = "newline" /\ Version.value = "version" /\ Header.value = "header"
<1>1. /\ Newline = [row |-> 0, col |-> 0, value |-> "newline"]
      /\ Version = [row |-> 0, col |-> 0, value |-> "version"]
      /\ Header = [row |-> 0, col |-> 0, value |-> "header"]
  BY DEF Newline, Version, Header, Cell
<1>2. "newline" \in Marks /\ "version" \in Marks /\ "header" \in Marks
  BY DEF Marks
<1>3. ASSUME NEW v \in Marks PROVE [row |-> 0, col |-> 0, value |-> v] \in Pieces
  BY DEF Pieces
<1> QED BY <1>1, <1>2, <1>3

LEMMA CellIsPiece ==
  ASSUME NEW r \in Nat, NEW c \in Nat, NEW v \in Marks
  PROVE  /\ Cell(r, c, v) \in Pieces
         /\ Cell(r, c, v).row = r /\ Cell(r, c, v).value = v
BY DEF Cell, Pieces

\* A piece of a row is not a line break.
LEMMA CellIsNoBreak ==
  ASSUME NEW p, p.row > 0
  PROVE  p # Newline
BY Symbols

LEMMA HeaderTextType ==
  /\ HeaderText \in Texts /\ Len(HeaderText) = 3
  /\ \A i \in 1..3 : HeaderText[i].row = 0 /\ HeaderText[i].value \notin {"cut", "unchecked"}
<1> HIDE DEF Version, Header, Newline, Pieces
<1>1. HeaderText \in Texts /\ Len(HeaderText) = 3
  BY Symbols DEF HeaderText, Texts
<1>2. HeaderText[1] = Version /\ HeaderText[2] = Header /\ HeaderText[3] = Newline
  BY DEF HeaderText
<1>3. \A i \in 1..3 : i = 1 \/ i = 2 \/ i = 3
  OBVIOUS
<1> QED BY <1>1, <1>2, <1>3, Symbols

LEMMA BodyOf ==
  ASSUME NEW b \in Texts
  PROVE  /\ HeaderText \o b \in Texts /\ Len(HeaderText \o b) = Len(b) + 3
         /\ Body(HeaderText \o b) = b
<1> DEFINE t == HeaderText \o b
<1>1. HeaderText \in Seq(Pieces) /\ b \in Seq(Pieces) /\ Len(HeaderText) = 3 /\ Len(b) \in Nat
  BY HeaderTextType, LenType DEF Texts
<1>2. /\ t \in Seq(Pieces) /\ Len(t) = 3 + Len(b)
      /\ \A i \in 1..Len(b) : t[3 + i] = b[i]
  <2>1. /\ t \in Seq(Pieces) /\ Len(t) = Len(HeaderText) + Len(b)
        /\ \A i \in 1..Len(b) : t[Len(HeaderText) + i] = b[i]
    <3>1. HeaderText \in Seq(Pieces) /\ b \in Seq(Pieces)
      BY <1>1
    <3> QED BY <3>1, ConcatParts
  <2> QED BY <1>1, <2>1
<1> HIDE DEF t
<1>3. 4 \in 1..(Len(t) + 1) /\ Len(t) \in (4 - 1)..Len(t) /\ Len(t) - 4 + 1 = Len(b)
  BY <1>1, <1>2
<1>4. /\ Body(t) \in Seq(Pieces) /\ Len(Body(t)) = Len(b)
      /\ \A i \in 1..Len(b) : Body(t)[i] = t[4 + i - 1]
  BY <1>2, <1>3, Part DEF Body
<1>5. \A i \in 1..Len(b) : 4 + i - 1 = 3 + i
  BY <1>1
<1>6. \A i \in 1..Len(Body(t)) : Body(t)[i] = b[i]
  BY <1>2, <1>4, <1>5
<1>7. Body(t) = b
  BY <1>1, <1>4, <1>6, SeqEqual
<1> QED BY <1>1, <1>2, <1>7 DEF t, Texts

-----------------------------------------------------------------------------
(* Rows of a text.                                                         *)

SplitRecs  == [whole : Seq(Texts), line : Texts]
EmptySplit == [whole |-> <<>>, line |-> <<>>]

\* The recursive functions in Splits (split) and in TextsRead (not split).
Base(split)       == IF split THEN EmptySplit ELSE {<<>>}
Step(split, x, p) == IF split THEN Feed(x, p) ELSE ReadOn(x, p)
UnfoldsTo(split, f, t, n) ==
  f = [i \in 0..n |-> IF i = 0 THEN Base(split) ELSE Step(split, f[i - 1], t[i])]

LEMMA UnfoldingExists ==
  ASSUME NEW t, NEW split \in BOOLEAN
  PROVE  \A n \in Nat : \E f : UnfoldsTo(split, f, t, n)
<1> DEFINE T == {n \in Nat : \E f : UnfoldsTo(split, f, t, n)}
<1>1. 0 \in T
  <2> DEFINE f == [i \in 0..0 |-> Base(split)]
  <2>1. \A i \in 0..0 : i = 0
    OBVIOUS
  <2>2. UnfoldsTo(split, f, t, 0)
    BY <2>1 DEF UnfoldsTo
  <2> HIDE DEF f
  <2> QED BY <2>2
<1>2. ASSUME NEW n \in T PROVE n + 1 \in T
  <2>1. n \in Nat /\ n + 1 \in Nat
    OBVIOUS
  <2>2. PICK f : UnfoldsTo(split, f, t, n)
    OBVIOUS
  <2> DEFINE g == [i \in 0..(n + 1) |->
                     IF i = n + 1 THEN Step(split, f[n], t[n + 1]) ELSE f[i]]
  <2>3. ASSUME NEW i \in 0..(n + 1)
        PROVE  g[i] = IF i = 0 THEN Base(split) ELSE Step(split, g[i - 1], t[i])
    <3>1. CASE i = 0
      <4>1. i \in 0..n /\ i # n + 1
        BY <2>1, <3>1
      <4>2. g[i] = f[i]
        BY <4>1
      <4>3. f[i] = Base(split)
        BY <2>2, <3>1, <4>1 DEF UnfoldsTo
      <4> QED BY <3>1, <4>2, <4>3
    <3>2. CASE i # 0 /\ i # n + 1
      <4>1. i \in 0..n /\ i - 1 \in 0..(n + 1) /\ i - 1 # n + 1
        BY <2>1, <3>2
      <4>2. g[i] = f[i] /\ g[i - 1] = f[i - 1]
        BY <3>2, <4>1
      <4>3. f[i] = Step(split, f[i - 1], t[i])
        BY <2>2, <3>2, <4>1 DEF UnfoldsTo
      <4> HIDE DEF g
      <4> QED BY <3>2, <4>2, <4>3
    <3>3. CASE i = n + 1
      <4>1. i # 0 /\ i - 1 = n /\ n \in 0..(n + 1) /\ n # n + 1
        BY <2>1, <3>3
      <4>2. g[n] = f[n]
        BY <4>1
      <4>3. g[i] = Step(split, f[n], t[n + 1])
        BY <3>3
      <4> HIDE DEF g
      <4> QED BY <3>3, <4>1, <4>2, <4>3
    <3> QED BY <3>1, <3>2, <3>3
  <2>4. g = [i \in 0..(n + 1) |-> g[i]]
    OBVIOUS
  <2> HIDE DEF g
  <2>5. UnfoldsTo(split, g, t, n + 1)
    BY <2>3, <2>4 DEF UnfoldsTo
  <2> QED BY <2>1, <2>5
<1> HIDE DEF T
<1>3. T = Nat
  <2>1. T \in SUBSET Nat
    BY DEF T
  <2> QED BY <1>1, <1>2, <2>1, SetInduction
<1> QED BY <1>3 DEF T

Unfolded(split, t) == CHOOSE f : UnfoldsTo(split, f, t, Len(t))

LEMMA UnfoldedStep ==
  ASSUME NEW t, Len(t) \in Nat, NEW split \in BOOLEAN
  PROVE  /\ Unfolded(split, t)[0] = Base(split)
         /\ \A n \in 1..Len(t) :
              Unfolded(split, t)[n] = Step(split, Unfolded(split, t)[n - 1], t[n])
<1> DEFINE F == Unfolded(split, t)
<1>1. UnfoldsTo(split, F, t, Len(t))
  BY UnfoldingExists DEF Unfolded
<1> HIDE DEF F
<1>2. 0 \in 0..Len(t) /\ \A n \in 1..Len(t) : n \in 0..Len(t) /\ n # 0
  OBVIOUS
<1>3. F[0] = Base(split)
  BY <1>1, <1>2 DEF UnfoldsTo
<1>4. ASSUME NEW n \in 1..Len(t) PROVE F[n] = Step(split, F[n - 1], t[n])
  BY <1>1, <1>2 DEF UnfoldsTo
<1> QED BY <1>3, <1>4 DEF F

\* A text is split piece by piece.
LEMMA SplitsStep ==
  ASSUME NEW t, Len(t) \in Nat
  PROVE  /\ Splits(t)[0] = EmptySplit
         /\ \A n \in 1..Len(t) : Splits(t)[n] = Feed(Splits(t)[n - 1], t[n])
<1>1. Splits(t) = Unfolded(TRUE, t)
  BY DEF Splits, Unfolded, UnfoldsTo, Base, Step, EmptySplit
<1>2. Base(TRUE) = EmptySplit /\ \A x, p : Step(TRUE, x, p) = Feed(x, p)
  BY DEF Base, Step
<1>3. /\ Unfolded(TRUE, t)[0] = Base(TRUE)
      /\ \A n \in 1..Len(t) :
           Unfolded(TRUE, t)[n] = Step(TRUE, Unfolded(TRUE, t)[n - 1], t[n])
  BY UnfoldedStep
<1> QED BY <1>1, <1>2, <1>3

\* What the readers make of the first n pieces.
ReadUpTo(t, n) == Unfolded(FALSE, t)[n]

LEMMA ReadStep ==
  ASSUME NEW t, Len(t) \in Nat
  PROVE  /\ TextsRead(t) = ReadUpTo(t, Len(t))
         /\ ReadUpTo(t, 0) = {<<>>}
         /\ \A n \in 1..Len(t) : ReadUpTo(t, n) = ReadOn(ReadUpTo(t, n - 1), t[n])
<1>1. TextsRead(t) = Unfolded(FALSE, t)[Len(t)]
  BY DEF TextsRead, Unfolded, UnfoldsTo, Base, Step
<1>2. Base(FALSE) = {<<>>} /\ \A x, p : Step(FALSE, x, p) = ReadOn(x, p)
  BY DEF Base, Step
<1> QED BY <1>1, <1>2, UnfoldedStep DEF ReadUpTo

LEMMA FeedType ==
  ASSUME NEW s \in SplitRecs, NEW p \in Pieces
  PROVE  /\ Feed(s, p) \in SplitRecs
         /\ p = Newline => Feed(s, p) = [whole |-> Append(s.whole, s.line), line |-> <<>>]
         /\ p # Newline => Feed(s, p) = [whole |-> s.whole, line |-> Append(s.line, p)]
<1> HIDE DEF Pieces
<1>1. s = [whole |-> s.whole, line |-> s.line] /\ s.whole \in Seq(Texts) /\ s.line \in Texts
  BY DEF SplitRecs
<1>2. Append(s.whole, s.line) \in Seq(Texts) /\ Append(s.line, p) \in Texts /\ <<>> \in Texts
  BY <1>1, AppendProperties, EmptySeq DEF Texts
<1> QED BY <1>1, <1>2 DEF Feed, SplitRecs

LEMMA SplitsType ==
  ASSUME NEW t \in Texts
  PROVE  \A n \in 0..Len(t) : Splits(t)[n] \in SplitRecs
<1> DEFINE T == {n \in Nat : n <= Len(t) => Splits(t)[n] \in SplitRecs}
<1>1. Len(t) \in Nat /\ \A i \in 1..Len(t) : t[i] \in Pieces
  BY LenType DEF Texts
<1>2. 0 \in T
  <2>1. EmptySplit \in SplitRecs
    BY EmptySeq DEF EmptySplit, SplitRecs, Texts
  <2> QED BY <1>1, <2>1, SplitsStep
<1>3. ASSUME NEW n \in T PROVE n + 1 \in T
  <2>1. n \in Nat /\ n + 1 \in Nat /\ (n + 1) - 1 = n
    OBVIOUS
  <2>2. ASSUME n + 1 <= Len(t) PROVE Splits(t)[n + 1] \in SplitRecs
    <3>1. n <= Len(t) /\ n + 1 \in 1..Len(t)
      BY <1>1, <2>1, <2>2
    <3>2. Splits(t)[n + 1] = Feed(Splits(t)[n], t[n + 1])
      BY <1>1, <2>1, <3>1, SplitsStep
    <3>3. Splits(t)[n] \in SplitRecs /\ t[n + 1] \in Pieces
      BY <1>1, <3>1
    <3> QED BY <3>2, <3>3, FeedType
  <2> QED BY <2>1, <2>2
<1> HIDE DEF T
<1>4. T = Nat
  <2>1. T \in SUBSET Nat
    BY DEF T
  <2> QED BY <1>2, <1>3, <2>1, SetInduction
<1> QED BY <1>1, <1>4 DEF T

\* How a text is split up to a piece depends on nothing behind it.
LEMMA SplitsAgree ==
  ASSUME NEW t \in Texts, NEW u \in Texts,
         NEW k \in Nat, k <= Len(t), k <= Len(u), \A i \in 1..k : t[i] = u[i]
  PROVE  \A n \in 0..k : Splits(t)[n] = Splits(u)[n]
<1> DEFINE T == {n \in Nat : n <= k => Splits(t)[n] = Splits(u)[n]}
<1>1. Len(t) \in Nat /\ Len(u) \in Nat
  BY LenType DEF Texts
<1>2. 0 \in T
  BY <1>1, SplitsStep
<1>3. ASSUME NEW n \in T PROVE n + 1 \in T
  <2>1. n \in Nat /\ n + 1 \in Nat /\ (n + 1) - 1 = n
    OBVIOUS
  <2>2. ASSUME n + 1 <= k PROVE Splits(t)[n + 1] = Splits(u)[n + 1]
    <3>1. n <= k /\ n + 1 \in 1..Len(t) /\ n + 1 \in 1..Len(u) /\ n + 1 \in 1..k
      BY <1>1, <2>1, <2>2
    <3>2. /\ Splits(t)[n + 1] = Feed(Splits(t)[n], t[n + 1])
          /\ Splits(u)[n + 1] = Feed(Splits(u)[n], u[n + 1])
      BY <1>1, <2>1, <3>1, SplitsStep
    <3>3. Splits(t)[n] = Splits(u)[n] /\ t[n + 1] = u[n + 1]
      BY <3>1
    <3> QED BY <3>2, <3>3
  <2> QED BY <2>1, <2>2
<1> HIDE DEF T
<1>4. T = Nat
  <2>1. T \in SUBSET Nat
    BY DEF T
  <2> QED BY <1>2, <1>3, <2>1, SetInduction
<1> QED BY <1>1, <1>4 DEF T

Begins(s, t) == Len(s) <= Len(t) /\ \A i \in 1..Len(s) : s[i] = t[i]

\* Rows that are whole stay as they are.
LEMMA WholeGrows ==
  ASSUME NEW t \in Texts, NEW m \in 0..Len(t)
  PROVE  \A n \in m..Len(t) : Begins(Splits(t)[m].whole, Splits(t)[n].whole)
<1> DEFINE w(n) == Splits(t)[n].whole
           T == {n \in Nat : m + n <= Len(t) => Begins(w(m), w(m + n))}
<1>1. Len(t) \in Nat /\ m \in Nat /\ \A i \in 1..Len(t) : t[i] \in Pieces
  BY LenType DEF Texts
<1>2. ASSUME NEW n \in 0..Len(t) PROVE w(n) \in Seq(Texts) /\ Len(w(n)) \in Nat
  BY SplitsType, LenType DEF SplitRecs
<1>3. 0 \in T
  <2>1. m + 0 = m /\ Len(w(m)) \in Nat
    BY <1>1, <1>2
  <2> QED BY <2>1 DEF Begins
<1>4. ASSUME NEW n \in T PROVE n + 1 \in T
  <2>1. n \in Nat /\ n + 1 \in Nat
    OBVIOUS
  <2>2. ASSUME m + (n + 1) <= Len(t) PROVE Begins(w(m), w(m + (n + 1)))
    <3> DEFINE k == m + n
    <3>1. k \in 0..Len(t) /\ k + 1 \in 1..Len(t) /\ (k + 1) - 1 = k /\ m + (n + 1) = k + 1 /\ k <= Len(t)
      BY <1>1, <2>1, <2>2
    <3>2. Begins(w(m), w(k))
      BY <3>1
    <3> HIDE DEF k
    <3>3. Splits(t)[k + 1] = Feed(Splits(t)[k], t[k + 1]) /\ Splits(t)[k] \in SplitRecs
      BY <1>1, <3>1, SplitsStep, SplitsType
    <3>4. t[k + 1] \in Pieces
      BY <1>1, <3>1
    <3>5. w(k + 1) = w(k) \/ w(k + 1) = Append(w(k), Splits(t)[k].line)
      BY <3>3, <3>4, FeedType
    <3>6. w(k) \in Seq(Texts) /\ Len(w(k)) \in Nat /\ Len(w(m)) \in Nat /\ Splits(t)[k].line \in Texts
      BY <1>2, <3>1, <3>3 DEF SplitRecs
    <3>7. CASE w(k + 1) = Append(w(k), Splits(t)[k].line)
      <4>1. Len(w(k + 1)) = Len(w(k)) + 1 /\ \A i \in 1..Len(w(k)) : w(k + 1)[i] = w(k)[i]
        BY <3>6, <3>7, AppendProperties
      <4> HIDE DEF w
      <4> QED BY <3>1, <3>2, <3>6, <4>1 DEF Begins
    <3> HIDE DEF w
    <3> QED BY <3>1, <3>2, <3>5, <3>7
  <2> QED BY <2>1, <2>2
<1> HIDE DEF T
<1>5. T = Nat
  <2>1. T \in SUBSET Nat
    BY DEF T
  <2> QED BY <1>3, <1>4, <2>1, SetInduction
<1>6. ASSUME NEW n \in m..Len(t) PROVE Begins(w(m), w(n))
  <2>1. n - m \in Nat /\ m + (n - m) = n /\ n <= Len(t)
    BY <1>1
  <2>2. n - m \in T
    BY <1>5, <2>1
  <2> QED BY <2>1, <2>2 DEF T
<1> QED BY <1>6

\* Pieces without a line break among them become the open line.
LEMMA RunSplits ==
  ASSUME NEW t \in Texts, NEW k \in 0..Len(t), NEW m \in k..Len(t),
         Splits(t)[k].line = <<>>, \A i \in (k + 1)..m : t[i] # Newline
  PROVE  Splits(t)[m] = [whole |-> Splits(t)[k].whole, line |-> SubSeq(t, k + 1, m)]
<1> DEFINE w == Splits(t)[k].whole
           l(n) == SubSeq(t, k + 1, n)
           T == {n \in Nat : k + n <= m =>
                   Splits(t)[k + n] = [whole |-> w, line |-> l(k + n)]}
<1>1. /\ Len(t) \in Nat /\ k \in Nat /\ m \in Nat /\ k <= m /\ m <= Len(t)
      /\ \A i \in 1..Len(t) : t[i] \in Pieces
  BY LenType DEF Texts
<1>2. 0 \in T
  <2>1. k + 0 = k /\ k < k + 1 /\ k + 1 \in Int /\ k \in Int
    BY <1>1
  <2>2. SubSeq(t, k + 1, k) = <<>>
    BY <2>1, SubSeqEmpty
  <2>3. Splits(t)[k] = [whole |-> w, line |-> <<>>]
    BY SplitsType DEF SplitRecs
  <2> QED BY <2>1, <2>2, <2>3
<1> HIDE DEF w, l
<1>3. ASSUME NEW n \in T PROVE n + 1 \in T
  <2>1. n \in Nat /\ n + 1 \in Nat
    OBVIOUS
  <2>2. ASSUME k + (n + 1) <= m
        PROVE  Splits(t)[k + (n + 1)] = [whole |-> w, line |-> l(k + (n + 1))]
    <3> DEFINE j == k + n
    <3>1. /\ j \in 0..Len(t) /\ j + 1 \in 1..Len(t) /\ (j + 1) - 1 = j /\ k + (n + 1) = j + 1
          /\ j <= m /\ j + 1 \in (k + 1)..m
      BY <1>1, <2>1, <2>2
    <3>2. Splits(t)[j] = [whole |-> w, line |-> l(j)]
      BY <3>1
    <3>9. Splits(t)[j].whole = w /\ Splits(t)[j].line = l(j)
      BY <3>2
    <3>3. k + 1 \in 1..Len(t) /\ j + 1 \in (k + 1)..Len(t)
      BY <1>1, <2>1, <3>1
    <3> HIDE DEF j
    <3>4. l(j + 1) = l(j) \o <<t[j + 1]>>
      BY <3>1, <3>3, SubSeqRecursiveSecond DEF Texts, l
    <3>5. Splits(t)[j + 1] = Feed(Splits(t)[j], t[j + 1]) /\ Splits(t)[j] \in SplitRecs
      BY <1>1, <3>1, SplitsStep, SplitsType
    <3>6. t[j + 1] \in Pieces /\ t[j + 1] # Newline
      BY <1>1, <3>1
    <3>7. Splits(t)[j + 1] = [whole |-> w, line |-> Append(Splits(t)[j].line, t[j + 1])]
      BY <3>5, <3>6, <3>9, FeedType
    <3>8. Append(Splits(t)[j].line, t[j + 1]) = Splits(t)[j].line \o <<t[j + 1]>>
      BY <3>5, <3>6, AppendIsConcat DEF SplitRecs, Texts
    <3> QED BY <3>1, <3>4, <3>7, <3>8, <3>9
  <2> QED BY <2>1, <2>2
<1> HIDE DEF T
<1>4. T = Nat
  <2>1. T \in SUBSET Nat
    BY DEF T
  <2> QED BY <1>2, <1>3, <2>1, SetInduction
<1> USE DEF w, l
<1>5. m - k \in Nat /\ k + (m - k) = m /\ m <= m
  BY <1>1
<1>6. m - k \in T
  BY <1>4, <1>5
<1> QED BY <1>5, <1>6 DEF T

LEMMA BodyPiecesType ==
  /\ BodyPieces \subseteq Pieces
  /\ Seq(BodyPieces) \subseteq Texts
  /\ Newline \in BodyPieces
<1>1. BodyPieces \subseteq Pieces
  BY DEF BodyPieces
<1>2. ASSUME NEW b \in Seq(BodyPieces) PROVE b \in Texts
  BY <1>1, SeqMonotonic DEF Texts
<1>3. Newline \in BodyPieces
  BY Symbols DEF BodyPieces
<1> QED BY <1>1, <1>2, <1>3

\* A row with its line break, behind rows that are whole.
LEMMA RowAdded ==
  ASSUME NEW b \in Seq(BodyPieces), NEW n \in Nat, WholeRows(b, n),
         NEW r \in Seq(BodyPieces), Full(r)
  PROVE  /\ b \o (r \o <<Newline>>) \in Seq(BodyPieces)
         /\ WholeRows(b \o (r \o <<Newline>>), n + 1)
<1> DEFINE e == r \o <<Newline>>
           t == b \o e
           k == Len(b)
           m == Len(b) + Len(r)
           w == Splits(b)[Len(b)].whole
<1>1. /\ <<Newline>> \in Seq(BodyPieces) /\ Len(<<Newline>>) = 1 /\ <<Newline>>[1] = Newline
  BY BodyPiecesType, Single
<1>2. /\ e \in Seq(BodyPieces) /\ Len(e) = Len(r) + 1
      /\ \A i \in 1..Len(r) : e[i] = r[i]
      /\ e[Len(r) + 1] = Newline
  <2> HIDE DEF BodyPieces, Newline
  <2>1. /\ e \in Seq(BodyPieces) /\ Len(e) = Len(r) + Len(<<Newline>>)
        /\ \A i \in 1..Len(r) : e[i] = r[i]
        /\ \A i \in 1..Len(<<Newline>>) : e[Len(r) + i] = <<Newline>>[i]
    BY <1>1, ConcatParts
  <2>2. 1 \in 1..Len(<<Newline>>)
    BY <1>1
  <2> QED BY <1>1, <2>1, <2>2
<1>3. Len(b) \in Nat /\ Len(r) \in Nat
  BY LenType
<1> HIDE DEF e
<1>4. /\ t \in Seq(BodyPieces) /\ Len(t) = m + 1
      /\ \A i \in 1..k : t[i] = b[i]
      /\ \A i \in 1..Len(e) : t[k + i] = e[i]
  <2> HIDE DEF BodyPieces
  <2>1. e \in Seq(BodyPieces)
    BY <1>2
  <2>2. /\ t \in Seq(BodyPieces) /\ Len(t) = Len(b) + Len(e)
        /\ \A i \in 1..Len(b) : t[i] = b[i]
        /\ \A i \in 1..Len(e) : t[Len(b) + i] = e[i]
    BY <2>1, ConcatParts
  <2>3. Len(b) + Len(e) = m + 1
    BY <1>2, <1>3
  <2> QED BY <2>2, <2>3
<1> HIDE DEF t
<1>5. t \in Texts /\ b \in Texts
  BY <1>4, BodyPiecesType
<1>6. /\ k \in Nat /\ m \in Nat /\ k \in 0..k /\ k \in 0..Len(t) /\ m \in k..Len(t) /\ m \in 0..Len(t)
      /\ k <= Len(t) /\ k <= Len(b) /\ m + 1 \in 1..Len(t) /\ (m + 1) - 1 = m
  BY <1>3, <1>4
<1>7. Splits(t)[k] = Splits(b)[k]
  BY <1>4, <1>5, <1>6, SplitsAgree
<1>8. /\ Splits(t)[k].line = <<>> /\ Splits(t)[k].whole = w /\ Len(w) = n
      /\ \A i \in 1..n : Full(w[i])
  BY <1>7 DEF WholeRows
<1>9. ASSUME NEW i \in 1..Len(r) PROVE t[k + i] = r[i] /\ r[i] # Newline
  <2>1. i \in 1..Len(e)
    BY <1>2, <1>3
  <2>2. r[i].row > 0
    BY DEF Full, IsCell
  <2> QED BY <1>2, <1>4, <2>1, <2>2, CellIsNoBreak
<1>10. \A i \in (k + 1)..m : t[i] # Newline
  <2>1. ASSUME NEW i \in (k + 1)..m PROVE t[i] # Newline
    <3>1. i - k \in 1..Len(r) /\ k + (i - k) = i
      BY <1>3
    <3> QED BY <1>9, <3>1
  <2> QED BY <2>1
<1> DEFINE l == SubSeq(t, k + 1, m)
<1>11. l = r
  <2>1. k + 1 \in 1..(Len(t) + 1) /\ m \in (k + 1 - 1)..Len(t) /\ m - (k + 1) + 1 = Len(r)
    BY <1>3, <1>4
  <2>2. /\ l \in Seq(BodyPieces) /\ Len(l) = Len(r)
        /\ \A i \in 1..Len(r) : l[i] = t[k + 1 + i - 1]
    BY <1>4, <2>1, Part
  <2>3. \A i \in 1..Len(r) : k + 1 + i - 1 = k + i
    BY <1>3
  <2> HIDE DEF l
  <2>4. \A i \in 1..Len(l) : l[i] = r[i]
    BY <1>9, <2>2, <2>3
  <2> QED BY <2>2, <2>4, SeqEqual
<1>12. Splits(t)[m] = [whole |-> w, line |-> l]
  BY <1>5, <1>6, <1>8, <1>10, RunSplits
<1> HIDE DEF l, w
<1>13. t[m + 1] = Newline
  <2>1. Len(r) + 1 \in 1..Len(e) /\ k + (Len(r) + 1) = m + 1
    BY <1>2, <1>3
  <2> QED BY <1>2, <1>4, <2>1
<1>14. Splits(t)[m + 1] = Feed(Splits(t)[m], t[m + 1]) /\ Splits(t)[m] \in SplitRecs
  <2>1. Len(t) \in Nat
    BY <1>4, <1>6
  <2>2. Splits(t)[m + 1] = Feed(Splits(t)[(m + 1) - 1], t[m + 1])
    BY <1>6, <2>1, SplitsStep
  <2> QED BY <1>5, <1>6, <2>2, SplitsType
<1>15. Splits(t)[m].whole = w /\ Splits(t)[m].line = r
  BY <1>11, <1>12
<1>16. Splits(t)[m + 1] = [whole |-> Append(w, r), line |-> <<>>]
  BY <1>13, <1>14, <1>15, FeedType, Symbols
<1>17. w \in Seq(Texts) /\ r \in Texts
  BY <1>14, <1>15 DEF SplitRecs
<1> DEFINE v == Append(w, r)
<1>18. /\ Len(v) = n + 1 /\ \A i \in 1..n : v[i] = w[i]
       /\ v[n + 1] = r
  BY <1>8, <1>17, AppendProperties
<1> HIDE DEF v
<1>19. ASSUME NEW i \in 1..(n + 1) PROVE Full(v[i])
  <2>1. CASE i = n + 1
    BY <1>18, <2>1
  <2>2. CASE i # n + 1
    <3>1. i \in 1..n
      BY <2>2
    <3> QED BY <1>8, <1>18, <3>1
  <2> QED BY <2>1, <2>2
<1>20. Splits(t)[Len(t)].line = <<>> /\ Splits(t)[Len(t)].whole = v
  BY <1>4, <1>16 DEF v
<1> QED BY <1>4, <1>18, <1>19, <1>20 DEF WholeRows, t, e

LEMMA NoRows == WholeRows(<<>>, 0)
<1>1. Len(<<>>) = 0
  OBVIOUS
<1>2. Splits(<<>>)[0] = EmptySplit
  BY <1>1, SplitsStep
<1> QED BY <1>1, <1>2 DEF WholeRows, EmptySplit

\* The rows of a text are its whole rows and perhaps one more.
LEMMA LinesOf ==
  ASSUME NEW t \in Texts
  PROVE  LET split == Splits(t)[Len(t)]
         IN  /\ Lines(t) \in Seq(Texts) /\ Begins(split.whole, Lines(t))
             /\ split.whole \in Seq(Texts) /\ split.line \in Texts
             /\ Len(Lines(t)) <= Len(split.whole) + 1
             /\ split.line = <<>> => Lines(t) = split.whole
<1> DEFINE split == Splits(t)[Len(t)]
           w == split.whole
           l == split.line
<1>1. Len(t) \in 0..Len(t)
  BY LenType DEF Texts
<1>2. w \in Seq(Texts) /\ l \in Texts
  BY <1>1, SplitsType DEF SplitRecs
<1>3. Lines(t) = w \o (IF l = <<>> THEN <<>> ELSE <<l>>)
  BY DEF Lines
<1> HIDE DEF w, l
<1>4. Len(w) \in Nat
  BY <1>2, LenType
<1>5. CASE l = <<>>
  <2>1. Lines(t) = w
    BY <1>2, <1>3, <1>5, ConcatEmptySeq
  <2> QED BY <1>2, <1>4, <1>5, <2>1 DEF w, l, Begins
<1>6. CASE l # <<>>
  <2>1. <<l>> \in Seq(Texts) /\ Len(<<l>>) = 1
    BY <1>2, Single
  <2> DEFINE x == <<l>>
  <2>2. x \in Seq(Texts) /\ Len(x) = 1
    BY <2>1
  <2> HIDE DEF x
  <2>3. Lines(t) = w \o x
    BY <1>3, <1>6 DEF x
  <2>4. /\ w \o x \in Seq(Texts) /\ Len(w \o x) = Len(w) + Len(x)
        /\ \A i \in 1..Len(w) : (w \o x)[i] = w[i]
    BY <1>2, <2>2, ConcatParts
  <2>5. Begins(w, Lines(t)) /\ Len(Lines(t)) <= Len(w) + 1
    BY <1>4, <2>2, <2>3, <2>4 DEF Begins
  <2> QED BY <1>2, <1>6, <2>3, <2>4, <2>5 DEF w, l
<1> QED BY <1>5, <1>6

-----------------------------------------------------------------------------
(* What the readers make of a text.                                        *)

Legible(p)     == p = Newline \/ p.value \in {"fits", "unchecked", "cut"}
Good(p)        == IF p = Newline \/ p.value = "cut" THEN p ELSE [p EXCEPT !.value = "good"]
GoodText(t, n) == [i \in 1..n |-> Good(t[i])]

LEMMA AsPiece ==
  ASSUME NEW p \in Pieces, NEW v \in Marks
  PROVE  /\ [p EXCEPT !.value = v] \in Pieces
         /\ [p EXCEPT !.value = v].row = p.row
         /\ [p EXCEPT !.value = v].value = v
BY DEF Pieces

LEMMA GoodPiece ==
  ASSUME NEW p \in Pieces
  PROVE  /\ Good(p) \in Pieces /\ Good(p).row = p.row
         /\ Good(p) = Newline <=> p = Newline
<1>1. "good" \in Marks
  BY DEF Marks
<1>2. /\ [p EXCEPT !.value = "good"] \in Pieces /\ [p EXCEPT !.value = "good"].row = p.row
      /\ [p EXCEPT !.value = "good"].value = "good"
  BY <1>1, AsPiece
<1>3. [p EXCEPT !.value = "good"] # Newline
  BY <1>2, Symbols
<1> QED BY <1>2, <1>3 DEF Good

LEMMA ReadingsType ==
  ASSUME NEW p \in Pieces, Legible(p), NEW r \in Readings(p)
  PROVE  r \in Texts
<1> DEFINE as(v) == [p EXCEPT !.value = v]
<1>1. as("good") \in Pieces /\ as("bad") \in Pieces
  BY AsPiece DEF Marks
<1>2. Newline \in Pieces /\ Newline.value = "newline"
  BY Symbols
<1>3. \/ r = <<Newline>>
      \/ r = <<as("good")>> \/ r = <<p>> \/ r = <<as("bad")>>
      \/ r = <<as("bad"), as("bad")>> \/ r = <<as("bad"), Newline, as("bad")>>
  BY <1>2 DEF Readings, Legible
<1> DEFINE g == as("good")
           b == as("bad")
<1>4. /\ r = <<Newline>> \/ r = <<p>> \/ r = <<g>> \/ r = <<b>> \/ r = <<b, b>> \/ r = <<b, Newline, b>>
      /\ g \in Pieces /\ b \in Pieces
  BY <1>1, <1>3
<1> HIDE DEF g, b, Pieces
<1>5. /\ <<Newline>> \in Seq(Pieces) /\ <<p>> \in Seq(Pieces) /\ <<g>> \in Seq(Pieces)
      /\ <<b>> \in Seq(Pieces) /\ <<b, b>> \in Seq(Pieces)
      /\ <<b, Newline, b>> \in Seq(Pieces)
  BY <1>2, <1>4, Tuples
<1> QED BY <1>4, <1>5 DEF Texts

\* Where nothing is unchecked there is one reading.
LEMMA ReadingsChecked ==
  ASSUME NEW p \in Pieces, Legible(p), p.value # "unchecked"
  PROVE  Readings(p) = {<<Good(p)>>}
<1>1. Newline.value = "newline"
  BY Symbols
<1>2. CASE p = Newline
  BY <1>1, <1>2 DEF Readings, Good
<1>3. CASE p # Newline /\ p.value = "fits"
  BY <1>3 DEF Readings, Good
<1>4. CASE p # Newline /\ p.value = "cut"
  BY <1>4 DEF Readings, Good
<1> QED BY <1>2, <1>3, <1>4 DEF Legible

LEMMA TextsReadType ==
  ASSUME NEW t \in Texts, \A i \in 1..Len(t) : Legible(t[i])
  PROVE  TextsRead(t) \subseteq Texts
<1> DEFINE T == {n \in Nat : n <= Len(t) => ReadUpTo(t, n) \subseteq Texts}
<1>1. Len(t) \in Nat /\ \A i \in 1..Len(t) : t[i] \in Pieces
  BY LenType DEF Texts
<1>2. 0 \in T
  <2>1. {<<>>} \subseteq Texts
    BY EmptySeq DEF Texts
  <2> QED BY <1>1, <2>1, ReadStep
<1>3. ASSUME NEW n \in T PROVE n + 1 \in T
  <2>1. n \in Nat /\ n + 1 \in Nat /\ (n + 1) - 1 = n
    OBVIOUS
  <2>2. ASSUME n + 1 <= Len(t) PROVE ReadUpTo(t, n + 1) \subseteq Texts
    <3>1. n <= Len(t) /\ n + 1 \in 1..Len(t)
      BY <1>1, <2>1, <2>2
    <3>2. ReadUpTo(t, n + 1) = ReadOn(ReadUpTo(t, n), t[n + 1])
      BY <1>1, <2>1, <3>1, ReadStep
    <3>3. ReadUpTo(t, n) \subseteq Texts /\ t[n + 1] \in Pieces /\ Legible(t[n + 1])
      BY <1>1, <3>1
    <3>4. ASSUME NEW s \in ReadUpTo(t, n), NEW r \in Readings(t[n + 1]) PROVE s \o r \in Texts
      <4>1. s \in Seq(Pieces) /\ r \in Seq(Pieces)
        BY <3>3, ReadingsType DEF Texts
      <4> QED BY <4>1, ConcatProperties DEF Texts
    <3>5. ASSUME NEW u \in ReadOn(ReadUpTo(t, n), t[n + 1]) PROVE u \in Texts
      <4>1. PICK s \in ReadUpTo(t, n), r \in Readings(t[n + 1]) : u = s \o r
        BY DEF ReadOn
      <4> QED BY <3>4, <4>1
    <3> QED BY <3>2, <3>5
  <2> QED BY <2>1, <2>2
<1> HIDE DEF T
<1>4. T = Nat
  <2>1. T \in SUBSET Nat
    BY DEF T
  <2> QED BY <1>2, <1>3, <2>1, SetInduction
<1>5. ReadUpTo(t, Len(t)) \subseteq Texts
  BY <1>1, <1>4 DEF T
<1> QED BY <1>1, <1>5, ReadStep

LEMMA GoodTextType ==
  ASSUME NEW t \in Texts, NEW n \in 0..Len(t)
  PROVE  /\ GoodText(t, n) \in Texts /\ Len(GoodText(t, n)) = n
         /\ \A i \in 1..n : GoodText(t, n)[i] = Good(t[i])
<1>1. Len(t) \in Nat /\ n \in Nat /\ \A i \in 1..Len(t) : t[i] \in Pieces
  BY LenType DEF Texts
<1>2. \A i \in 1..n : Good(t[i]) \in Pieces
  <2>1. \A i \in 1..n : i \in 1..Len(t)
    BY <1>1
  <2> QED BY <1>1, <2>1, GoodPiece
<1>3. GoodText(t, n) \in [1..n -> Pieces]
  BY <1>2 DEF GoodText
<1> DEFINE g == GoodText(t, n)
<1>4. \A i \in 1..n : g[i] = Good(t[i])
  BY DEF GoodText
<1> HIDE DEF g
<1>5. g \in Seq(Pieces) /\ Len(g) = n
  <2>1. g \in [1..n -> Pieces]
    BY <1>3 DEF g
  <2> HIDE DEF Pieces
  <2> QED BY <1>1, <2>1
<1> QED BY <1>4, <1>5 DEF g, Texts

LEMMA GoodTextStep ==
  ASSUME NEW t \in Texts, NEW n \in Nat, n + 1 <= Len(t)
  PROVE  GoodText(t, n) \o <<Good(t[n + 1])>> = GoodText(t, n + 1)
<1> DEFINE a == GoodText(t, n)
           e == Good(t[n + 1])
           b == GoodText(t, n + 1)
           x == <<e>>
<1>1. /\ Len(t) \in Nat /\ n \in 0..Len(t) /\ n + 1 \in 0..Len(t) /\ n + 1 \in 1..Len(t)
      /\ \A i \in 1..Len(t) : t[i] \in Pieces
  <2>1. Len(t) \in Nat
    BY LenType DEF Texts
  <2> QED BY <2>1, LenType DEF Texts
<1>2. a \in Seq(Pieces) /\ Len(a) = n /\ \A i \in 1..n : a[i] = Good(t[i])
  BY <1>1, GoodTextType DEF Texts
<1>3. b \in Seq(Pieces) /\ Len(b) = n + 1 /\ \A i \in 1..(n + 1) : b[i] = Good(t[i])
  BY <1>1, GoodTextType DEF Texts
<1>4. e \in Pieces
  BY <1>1, GoodPiece
<1> HIDE DEF a, b, e
<1>5. x \in Seq(Pieces) /\ Len(x) = 1 /\ x[1] = e
  BY <1>4, Single
<1> HIDE DEF x
<1>6. /\ a \o x \in Seq(Pieces) /\ Len(a \o x) = n + 1
      /\ \A i \in 1..n : (a \o x)[i] = a[i]
      /\ (a \o x)[n + 1] = e
  <2>1. /\ a \o x \in Seq(Pieces) /\ Len(a \o x) = Len(a) + Len(x)
        /\ \A i \in 1..Len(a) : (a \o x)[i] = a[i]
        /\ \A i \in 1..Len(x) : (a \o x)[Len(a) + i] = x[i]
    <3>1. a \in Seq(Pieces) /\ x \in Seq(Pieces)
      BY <1>2, <1>5
    <3> QED BY <3>1, ConcatParts
  <2>2. 1 \in 1..Len(x)
    BY <1>5
  <2> QED BY <1>2, <1>5, <2>1, <2>2
<1>7. \A i \in 1..(n + 1) : (a \o x)[i] = b[i]
  <2>1. ASSUME NEW i \in 1..(n + 1) PROVE (a \o x)[i] = b[i]
    <3>1. CASE i = n + 1
      BY <1>3, <1>6, <3>1 DEF e
    <3>2. CASE i # n + 1
      <4>1. i \in 1..n
        BY <3>2
      <4> QED BY <1>2, <1>3, <1>6, <4>1
    <3> QED BY <3>1, <3>2
  <2> QED BY <2>1
<1>8. a \o x = b
  BY <1>3, <1>6, <1>7, SeqEqual
<1> QED BY <1>8 DEF a, b, x, e

LEMMA OneReading ==
  ASSUME NEW a, NEW x, NEW p, Readings(p) = {x}
  PROVE  ReadOn({a}, p) = {a \o x}
<1>1. ASSUME NEW u \in ReadOn({a}, p) PROVE u = a \o x
  BY <1>1 DEF ReadOn
<1>2. a \o x \in ReadOn({a}, p)
  BY DEF ReadOn
<1> QED BY <1>1, <1>2

LEMMA TextsReadChecked ==
  ASSUME NEW t \in Texts,
         \A i \in 1..Len(t) : Legible(t[i]) /\ t[i].value # "unchecked"
  PROVE  TextsRead(t) = {GoodText(t, Len(t))}
<1> DEFINE T == {n \in Nat : n <= Len(t) => ReadUpTo(t, n) = {GoodText(t, n)}}
<1>1. Len(t) \in Nat /\ \A i \in 1..Len(t) : t[i] \in Pieces
  BY LenType DEF Texts
<1>2. 0 \in T
  <2>1. GoodText(t, 0) \in Seq(Pieces) /\ Len(GoodText(t, 0)) = 0
    BY <1>1, GoodTextType DEF Texts
  <2>2. GoodText(t, 0) = <<>>
    BY <2>1, EmptySeq
  <2> QED BY <1>1, <2>2, ReadStep
<1>3. ASSUME NEW n \in T PROVE n + 1 \in T
  <2>1. n \in Nat /\ n + 1 \in Nat /\ (n + 1) - 1 = n
    OBVIOUS
  <2>2. ASSUME n + 1 <= Len(t) PROVE ReadUpTo(t, n + 1) = {GoodText(t, n + 1)}
    <3>1. n <= Len(t) /\ n + 1 \in 1..Len(t)
      BY <1>1, <2>1, <2>2
    <3>2. ReadUpTo(t, n + 1) = ReadOn(ReadUpTo(t, n), t[n + 1])
      BY <1>1, <2>1, <3>1, ReadStep
    <3>3. ReadUpTo(t, n) = {GoodText(t, n)} /\ Readings(t[n + 1]) = {<<Good(t[n + 1])>>}
      BY <1>1, <3>1, ReadingsChecked
    <3>4. GoodText(t, n) \o <<Good(t[n + 1])>> = GoodText(t, n + 1)
      BY <2>1, <2>2, GoodTextStep
    <3>5. ReadOn({GoodText(t, n)}, t[n + 1]) = {GoodText(t, n) \o <<Good(t[n + 1])>>}
      BY <3>3, OneReading
    <3> QED BY <3>2, <3>3, <3>4, <3>5
  <2> QED BY <2>1, <2>2
<1> HIDE DEF T
<1>4. T = Nat
  <2>1. T \in SUBSET Nat
    BY DEF T
  <2> QED BY <1>2, <1>3, <2>1, SetInduction
<1>5. ReadUpTo(t, Len(t)) = {GoodText(t, Len(t))}
  BY <1>1, <1>4 DEF T
<1> QED BY <1>1, <1>5, ReadStep

\* Rows as they are read, where every value fits its column.
Plain(p)         == p = Newline \/ p.value = "fits"
RowsReadAs(v, w) == Len(v) = Len(w) /\ \A i \in 1..Len(w) : v[i] = AsRead(w[i])

LEMMA AsReadType ==
  ASSUME NEW l \in Texts
  PROVE  /\ AsRead(l) \in Texts /\ Len(AsRead(l)) = Len(l)
         /\ \A c \in 1..Len(l) : AsRead(l)[c] = [l[c] EXCEPT !.value = "good"]
<1>1. Len(l) \in Nat /\ \A i \in 1..Len(l) : l[i] \in Pieces
  BY LenType DEF Texts
<1>2. ASSUME NEW i \in 1..Len(l) PROVE [l[i] EXCEPT !.value = "good"] \in Pieces
  <2>1. "good" \in Marks
    BY DEF Marks
  <2> QED BY <1>1, <2>1, AsPiece
<1> DEFINE a == AsRead(l)
<1>3. a \in [1..Len(l) -> Pieces] /\ \A c \in 1..Len(l) : a[c] = [l[c] EXCEPT !.value = "good"]
  BY <1>2 DEF AsRead
<1> HIDE DEF a, Pieces
<1>4. a \in Seq(Pieces) /\ Len(a) = Len(l)
  BY <1>1, <1>3
<1> QED BY <1>3, <1>4 DEF a, Texts

LEMMA AsReadEmpty == AsRead(<<>>) = <<>>
<1>1. <<>> \in Texts /\ Len(<<>>) = 0
  BY EmptySeq DEF Texts
<1>2. AsRead(<<>>) \in Seq(Pieces) /\ Len(AsRead(<<>>)) = 0
  BY <1>1, AsReadType DEF Texts
<1> QED BY <1>2, EmptySeq

LEMMA AsReadAppend ==
  ASSUME NEW l \in Texts, NEW p \in Pieces
  PROVE  AsRead(Append(l, p)) = Append(AsRead(l), [p EXCEPT !.value = "good"])
<1> DEFINE q == [p EXCEPT !.value = "good"]
           m == Append(l, p)
           a == Append(AsRead(l), q)
<1>1. q \in Pieces
  BY AsPiece DEF Marks
<1>2. /\ m \in Texts /\ Len(m) = Len(l) + 1 /\ \A i \in 1..Len(l) : m[i] = l[i]
      /\ m[Len(l) + 1] = p /\ Len(l) \in Nat
  BY AppendProperties, LenType DEF Texts
<1>3. /\ AsRead(l) \in Seq(Pieces) /\ Len(AsRead(l)) = Len(l)
      /\ \A i \in 1..Len(l) : AsRead(l)[i] = [l[i] EXCEPT !.value = "good"]
  BY AsReadType DEF Texts
<1>4. /\ a \in Seq(Pieces) /\ Len(a) = Len(l) + 1
      /\ \A i \in 1..Len(l) : a[i] = AsRead(l)[i]
      /\ a[Len(l) + 1] = q
  <2> HIDE DEF q
  <2>1. AsRead(l) \in Seq(Pieces) /\ q \in Pieces
    BY <1>1, <1>3
  <2>2. /\ a \in Seq(Pieces) /\ Len(a) = Len(AsRead(l)) + 1
        /\ \A i \in 1..Len(AsRead(l)) : a[i] = AsRead(l)[i]
        /\ a[Len(AsRead(l)) + 1] = q
    BY <2>1, AppendProperties
  <2> QED BY <1>3, <2>2
<1> HIDE DEF m, a
<1>5. /\ AsRead(m) \in Seq(Pieces) /\ Len(AsRead(m)) = Len(l) + 1
      /\ \A i \in 1..(Len(l) + 1) : AsRead(m)[i] = [m[i] EXCEPT !.value = "good"]
  BY <1>2, AsReadType DEF Texts
<1>6. ASSUME NEW i \in 1..(Len(l) + 1) PROVE AsRead(m)[i] = a[i]
  <2>1. CASE i = Len(l) + 1
    BY <1>2, <1>4, <1>5, <2>1 DEF q
  <2>2. CASE i # Len(l) + 1
    <3>1. i \in 1..Len(l)
      BY <1>2, <2>2
    <3> QED BY <1>2, <1>3, <1>4, <1>5, <3>1
  <2> QED BY <2>1, <2>2
<1>7. AsRead(m) = a
  BY <1>4, <1>5, <1>6, SeqEqual
<1> QED BY <1>7 DEF a, m, q

LEMMA SplitsGood ==
  ASSUME NEW t \in Texts, NEW g \in Texts, NEW k \in Nat, k <= Len(t), k <= Len(g),
         \A i \in 1..k : Plain(t[i]) /\ g[i] = Good(t[i])
  PROVE  \A n \in 0..k : /\ RowsReadAs(Splits(g)[n].whole, Splits(t)[n].whole)
                         /\ Splits(g)[n].line = AsRead(Splits(t)[n].line)
<1> DEFINE P(n) == /\ RowsReadAs(Splits(g)[n].whole, Splits(t)[n].whole)
                   /\ Splits(g)[n].line = AsRead(Splits(t)[n].line)
           T == {n \in Nat : n <= k => P(n)}
<1>1. /\ Len(t) \in Nat /\ Len(g) \in Nat
      /\ \A i \in 1..Len(t) : t[i] \in Pieces
      /\ \A i \in 1..Len(g) : g[i] \in Pieces
  BY LenType DEF Texts
<1>2. 0 \in T
  <2>1. Splits(t)[0] = EmptySplit /\ Splits(g)[0] = EmptySplit
    BY <1>1, SplitsStep
  <2>2. EmptySplit.whole = <<>> /\ EmptySplit.line = <<>> /\ RowsReadAs(<<>>, <<>>)
    BY DEF EmptySplit, RowsReadAs
  <2> QED BY <2>1, <2>2, AsReadEmpty
<1>3. ASSUME NEW n \in T PROVE n + 1 \in T
  <2>1. n \in Nat /\ n + 1 \in Nat /\ (n + 1) - 1 = n
    OBVIOUS
  <2>2. ASSUME n + 1 <= k PROVE P(n + 1)
    <3>1. /\ n <= k /\ n + 1 \in 1..k /\ n + 1 \in 1..Len(t) /\ n + 1 \in 1..Len(g)
          /\ n \in 0..Len(t) /\ n \in 0..Len(g)
      BY <1>1, <2>1, <2>2
    <3> DEFINE x == Splits(t)[n]
               y == Splits(g)[n]
               p == t[n + 1]
    <3>2. /\ Splits(t)[n + 1] = Feed(x, p) /\ Splits(g)[n + 1] = Feed(y, g[n + 1])
          /\ x \in SplitRecs /\ y \in SplitRecs
      BY <1>1, <2>1, <3>1, SplitsStep, SplitsType
    <3>3. p \in Pieces /\ Plain(p) /\ g[n + 1] = Good(p)
      BY <1>1, <3>1
    <3>4. RowsReadAs(y.whole, x.whole) /\ y.line = AsRead(x.line)
      BY <3>1
    <3> HIDE DEF x, y, p
    <3>5. x.whole \in Seq(Texts) /\ y.whole \in Seq(Texts) /\ x.line \in Texts /\ y.line \in Texts
      BY <3>2 DEF SplitRecs
    <3>6. Newline.value = "newline" /\ Newline \in Pieces
      BY Symbols
    <3>7. CASE p = Newline
      <4>1. Good(p) = Newline
        BY <3>7 DEF Good
      <4>2. /\ Feed(x, p) = [whole |-> Append(x.whole, x.line), line |-> <<>>]
            /\ Feed(y, Good(p)) = [whole |-> Append(y.whole, y.line), line |-> <<>>]
        BY <3>2, <3>3, <3>6, <3>7, <4>1, FeedType
      <4> DEFINE v == Append(y.whole, y.line)
                 w == Append(x.whole, x.line)
      <4>3. /\ Len(v) = Len(y.whole) + 1 /\ v[Len(y.whole) + 1] = y.line
            /\ \A i \in 1..Len(y.whole) : v[i] = y.whole[i]
            /\ Len(w) = Len(x.whole) + 1 /\ w[Len(x.whole) + 1] = x.line
            /\ \A i \in 1..Len(x.whole) : w[i] = x.whole[i]
        BY <3>5, AppendProperties
      <4>4. /\ Feed(x, p).whole = w /\ Feed(x, p).line = <<>>
            /\ Feed(y, Good(p)).whole = v /\ Feed(y, Good(p)).line = <<>>
        BY <4>2
      <4> HIDE DEF v, w
      <4>5. Len(x.whole) \in Nat /\ Len(y.whole) = Len(x.whole)
        BY <3>4, <3>5, LenType DEF RowsReadAs
      <4>6. ASSUME NEW i \in 1..Len(w) PROVE v[i] = AsRead(w[i])
        <5>1. CASE i = Len(x.whole) + 1
          BY <3>4, <4>3, <4>5, <5>1
        <5>2. CASE i # Len(x.whole) + 1
          <6>1. i \in 1..Len(x.whole)
            BY <4>3, <4>5, <5>2
          <6> QED BY <3>4, <4>3, <4>5, <6>1 DEF RowsReadAs
        <5> QED BY <5>1, <5>2
      <4>7. RowsReadAs(v, w)
        BY <4>3, <4>5, <4>6 DEF RowsReadAs
      <4> QED BY <3>2, <3>3, <4>4, <4>7, AsReadEmpty
    <3>8. CASE p # Newline
      <4> DEFINE q == [p EXCEPT !.value = "good"]
      <4>1. Good(p) = q /\ Good(p) # Newline /\ Good(p) \in Pieces
        BY <3>3, <3>8, GoodPiece DEF Good, Plain
      <4> HIDE DEF q
      <4>2. /\ Feed(x, p) = [whole |-> x.whole, line |-> Append(x.line, p)]
            /\ Feed(y, Good(p)) = [whole |-> y.whole, line |-> Append(y.line, q)]
        BY <3>2, <3>3, <3>8, <4>1, FeedType
      <4>3. AsRead(Append(x.line, p)) = Append(AsRead(x.line), q)
        BY <3>3, <3>5, AsReadAppend DEF q
      <4> DEFINE l == Append(x.line, p)
                 m == Append(y.line, q)
      <4>4. m = AsRead(l)
        BY <3>4, <4>3
      <4>5. /\ Feed(x, p).whole = x.whole /\ Feed(x, p).line = l
            /\ Feed(y, Good(p)).whole = y.whole /\ Feed(y, Good(p)).line = m
        <5>1. Feed(x, p) = [whole |-> x.whole, line |-> l] /\ Feed(y, Good(p)) = [whole |-> y.whole, line |-> m]
          BY <4>2
        <5> HIDE DEF l, m
        <5> QED BY <5>1
      <4> HIDE DEF l, m
      <4> QED BY <3>2, <3>3, <3>4, <4>4, <4>5
    <3> QED BY <3>7, <3>8
  <2> HIDE DEF P
  <2> QED BY <2>1, <2>2
<1> HIDE DEF T
<1>4. T = Nat
  <2>1. T \in SUBSET Nat
    BY DEF T
  <2> QED BY <1>2, <1>3, <2>1, SetInduction
<1>5. ASSUME NEW n \in 0..k PROVE P(n)
  <2>1. n \in Nat /\ n <= k
    OBVIOUS
  <2> HIDE DEF P
  <2> QED BY <1>4, <2>1 DEF T
<1> QED BY <1>5

-----------------------------------------------------------------------------
(* The buffered writer.                                                    *)

LEMMA TorsoOfLonger ==
  ASSUME NEW o \in Texts, NEW t \in Texts, NEW s \in Texts, Torso(o, t)
  PROVE  Torso(o, t \o s)
<1>1. /\ Len(o) \in Nat /\ Len(t) \in Nat /\ Len(s) \in Nat
      /\ o \in Seq(Pieces) /\ t \in Seq(Pieces) /\ s \in Seq(Pieces)
  BY LenType DEF Texts
<1> DEFINE u == t \o s
<1>2. Len(u) = Len(t) + Len(s) /\ \A i \in 1..Len(t) : u[i] = t[i]
  BY <1>1, ConcatParts
<1> HIDE DEF u
<1>3. Len(o) <= Len(t) /\ \A i \in 1..Len(o) : i \in 1..Len(t)
  BY <1>1 DEF Torso
<1>4. o # <<>> => Len(o) \in 1..Len(o)
  BY <1>1, EmptySeq
<1>5. Len(o) <= Len(u)
  BY <1>1, <1>2, <1>3
<1>6. \A i \in 1..Len(o) : i < Len(o) => o[i] = u[i]
  BY <1>2, <1>3 DEF Torso
<1>7. ASSUME o # <<>>
      PROVE  \/ o[Len(o)] = u[Len(o)]
             \/ u[Len(o)].row > 0 /\ o[Len(o)] = [u[Len(o)] EXCEPT !.value = "cut"]
  <2>1. u[Len(o)] = t[Len(o)]
    BY <1>2, <1>3, <1>4, <1>7
  <2> QED BY <1>7, <2>1 DEF Torso
<1>8. Torso(o, u)
  BY <1>5, <1>6, <1>7 DEF Torso
<1> QED BY <1>8 DEF u

\* A text that agrees with the beginning of another is a torso of it.
LEMMA BeginningIsTorso ==
  ASSUME NEW o \in Texts, NEW t \in Texts, Begins(o, t)
  PROVE  Torso(o, t)
<1>1. Len(o) \in Nat /\ (o # <<>> => Len(o) \in 1..Len(o))
  BY EmptySeq, LenType DEF Texts
<1> QED BY <1>1 DEF Torso, Begins

LEMMA ConcatBegins ==
  ASSUME NEW s \in Texts, NEW t \in Texts
  PROVE  Begins(s, s \o t)
<1>1. /\ Len(s \o t) = Len(s) + Len(t) /\ Len(s) \in Nat /\ Len(t) \in Nat
      /\ \A i \in 1..Len(s) : (s \o t)[i] = s[i]
  BY ConcatParts, LenType DEF Texts
<1> QED BY <1>1 DEF Begins

LEMMA PassedStep ==
  ASSUME NEW w \in Writers, NEW text \in Texts, NEW n \in 0..Len(text),
         NEW v \in Passed(w, text, n)
  PROVE  /\ v \in Writers /\ ~v.failed /\ v.out \o v.buffer = w.out \o text
         /\ Len(v.buffer) = Len(text) - n
<1> DEFINE a == SubSeq(text, 1, n)
           b == SubSeq(text, n + 1, Len(text))
           wo == w.out
<1>1. Len(text) \in Nat /\ n \in Nat /\ n <= Len(text) /\ wo \in Seq(Pieces) /\ text \in Seq(Pieces)
  BY LenType DEF Texts, Writers
<1>2. a \in Seq(Pieces)
  <2>1. 1 \in 1..(Len(text) + 1) /\ n \in (1 - 1)..Len(text)
    BY <1>1
  <2> QED BY <1>1, <2>1, Part
<1>3. b \in Seq(Pieces) /\ Len(b) = Len(text) - n
  <2>1. /\ n + 1 \in 1..(Len(text) + 1) /\ Len(text) \in ((n + 1) - 1)..Len(text)
        /\ Len(text) - (n + 1) + 1 = Len(text) - n
    BY <1>1
  <2> QED BY <1>1, <2>1, Part
<1>4. a \o b = text
  <2>1. /\ 1 \in 1..(Len(text) + 1) /\ n \in (1 - 1)..Len(text) /\ Len(text) \in n..Len(text)
    BY <1>1
  <2>2. a \o b = SubSeq(text, 1, Len(text))
    BY <1>1, <2>1, ConcatAdjacentSubSeq
  <2> QED BY <1>1, <2>2, SubSeqFull
<1>5. v = [out |-> wo \o a, buffer |-> b, failed |-> FALSE]
  BY DEF Passed
<1> HIDE DEF a, b, wo
<1> DEFINE o == wo \o a
<1>6. o \in Seq(Pieces)
  BY <1>1, <1>2, ConcatProperties
<1>7. o \o b = wo \o text
  <2>1. wo \in Seq(Pieces) /\ a \in Seq(Pieces) /\ b \in Seq(Pieces)
    BY <1>1, <1>2, <1>3
  <2>2. (wo \o a) \o b = wo \o (a \o b)
    BY <2>1, ConcatAssociative
  <2> QED BY <1>4, <2>2
<1> HIDE DEF o
<1>8. v = [out |-> o, buffer |-> b, failed |-> FALSE]
  BY <1>5 DEF o
<1>9. v.out = o /\ v.buffer = b /\ v.failed = FALSE
  BY <1>8
<1> QED BY <1>3, <1>6, <1>7, <1>8, <1>9 DEF Writers, Texts, wo

LEMMA CutStep ==
  ASSUME NEW w \in Writers, NEW text \in Texts, NEW n \in 0..Len(text),
         NEW v \in Cut(w, text, n)
  PROVE  /\ v \in Writers /\ v.failed /\ v.buffer = <<>>
         /\ Torso(v.out, w.out \o text)
<1> DEFINE wo == w.out
<1>1. /\ Len(text) \in Nat /\ n \in Nat /\ n <= Len(text) /\ Len(wo) \in Nat
      /\ wo \in Seq(Pieces) /\ text \in Seq(Pieces)
      /\ \A i \in 1..Len(text) : text[i] \in Pieces
  BY LenType DEF Texts, Writers
<1> DEFINE W(k, part) == [out |-> wo \o SubSeq(text, 1, k) \o part,
                          buffer |-> <<>>, failed |-> TRUE]
<1>11. v \in UNION {{W(k, part) : part \in Torn(text, n, k)} : k \in 0..n}
  BY DEF Cut
<1> HIDE DEF W
<1>12. PICK k \in 0..n : v \in {W(k, part) : part \in Torn(text, n, k)}
  BY <1>11
<1>13. PICK part \in Torn(text, n, k) : v = W(k, part)
  BY <1>12
<1>2. v = [out |-> wo \o SubSeq(text, 1, k) \o part, buffer |-> <<>>, failed |-> TRUE]
  BY <1>13 DEF W
<1> HIDE DEF wo
<1> DEFINE x == SubSeq(text, 1, k)
           y == wo \o x
           o == y \o part
           t == wo \o text
<1>3. k \in Nat /\ k <= Len(text) /\ k <= n
  BY <1>1
<1>4. x \in Seq(Pieces) /\ Len(x) = k /\ \A i \in 1..k : x[i] = text[i]
  <2>1. 1 \in 1..(Len(text) + 1) /\ k \in (1 - 1)..Len(text) /\ k - 1 + 1 = k
    BY <1>1, <1>3
  <2>2. \A i \in 1..k : 1 + i - 1 = i
    BY <1>3
  <2>3. x \in Seq(Pieces) /\ Len(x) = k - 1 + 1 /\ \A i \in 1..(k - 1 + 1) : x[i] = text[1 + i - 1]
    BY <1>1, <2>1, Part
  <2> QED BY <2>1, <2>2, <2>3
<1> HIDE DEF x
<1>5. /\ y \in Seq(Pieces) /\ Len(y) = Len(wo) + Len(x)
      /\ \A i \in 1..Len(wo) : y[i] = wo[i]
      /\ \A i \in 1..Len(x) : y[Len(wo) + i] = x[i]
  <2>1. wo \in Seq(Pieces) /\ x \in Seq(Pieces)
    BY <1>1, <1>4
  <2> QED BY <2>1, ConcatParts
<1>14. Len(y) = Len(wo) + k /\ Len(wo) \in Nat /\ Len(y) \in Nat
  BY <1>1, <1>3, <1>4, <1>5
<1>6. /\ t \in Seq(Pieces) /\ Len(t) = Len(wo) + Len(text)
      /\ \A i \in 1..Len(wo) : t[i] = wo[i]
      /\ \A i \in 1..Len(text) : t[Len(wo) + i] = text[i]
  BY <1>1, ConcatParts
<1> HIDE DEF y, t
<1>7. ASSUME NEW i \in 1..Len(y) PROVE y[i] = t[i]
  <2>1. CASE i <= Len(wo)
    BY <1>1, <1>5, <1>6, <2>1
  <2>2. CASE ~(i <= Len(wo))
    <3>1. i - Len(wo) \in 1..k /\ i - Len(wo) \in 1..Len(text) /\ Len(wo) + (i - Len(wo)) = i
      BY <1>1, <1>3, <1>4, <1>5, <2>2
    <3> QED BY <1>4, <1>5, <1>6, <3>1
  <2> QED BY <2>1, <2>2
<1>8. Begins(y, t) /\ y \in Texts /\ t \in Texts
  BY <1>1, <1>3, <1>4, <1>5, <1>6, <1>7 DEF Begins, Texts
<1>9. CASE part = <<>>
  <2>1. o = y
    BY <1>5, <1>9, ConcatEmptySeq
  <2>2. Torso(y, t)
    BY <1>8, BeginningIsTorso
  <2> HIDE DEF o
  <2>3. v = [out |-> o, buffer |-> <<>>, failed |-> TRUE]
    BY <1>2 DEF o, y, x
  <2>4. <<>> \in Texts
    BY EmptySeq DEF Texts
  <2> QED BY <1>8, <2>1, <2>2, <2>3, <2>4 DEF Writers, t, wo
<1>10. CASE part # <<>>
  <2> DEFINE c == [text[k + 1] EXCEPT !.value = "cut"]
             q == <<c>>
  <2>1. k < n /\ text[k + 1].row > 0 /\ part = q
    BY <1>10 DEF Torn
  <2>2. k + 1 \in 1..Len(text) /\ c \in Pieces
    <3>1. k + 1 \in 1..Len(text)
      BY <1>1, <1>3, <2>1
    <3>2. text[k + 1] \in Pieces /\ "cut" \in Marks
      BY <1>1, <3>1 DEF Marks
    <3> QED BY <3>1, <3>2, AsPiece
  <2> HIDE DEF c
  <2>3. q \in Seq(Pieces) /\ Len(q) = 1 /\ q[1] = c
    BY <2>2, Single
  <2> HIDE DEF q
  <2>4. /\ o \in Seq(Pieces) /\ Len(o) = Len(y) + 1
        /\ \A i \in 1..Len(y) : o[i] = y[i]
        /\ o[Len(y) + 1] = c
    <3>1. /\ o \in Seq(Pieces) /\ Len(o) = Len(y) + Len(q)
          /\ \A i \in 1..Len(y) : o[i] = y[i]
          /\ \A i \in 1..Len(q) : o[Len(y) + i] = q[i]
      <4>1. y \in Seq(Pieces) /\ q \in Seq(Pieces) /\ o = y \o q
        BY <1>5, <2>1, <2>3
      <4> QED BY <4>1, ConcatParts
    <3>2. 1 \in 1..Len(q)
      BY <2>3
    <3> QED BY <2>3, <3>1, <3>2
  <2> HIDE DEF o
  <2>5. t[Len(y) + 1] = text[k + 1]
    <3>1. Len(wo) + (k + 1) = Len(y) + 1
      <4>1. Len(y) = Len(wo) + k /\ Len(wo) \in Nat /\ k \in Nat
        BY <1>3, <1>14
      <4> QED BY <4>1
    <3>2. t[Len(wo) + (k + 1)] = text[k + 1]
      BY <1>6, <2>2
    <3> QED BY <3>1, <3>2
  <2>6. /\ Len(y) \in Nat /\ Len(o) = Len(y) + 1 /\ Len(o) <= Len(t)
        /\ \A i \in 1..Len(o) : i < Len(o) => i \in 1..Len(y)
    BY <1>1, <1>3, <1>4, <1>5, <1>6, <2>2, <2>4
  <2>7. \A i \in 1..Len(o) : i < Len(o) => o[i] = t[i]
    BY <1>7, <2>4, <2>6
  <2>8. t[Len(o)].row > 0 /\ o[Len(o)] = [t[Len(o)] EXCEPT !.value = "cut"]
    BY <2>1, <2>4, <2>5, <2>6 DEF c
  <2>9. Torso(o, t)
    BY <2>6, <2>7, <2>8 DEF Torso
  <2>10. v = [out |-> o, buffer |-> <<>>, failed |-> TRUE]
    BY <1>2 DEF o, y, x
  <2>11. <<>> \in Texts /\ o \in Texts
    BY <2>4, EmptySeq DEF Texts
  <2> QED BY <2>9, <2>10, <2>11 DEF Writers, t, wo
<1> QED BY <1>9, <1>10

LEMMA WriteStep ==
  ASSUME NEW w \in Writers, NEW p \in Texts, Len(w.buffer) <= BufSize, NEW v \in Write(w, p)
  PROVE  /\ v \in Writers /\ Len(v.buffer) <= BufSize
         /\ w.failed => v = w
         /\ ~v.failed => ~w.failed /\ v.out \o v.buffer = (w.out \o w.buffer) \o p
         /\ v.failed /\ ~w.failed =>
              v.buffer = <<>> /\ Torso(v.out, (w.out \o w.buffer) \o p)
<1> DEFINE text == w.buffer \o p
           n == Leaving(w, p)
<1>1. /\ w.out \in Seq(Pieces) /\ w.buffer \in Seq(Pieces) /\ p \in Seq(Pieces)
      /\ Len(w.buffer) \in Nat /\ Len(p) \in Nat /\ w.failed \in BOOLEAN
  BY LenType DEF Writers, Texts
<1> DEFINE wo == w.out
           wb == w.buffer
<1>2. /\ text \in Seq(Pieces) /\ Len(text) = Len(wb) + Len(p)
      /\ wo \o text = (wo \o wb) \o p
  <2>1. wo \in Seq(Pieces) /\ wb \in Seq(Pieces) /\ p \in Seq(Pieces) /\ text = wb \o p
    BY <1>1
  <2> HIDE DEF wo, wb, text
  <2>2. text \in Seq(Pieces) /\ Len(text) = Len(wb) + Len(p)
    BY <2>1, ConcatProperties
  <2>3. wo \o (wb \o p) = (wo \o wb) \o p
    <3> HIDE DEF Pieces
    <3>1. wo \in Seq(Pieces) /\ wb \in Seq(Pieces) /\ p \in Seq(Pieces)
      BY <2>1
    <3> QED BY ONLY <3>1, ConcatAssociative
  <2>4. wo \o text = (wo \o wb) \o p
    BY ONLY <2>1, <2>3
  <2> QED BY <2>2, <2>4
<1> HIDE DEF text
<1>3. BufSize \in Nat
  BY EncoderAssumption
<1>4. n \in 0..Len(text) /\ Len(text) - n <= BufSize
  <2> DEFINE size == Len(w.buffer) + Len(p)
  <2>1. size \in Nat /\ Len(text) = size
    BY <1>1, <1>2
  <2>2. n = IF size <= BufSize THEN 0
            ELSE IF w.buffer = <<>> \/ size > 2 * BufSize THEN size ELSE BufSize
    BY <1>3, <2>1 DEF Leaving
  <2> HIDE DEF size, n
  <2> QED BY <1>3, <2>1, <2>2
<1>5. CASE w.failed
  BY <1>5 DEF Write
<1>6. CASE ~w.failed
  <2>1. v \in Passed(w, text, n) \/ v \in Cut(w, text, n)
    BY <1>6 DEF Write, text
  <2> HIDE DEF n
  <2>2. CASE v \in Passed(w, text, n)
    <3>1. /\ v \in Writers /\ ~v.failed /\ v.out \o v.buffer = w.out \o text
          /\ Len(v.buffer) = Len(text) - n
      BY <1>2, <1>4, <2>2, PassedStep DEF Texts
    <3> QED BY <1>2, <1>4, <1>6, <3>1
  <2>3. CASE v \in Cut(w, text, n)
    <3>1. v \in Writers /\ v.failed /\ v.buffer = <<>> /\ Torso(v.out, w.out \o text)
      BY <1>2, <1>4, <2>3, CutStep DEF Texts
    <3>2. Len(v.buffer) <= BufSize
      BY <1>3, <3>1
    <3> QED BY <1>2, <1>6, <3>1, <3>2
  <2> QED BY <2>1, <2>2, <2>3
<1> QED BY <1>1, <1>5, <1>6

LEMMA FlushStep ==
  ASSUME NEW w \in Writers, Len(w.buffer) <= BufSize, NEW v \in Flush(w)
  PROVE  /\ v \in Writers /\ Len(v.buffer) <= BufSize
         /\ w.failed => v = w
         /\ ~v.failed => ~w.failed /\ v.buffer = <<>> /\ v.out \o v.buffer = w.out \o w.buffer
         /\ v.failed /\ ~w.failed =>
              w.buffer # <<>> /\ v.buffer = <<>> /\ Torso(v.out, w.out \o w.buffer)
<1>1. /\ w.buffer \in Texts /\ w.failed \in BOOLEAN /\ Len(w.buffer) \in 0..Len(w.buffer)
      /\ Len(w.buffer) \in Nat /\ BufSize \in Nat
  BY EncoderAssumption, LenType DEF Writers, Texts
<1>2. CASE w.failed \/ w.buffer = <<>>
  BY <1>2 DEF Flush
<1>3. CASE ~w.failed /\ w.buffer # <<>>
  <2> DEFINE text == w.buffer
  <2>1. v \in Passed(w, text, Len(text)) \/ v \in Cut(w, text, Len(text))
    BY <1>3 DEF Flush
  <2>2. CASE v \in Passed(w, text, Len(text))
    <3>1. /\ v \in Writers /\ ~v.failed /\ v.out \o v.buffer = w.out \o text
          /\ Len(v.buffer) = Len(text) - Len(text)
      <4>1. w \in Writers /\ text \in Texts /\ Len(text) \in 0..Len(text)
        BY <1>1
      <4> HIDE DEF text
      <4> QED BY ONLY <2>2, <4>1, PassedStep
    <3>2. v.buffer \in Seq(Pieces) /\ Len(v.buffer) = 0 /\ Len(v.buffer) <= BufSize
      BY <1>1, <3>1 DEF Writers, Texts
    <3>3. v.buffer = <<>>
      BY <3>2, EmptySeq
    <3> QED BY <1>3, <3>1, <3>2, <3>3
  <2>3. CASE v \in Cut(w, text, Len(text))
    <3>1. v \in Writers /\ v.failed /\ v.buffer = <<>> /\ Torso(v.out, w.out \o text)
      <4>1. w \in Writers /\ text \in Texts /\ Len(text) \in 0..Len(text)
        BY <1>1
      <4> HIDE DEF text
      <4> QED BY ONLY <2>3, <4>1, CutStep
    <3>2. Len(v.buffer) <= BufSize
      BY <1>1, <3>1
    <3> QED BY <1>3, <3>1, <3>2
  <2> QED BY <2>1, <2>2, <2>3
<1> QED BY <1>1, <1>2, <1>3

LEMMA HoldsWrite ==
  ASSUME NEW w, NEW t \in Texts, NEW p \in Texts, Holds(w, t), NEW v \in Write(w, p)
  PROVE  Holds(v, t \o p) /\ (w.failed => v = w) /\ (~v.failed => ~w.failed)
<1>1. w \in Writers /\ Len(w.buffer) <= BufSize /\ w.failed \in BOOLEAN
  BY DEF Holds, Writers
<1>2. /\ v \in Writers /\ Len(v.buffer) <= BufSize
      /\ w.failed => v = w
      /\ ~v.failed => ~w.failed /\ v.out \o v.buffer = (w.out \o w.buffer) \o p
      /\ v.failed /\ ~w.failed =>
           v.buffer = <<>> /\ Torso(v.out, (w.out \o w.buffer) \o p)
  BY <1>1, WriteStep
<1>3. CASE w.failed
  <2>1. w.buffer = <<>> /\ Torso(w.out, t) /\ w.out \in Texts /\ v = w
    BY <1>2, <1>3 DEF Holds, Writers
  <2>2. Torso(w.out, t \o p)
    BY <2>1, TorsoOfLonger
  <2> QED BY <1>2, <1>3, <2>1, <2>2 DEF Holds
<1>4. CASE ~w.failed
  <2>1. w.out \o w.buffer = t
    BY <1>4 DEF Holds
  <2> QED BY <1>2, <1>4, <2>1 DEF Holds
<1> QED BY <1>3, <1>4

LEMMA HoldsFlush ==
  ASSUME NEW w, NEW t \in Texts, Holds(w, t), NEW v \in Flush(w)
  PROVE  /\ Holds(v, t) /\ (w.failed => v = w) /\ (~v.failed => ~w.failed /\ v.buffer = <<>>)
         /\ v.failed /\ ~w.failed => w.buffer # <<>>
<1>1. w \in Writers /\ Len(w.buffer) <= BufSize /\ w.failed \in BOOLEAN
  BY DEF Holds, Writers
<1>2. /\ v \in Writers /\ Len(v.buffer) <= BufSize
      /\ w.failed => v = w
      /\ ~v.failed => ~w.failed /\ v.buffer = <<>> /\ v.out \o v.buffer = w.out \o w.buffer
      /\ v.failed /\ ~w.failed =>
           w.buffer # <<>> /\ v.buffer = <<>> /\ Torso(v.out, w.out \o w.buffer)
  BY <1>1, FlushStep
<1>3. ~w.failed => w.out \o w.buffer = t
  BY DEF Holds
<1>4. CASE v.failed
  BY <1>2, <1>3, <1>4 DEF Holds
<1>5. CASE ~v.failed
  BY <1>2, <1>3, <1>5 DEF Holds
<1> QED BY <1>2, <1>4, <1>5

-----------------------------------------------------------------------------
(* The encoder.                                                            *)

LEMMA RowLen ==
  ASSUME NEW row \in RowsToOffer
  PROVE  Len(row) \in Nat /\ \A c \in 1..Len(row) : row[c] \in Values
<1>1. Columns \in Nat /\ "fits" \in Values
  BY ColumnsAssumption DEF Values
<1>2. CASE row \in [1..Columns -> Values]
  <2> HIDE DEF Values
  <2>1. row \in Seq(Values)
    BY <1>1, <1>2
  <2> QED BY <2>1, LenType
<1>3. CASE row \in {[c \in 1..n |-> "fits"] : n \in (1..(Columns + 1)) \ {Columns}}
  <2>1. PICK n \in (1..(Columns + 1)) \ {Columns} : row = [c \in 1..n |-> "fits"]
    BY <1>3
  <2>2. n \in Nat /\ row \in [1..n -> Values]
    BY <1>1, <2>1
  <2> HIDE DEF Values
  <2>3. row \in Seq(Values)
    BY <2>2
  <2> QED BY <2>3, LenType
<1> QED BY <1>2, <1>3 DEF RowsToOffer

\* What WriteRow builds of a row.
LEMMA RowCells ==
  ASSUME NEW row \in RowsToOffer, HasEveryColumn(row), Mismatches(row) = {},
         Len(offered) \in Nat
  PROVE  CellsUpTo(row, Len(row)) \in Seq(BodyPieces) /\ Full(CellsUpTo(row, Len(row)))
<1> DEFINE k == Len(offered) + 1
           r == CellsUpTo(row, Len(row))
           n == Len(row)
<1>1. n \in Nat /\ n = Columns /\ k \in Nat /\ k > 0
  BY RowLen DEF HasEveryColumn
<1>2. ASSUME NEW c \in 1..n PROVE Cell(k, c, row[c]) \in BodyPieces /\ IsCell(Cell(k, c, row[c]))
  <2>1. row[c] \in Values /\ row[c] # "mismatch"
    BY RowLen DEF Mismatches
  <2>2. row[c] \in Marks /\ row[c] \in {"fits", "unchecked"}
    BY <2>1 DEF Values, Marks
  <2>3. c \in Nat
    BY <1>1
  <2>4. /\ Cell(k, c, row[c]) \in Pieces /\ Cell(k, c, row[c]).row = k
        /\ Cell(k, c, row[c]).value = row[c]
    BY <1>1, <2>2, <2>3, CellIsPiece
  <2>5. IsCell(Cell(k, c, row[c]))
    BY <1>1, <2>2, <2>4 DEF IsCell
  <2> QED BY <2>4, <2>5 DEF BodyPieces
<1>3. r \in [1..n -> BodyPieces] /\ \A c \in 1..n : IsCell(r[c])
  BY <1>2 DEF CellsUpTo
<1> HIDE DEF r, n
<1>4. r \in Seq(BodyPieces) /\ Len(r) = n
  BY <1>1, <1>3
<1> QED BY <1>1, <1>3, <1>4 DEF Full, r, n

LEMMA ThreeInARow ==
  ASSUME NEW S, NEW a \in S, NEW b \in S, NEW c \in S
  PROVE  ((<<>> \o <<a>>) \o <<b>>) \o <<c>> = <<a, b, c>>
<1> DEFINE x == <<a>>
           y == <<a, b>>
           z == <<a, b, c>>
<1>1. /\ x \in Seq(S) /\ y \in Seq(S) /\ z \in Seq(S)
      /\ Len(x) = 1 /\ Len(y) = 2 /\ Len(z) = 3
      /\ x[1] = a /\ y[1] = a /\ y[2] = b /\ z[1] = a /\ z[2] = b /\ z[3] = c
  OBVIOUS
<1>2. <<>> \o x = x
  BY <1>1, ConcatEmptySeq
<1>3. Append(x, b) = x \o <<b>> /\ Append(y, c) = y \o <<c>>
  BY <1>1, AppendIsConcat
<1>4. Append(x, b) = y
  <2>1. /\ Append(x, b) \in Seq(S) /\ Len(Append(x, b)) = 2
        /\ Append(x, b)[1] = a /\ Append(x, b)[2] = b
    BY <1>1, AppendProperties
  <2>2. \A i \in 1..2 : i = 1 \/ i = 2
    OBVIOUS
  <2>3. \A i \in 1..Len(y) : Append(x, b)[i] = y[i]
    BY <1>1, <2>1, <2>2
  <2> QED BY <1>1, <2>1, <2>3, SeqEqual
<1>5. Append(y, c) = z
  <2>1. /\ Append(y, c) \in Seq(S) /\ Len(Append(y, c)) = 3
        /\ Append(y, c)[1] = a /\ Append(y, c)[2] = b /\ Append(y, c)[3] = c
    BY <1>1, AppendProperties
  <2>2. \A i \in 1..3 : i = 1 \/ i = 2 \/ i = 3
    OBVIOUS
  <2>3. \A i \in 1..Len(z) : Append(y, c)[i] = z[i]
    BY <1>1, <2>1, <2>2
  <2> QED BY <1>1, <2>1, <2>3, SeqEqual
<1> HIDE DEF x, y, z
<1>6. ((<<>> \o x) \o <<b>>) \o <<c>> = z
  BY <1>2, <1>3, <1>4, <1>5
<1> QED BY <1>6 DEF x, z

LEMMA HeaderWritten ==
  /\ ((<<>> \o <<Version>>) \o <<Header>>) \o <<Newline>> = HeaderText
  /\ <<>> \o HeaderText = HeaderText
  /\ <<Version>> \in Texts /\ <<Header>> \in Texts /\ <<Newline>> \in Texts /\ <<>> \in Texts
<1> HIDE DEF Version, Header, Newline
<1>1. <<Version>> \in Texts /\ <<Header>> \in Texts /\ <<Newline>> \in Texts /\ <<>> \in Texts
  BY Symbols, Single, EmptySeq DEF Texts
<1>2. ((<<>> \o <<Version>>) \o <<Header>>) \o <<Newline>> = HeaderText
  BY Symbols, ThreeInARow DEF HeaderText
<1>5. <<>> \o HeaderText = HeaderText
  BY HeaderTextType, ConcatEmptySeq DEF Texts
<1> QED BY <1>1, <1>2, <1>5

\* A file that has its header and no rows.
LEMMA HeaderOnly ==
  /\ HeaderText = HeaderText \o Body(HeaderText)
  /\ Body(HeaderText) \in Seq(BodyPieces) /\ WholeRows(Body(HeaderText), 0)
<1>1. <<>> \in Texts /\ <<>> \in Seq(BodyPieces)
  BY EmptySeq DEF Texts
<1>2. HeaderText \o <<>> = HeaderText
  BY HeaderTextType, ConcatEmptySeq DEF Texts
<1>3. Body(HeaderText) = <<>>
  BY <1>1, <1>2, BodyOf
<1> QED BY <1>1, <1>2, <1>3, NoRows

LEMMA InitEncoderInv == EncoderInit => EncoderInv
<1> SUFFICES ASSUME EncoderInit PROVE EncoderInv
  OBVIOUS
<1>1. <<>> \in Texts /\ Len(<<>>) = 0 /\ <<>> \o <<>> = <<>> /\ <<>> \in Seq(RowsToOffer)
  BY EmptySeq, ConcatEmptySeq DEF Texts
<1>2. BufSize \in Nat /\ MaxOffered \in Nat
  BY EncoderAssumption
<1>3. EncoderTypes
  <2>1. /\ headerDone = FALSE /\ closed = FALSE /\ rowsWritten = 0
        /\ offered = <<>> /\ accepted = <<>> /\ failing = <<>>
    BY DEF EncoderInit
  <2>2. rowsWritten <= Len(offered) /\ Len(offered) <= MaxOffered /\ rowsWritten \in Nat
    BY <1>1, <1>2, <2>1
  <2> QED BY <1>1, <2>1, <2>2 DEF EncoderTypes
<1>4. writer = [out |-> <<>>, buffer |-> <<>>, failed |-> FALSE]
  BY DEF EncoderInit
<1>5. writer.out = <<>> /\ writer.buffer = <<>> /\ writer.failed = FALSE
  BY <1>4
<1>6. writer \in Writers
  BY <1>1, <1>4 DEF Writers
<1>7. Holds(writer, <<>>)
  BY <1>1, <1>2, <1>5, <1>6 DEF Holds
<1> QED BY <1>1, <1>3, <1>5, <1>7
        DEF EncoderInit, EncoderInv, AcceptedInv, FailingInv, WriterInv

LEMMA OfferStep ==
  ASSUME EncoderTypes, NEW row \in RowsToOffer, Offer(row)
  PROVE  /\ offered' \in Seq(RowsToOffer) /\ Len(offered') = Len(offered) + 1
         /\ Len(offered) \in Nat /\ rowsWritten \in Nat /\ MaxOffered \in Nat
         /\ Len(offered') <= MaxOffered /\ rowsWritten + 1 <= Len(offered')
<1>1. /\ offered \in Seq(RowsToOffer) /\ Len(offered) \in Nat /\ rowsWritten \in Nat
      /\ rowsWritten <= Len(offered) /\ MaxOffered \in Nat
  BY EncoderAssumption, LenType DEF EncoderTypes
<1>2. offered' = Append(offered, row) /\ Len(offered) < MaxOffered
  BY DEF Offer
<1>3. offered' \in Seq(RowsToOffer) /\ Len(offered') = Len(offered) + 1
  BY <1>1, <1>2, AppendProperties
<1> QED BY <1>1, <1>2, <1>3

LEMMA NotWritten ==
  ASSUME EncoderInv, NEW row \in RowsToOffer, RefuseRow(row) \/ RejectRow(row)
  PROVE  EncoderInv'
<1>1. /\ Offer(row)
      /\ UNCHANGED <<headerDone, closed, rowsWritten, writer, accepted, failing>>
  BY DEF RefuseRow, RejectRow
<1>2. /\ offered' \in Seq(RowsToOffer) /\ rowsWritten \in Nat /\ Len(offered') <= MaxOffered
      /\ rowsWritten <= Len(offered')
  <2>1. /\ offered' \in Seq(RowsToOffer) /\ Len(offered') = Len(offered) + 1
        /\ Len(offered) \in Nat /\ rowsWritten \in Nat /\ MaxOffered \in Nat
        /\ Len(offered') <= MaxOffered /\ rowsWritten + 1 <= Len(offered')
    BY <1>1, OfferStep DEF EncoderInv
  <2>2. Len(offered') \in Nat
    BY <2>1
  <2> QED BY <2>1, <2>2
<1>3. EncoderTypes'
  BY <1>1, <1>2 DEF EncoderInv, EncoderTypes
<1> QED BY <1>1, <1>3 DEF EncoderInv, AcceptedInv, FailingInv, WriterInv

LEMMA WriteHeaderStep ==
  ASSUME EncoderInv, WriteHeader
  PROVE  EncoderInv'
<1>1. /\ accepted = <<>> /\ rowsWritten = 0 /\ headerDone = FALSE
      /\ UNCHANGED <<closed, rowsWritten, offered>>
      /\ headerDone' = ~writer'.failed /\ Settle(HeaderText)
  BY DEF EncoderInv, EncoderTypes, AcceptedInv, WriteHeader, HeaderText
<1>2. /\ <<Version>> \in Texts /\ <<Header>> \in Texts /\ <<Newline>> \in Texts /\ <<>> \in Texts
      /\ HeaderText \in Texts /\ Len(HeaderText) = 3
      /\ <<>> \o HeaderText = HeaderText /\ HeaderText \o <<>> = HeaderText
      /\ accepted \o failing \in Texts /\ failing \in Texts
  <2>1. accepted \in Seq(Pieces) /\ failing \in Seq(Pieces)
    BY DEF EncoderInv, EncoderTypes, Texts
  <2>2. accepted \o failing \in Seq(Pieces)
    BY <2>1, ConcatProperties
  <2>3. HeaderText \in Seq(Pieces)
    BY HeaderTextType DEF Texts
  <2>4. HeaderText \o <<>> = HeaderText
    BY <2>3, ConcatEmptySeq
  <2> QED BY <2>1, <2>2, <2>4, HeaderWritten, HeaderTextType DEF Texts
<1>3. PICK w1 \in Write(writer, <<Version>>) :
        \E w2 \in Write(w1, <<Header>>) : \E w3 \in Write(w2, <<Newline>>) : writer' = w3
  BY DEF WriteHeader
<1>4. PICK w2 \in Write(w1, <<Header>>) : writer' \in Write(w2, <<Newline>>)
  BY <1>3
<1>5. Holds(writer, accepted \o failing) /\ writer.failed \in BOOLEAN
  BY DEF EncoderInv, WriterInv, Holds, Writers
<1>6. CASE writer.failed
  <2>1. Holds(w1, (accepted \o failing) \o <<Version>>) /\ w1 = writer
    BY <1>2, <1>3, <1>5, <1>6, HoldsWrite
  <2>2. w2 = writer
    BY <1>2, <1>4, <1>5, <1>6, <2>1, HoldsWrite
  <2>3. writer' = writer
    BY <1>2, <1>4, <1>5, <1>6, <2>2, HoldsWrite
  <2>4. UNCHANGED <<headerDone, accepted, failing>>
    BY <1>1, <1>6, <2>3 DEF Settle
  <2>5. UNCHANGED <<headerDone, closed, rowsWritten, writer, offered, accepted, failing>>
    BY <1>1, <2>3, <2>4
  <2> QED BY <2>5 DEF EncoderInv, EncoderTypes, AcceptedInv, FailingInv, WriterInv
<1>7. CASE ~writer.failed
  <2>1. failing = <<>> /\ accepted \o failing = <<>>
    <3>1. failing = <<>>
      BY <1>7 DEF EncoderInv, FailingInv
    <3>2. <<>> \o <<>> = <<>>
      BY <1>2, ConcatEmptySeq DEF Texts
    <3> QED BY <1>1, <3>1, <3>2
  <2> DEFINE t1 == <<>> \o <<Version>>
             t2 == t1 \o <<Header>>
  <2>2. t1 \in Texts /\ t2 \in Texts /\ t2 \o <<Newline>> = HeaderText
    <3> DEFINE a == <<Version>>
               b == <<Header>>
    <3>1. a \in Seq(Pieces) /\ b \in Seq(Pieces) /\ <<>> \in Seq(Pieces)
      BY <1>2 DEF Texts
    <3> HIDE DEF a, b
    <3>2. <<>> \o a \in Seq(Pieces)
      BY <3>1, ConcatProperties
    <3>3. (<<>> \o a) \o b \in Seq(Pieces)
      BY <3>1, <3>2, ConcatProperties
    <3> QED BY <3>2, <3>3, HeaderWritten DEF a, b, Texts
  <2>3. Holds(w1, t1)
    BY <1>2, <1>3, <1>5, <2>1, HoldsWrite
  <2> HIDE DEF t1
  <2>4. Holds(w2, t2)
    BY <1>2, <1>4, <2>2, <2>3, HoldsWrite
  <2> HIDE DEF t2
  <2>5. Holds(writer', HeaderText)
    BY <1>2, <1>4, <2>2, <2>4, HoldsWrite
  <2>6. writer'.failed \in BOOLEAN
    BY <2>5 DEF Holds, Writers
  <2>7. CASE writer'.failed
    <3>1. failing' = HeaderText /\ accepted' = <<>> /\ headerDone' = FALSE
      BY <1>1, <1>7, <2>7 DEF Settle
    <3>2. EncoderTypes'
      BY <1>1, <1>2, <3>1 DEF EncoderInv, EncoderTypes
    <3>3. WriterInv'
      BY <1>2, <2>5, <2>7, <3>1 DEF WriterInv
    <3> QED BY <1>1, <2>7, <3>1, <3>2, <3>3 DEF EncoderInv, AcceptedInv, FailingInv
  <2>8. CASE ~writer'.failed
    <3>1. failing' = <<>> /\ accepted' = HeaderText /\ headerDone' = TRUE
      BY <1>1, <1>2, <2>1, <2>8 DEF Settle
    <3>2. EncoderTypes'
      BY <1>1, <1>2, <3>1 DEF EncoderInv, EncoderTypes
    <3>3. WriterInv'
      BY <1>2, <2>5, <3>1 DEF WriterInv
    <3>4. AcceptedInv'
      BY <1>1, <3>1, HeaderOnly DEF AcceptedInv
    <3> QED BY <2>8, <3>1, <3>2, <3>3, <3>4 DEF EncoderInv, FailingInv
  <2> QED BY <2>6, <2>7, <2>8
<1> QED BY <1>5, <1>6, <1>7

LEMMA CloseStep ==
  ASSUME EncoderInv, Close
  PROVE  EncoderInv'
<1>1. /\ writer' \in Flush(writer) /\ closed' = ~writer'.failed /\ Settle(<<>>)
      /\ UNCHANGED <<headerDone, rowsWritten, offered>> /\ closed = FALSE
  BY DEF Close, EncoderInv, EncoderTypes
<1>2. accepted \in Texts /\ failing \in Texts /\ accepted \o failing \in Texts /\ <<>> \in Texts
      /\ accepted \o <<>> = accepted
  <2>1. accepted \in Seq(Pieces) /\ failing \in Seq(Pieces)
    BY DEF EncoderInv, EncoderTypes, Texts
  <2> QED BY <2>1, ConcatProperties, ConcatEmptySeq, EmptySeq DEF Texts
<1>3. Holds(writer, accepted \o failing) /\ writer.failed \in BOOLEAN
  BY DEF EncoderInv, WriterInv, Holds, Writers
<1>4. /\ Holds(writer', accepted \o failing) /\ (writer.failed => writer' = writer)
      /\ (~writer'.failed => ~writer.failed /\ writer'.buffer = <<>>)
      /\ writer'.failed /\ ~writer.failed => writer.buffer # <<>>
  BY <1>1, <1>2, <1>3, HoldsFlush
<1>5. accepted' = accepted /\ failing' = failing
  <2>1. CASE ~writer'.failed
    BY <1>1, <1>2, <2>1 DEF Settle
  <2>2. CASE writer'.failed
    BY <1>1, <2>2 DEF Settle, EncoderInv, FailingInv
  <2> QED BY <2>1, <2>2
<1>6. EncoderTypes'
  <2>1. closed' \in BOOLEAN
    BY <1>1
  <2> QED BY <1>1, <1>5, <2>1 DEF EncoderInv, EncoderTypes
<1>7. WriterInv'
  BY <1>1, <1>4, <1>5 DEF WriterInv
<1>8. AcceptedInv'
  BY <1>1, <1>5 DEF EncoderInv, AcceptedInv
<1>9. FailingInv'
  <2>1. CASE writer.failed
    BY <1>1, <1>4, <1>5, <2>1 DEF EncoderInv, FailingInv
  <2>2. CASE ~writer.failed /\ headerDone
    <3>1. failing = <<>> /\ <<>> \in Seq(BodyPieces)
      BY <2>2, EmptySeq DEF EncoderInv, FailingInv
    <3> QED BY <1>1, <1>5, <2>2, <3>1 DEF FailingInv
  <2>3. CASE ~writer.failed /\ ~headerDone
    <3>1. accepted = <<>> /\ failing = <<>>
      BY <2>3 DEF EncoderInv, AcceptedInv, FailingInv
    <3>2. writer.out \o writer.buffer = <<>>
      BY <1>2, <1>3, <2>3, <3>1 DEF Holds
    <3>3. writer.buffer = <<>>
      <4> DEFINE o == writer.out
                 b == writer.buffer
      <4>1. o \in Seq(Pieces) /\ b \in Seq(Pieces) /\ o \o b = <<>>
        BY <1>3, <3>2 DEF Holds, Writers, Texts
      <4> HIDE DEF o, b
      <4>2. b = <<>>
        BY <4>1, ConcatEqualIffEmpty
      <4> QED BY <4>2 DEF b
    <3> QED BY <1>4, <1>5, <2>3, <3>1, <3>3 DEF FailingInv
  <2> QED BY <2>1, <2>2, <2>3
<1> QED BY <1>6, <1>7, <1>8, <1>9 DEF EncoderInv

LEMMA WriteRowStep ==
  ASSUME EncoderInv, NEW row \in RowsToOffer, WriteRow(row)
  PROVE  EncoderInv'
<1> DEFINE r == CellsUpTo(row, Len(row))
           e == r \o <<Newline>>
<1>1. /\ Offer(row) /\ ~closed /\ headerDone /\ HasEveryColumn(row) /\ Mismatches(row) = {}
      /\ rowBuf' = EmptyRowBuf \o r \o <<Newline>> /\ writer' \in Write(writer, rowBuf')
      /\ rowsWritten' = (IF writer'.failed THEN rowsWritten ELSE rowsWritten + 1)
      /\ Settle(e) /\ UNCHANGED <<headerDone, closed>>
  BY DEF WriteRow
<1>2. /\ offered' \in Seq(RowsToOffer) /\ Len(offered') = Len(offered) + 1
      /\ Len(offered) \in Nat /\ rowsWritten \in Nat /\ MaxOffered \in Nat
      /\ Len(offered') <= MaxOffered /\ rowsWritten + 1 <= Len(offered')
  BY <1>1, OfferStep DEF EncoderInv
<1>3. r \in Seq(BodyPieces) /\ Full(r)
  BY <1>1, <1>2, RowCells
<1> HIDE DEF r
<1>4. rowBuf' = e /\ e \in Seq(BodyPieces) /\ e \in Texts
  <2>1. EmptyRowBuf \o r = r
    BY <1>3, ConcatEmptySeq DEF EmptyRowBuf
  <2> DEFINE x == <<Newline>>
  <2>2. x \in Seq(BodyPieces)
    BY BodyPiecesType, Single
  <2> HIDE DEF x
  <2>3. r \o x \in Seq(BodyPieces)
    BY <1>3, <2>2, ConcatProperties
  <2> QED BY <1>1, <2>1, <2>3, BodyPiecesType DEF x
<1> HIDE DEF e
<1>5. /\ accepted \in Texts /\ failing \in Texts /\ accepted \o failing \in Texts
      /\ Holds(writer, accepted \o failing) /\ writer.failed \in BOOLEAN
  <2>1. accepted \in Seq(Pieces) /\ failing \in Seq(Pieces)
    BY DEF EncoderInv, EncoderTypes, Texts
  <2>2. accepted \o failing \in Seq(Pieces)
    BY <2>1, ConcatProperties
  <2> QED BY <2>1, <2>2 DEF EncoderInv, WriterInv, Holds, Writers, Texts
<1>6. /\ Holds(writer', (accepted \o failing) \o e) /\ (writer.failed => writer' = writer)
      /\ (~writer'.failed => ~writer.failed)
  BY <1>1, <1>4, <1>5, HoldsWrite
<1>7. CASE writer.failed
  <2>1. UNCHANGED <<headerDone, closed, rowsWritten, writer, accepted, failing>>
    BY <1>1, <1>6, <1>7 DEF Settle
  <2>2. rowsWritten <= Len(offered')
    BY <1>2
  <2>3. EncoderTypes'
    BY <1>2, <2>1, <2>2 DEF EncoderInv, EncoderTypes
  <2> QED BY <2>1, <2>3 DEF EncoderInv, AcceptedInv, FailingInv, WriterInv
<1>8. CASE ~writer.failed
  <2>1. failing = <<>> /\ accepted \o failing = accepted
    <3>1. failing = <<>>
      BY <1>8 DEF EncoderInv, FailingInv
    <3> QED BY <1>5, <3>1, ConcatEmptySeq DEF Texts
  <2>2. Holds(writer', accepted \o e) /\ writer'.failed \in BOOLEAN
    BY <1>6, <2>1 DEF Holds, Writers
  <2>3. CASE writer'.failed
    <3>1. /\ failing' = e /\ UNCHANGED <<headerDone, closed, rowsWritten, accepted>>
      BY <1>1, <1>8, <2>3 DEF Settle
    <3>2. rowsWritten <= Len(offered')
      BY <1>2
    <3>3. EncoderTypes'
      BY <1>2, <1>4, <3>1, <3>2 DEF EncoderInv, EncoderTypes
    <3>4. AcceptedInv'
      BY <3>1 DEF EncoderInv, AcceptedInv
    <3>5. FailingInv'
      BY <1>1, <1>4, <2>3, <3>1 DEF FailingInv
    <3>6. WriterInv'
      BY <1>1, <2>2, <2>3, <3>1 DEF WriterInv
    <3> QED BY <3>3, <3>4, <3>5, <3>6 DEF EncoderInv
  <2>4. CASE ~writer'.failed
    <3> DEFINE b == Body(accepted)
    <3>1. /\ accepted' = accepted \o e /\ failing' = <<>>
          /\ rowsWritten' = rowsWritten + 1 /\ UNCHANGED <<headerDone, closed>>
      BY <1>1, <2>1, <2>4 DEF Settle
    <3>2. accepted = HeaderText \o b /\ b \in Seq(BodyPieces) /\ WholeRows(b, rowsWritten)
      BY <1>1 DEF EncoderInv, AcceptedInv
    <3> HIDE DEF b
    <3>3. b \o e \in Seq(BodyPieces) /\ WholeRows(b \o e, rowsWritten + 1)
      BY <1>2, <1>3, <3>2, RowAdded DEF e
    <3>4. accepted \o e = HeaderText \o (b \o e)
      <4>1. HeaderText \in Seq(Pieces) /\ b \in Seq(Pieces) /\ e \in Seq(Pieces)
        BY <1>4, <3>2, BodyPiecesType, HeaderTextType DEF Texts
      <4> QED BY <3>2, <4>1, ConcatAssociative
    <3>5. b \o e \in Texts
      BY <3>3, BodyPiecesType
    <3>6. Body(accepted') = b \o e /\ accepted' \in Texts
      BY <3>1, <3>4, <3>5, BodyOf
    <3>7. AcceptedInv'
      <4>1. headerDone'
        BY <1>1
      <4>2. /\ accepted' = HeaderText \o Body(accepted') /\ Body(accepted') \in Seq(BodyPieces)
            /\ WholeRows(Body(accepted'), rowsWritten')
        BY <3>1, <3>3, <3>4, <3>6
      <4> QED BY <4>1, <4>2 DEF AcceptedInv
    <3>8. EncoderTypes'
      <4>1. rowsWritten + 1 \in Nat /\ <<>> \in Texts
        BY <1>2, EmptySeq DEF Texts
      <4> QED BY <1>2, <3>1, <3>6, <4>1 DEF EncoderInv, EncoderTypes
    <3>9. accepted' \o failing' = accepted'
      <4>1. accepted' \in Seq(Pieces)
        BY <3>6 DEF Texts
      <4> QED BY <3>1, <4>1, ConcatEmptySeq
    <3>10. WriterInv'
      BY <1>1, <2>2, <3>1, <3>9 DEF WriterInv
    <3> QED BY <2>4, <3>1, <3>7, <3>8, <3>10 DEF EncoderInv, FailingInv
  <2> QED BY <2>2, <2>3, <2>4
<1> QED BY <1>5, <1>7, <1>8

LEMMA EncoderStep ==
  ASSUME EncoderInv, EncoderNext \/ UNCHANGED encoderVars
  PROVE  EncoderInv'
<1>1. CASE WriteHeader
  BY <1>1, WriteHeaderStep
<1>2. CASE Close
  BY <1>2, CloseStep
<1>3. ASSUME NEW row \in RowsToOffer, RefuseRow(row) \/ RejectRow(row) PROVE EncoderInv'
  BY <1>3, NotWritten
<1>4. ASSUME NEW row \in RowsToOffer, WriteRow(row) PROVE EncoderInv'
  BY <1>4, WriteRowStep
<1>5. CASE UNCHANGED encoderVars
  BY <1>5 DEF EncoderInv, EncoderTypes, AcceptedInv, FailingInv, WriterInv, encoderVars
<1> QED BY <1>1, <1>2, <1>3, <1>4, <1>5 DEF EncoderNext

\* All the encoder wrote, or was writing when the writer failed.
Written == accepted \o failing

LEMMA WrittenText ==
  ASSUME EncoderInv
  PROVE  /\ Written \in Texts
         /\ \/ Written = <<>>
            \/ Written = HeaderText \o Body(Written) /\ Body(Written) \in Seq(BodyPieces)
         /\ headerDone => WholeRows(Body(accepted), rowsWritten)
         /\ ~writer.failed => Written = accepted /\ failing = <<>>
<1>1. accepted \in Seq(Pieces) /\ failing \in Seq(Pieces) /\ headerDone \in BOOLEAN
  BY DEF EncoderInv, EncoderTypes, Texts
<1>2. Written \in Texts
  BY <1>1, ConcatProperties DEF Written, Texts
<1>3. ~writer.failed => Written = accepted /\ failing = <<>>
  BY <1>1, ConcatEmptySeq DEF EncoderInv, FailingInv, Written
<1>4. CASE headerDone
  <2> DEFINE b == Body(accepted)
             c == b \o failing
  <2>1. accepted = HeaderText \o b /\ b \in Seq(BodyPieces)
    BY <1>4 DEF EncoderInv, AcceptedInv
  <2>2. failing \in Seq(BodyPieces)
    <3>1. <<>> \in Seq(BodyPieces)
      BY EmptySeq
    <3> QED BY <1>4, <3>1 DEF EncoderInv, FailingInv
  <2> HIDE DEF b
  <2>3. c \in Seq(BodyPieces)
    BY <2>1, <2>2, ConcatProperties
  <2>4. Written = HeaderText \o c
    <3>1. HeaderText \in Seq(Pieces) /\ b \in Seq(Pieces) /\ failing \in Seq(Pieces)
      BY <1>1, <2>1, BodyPiecesType, HeaderTextType DEF Texts
    <3> QED BY <2>1, <3>1, ConcatAssociative DEF Written
  <2>5. c \in Texts
    BY <2>3, BodyPiecesType
  <2> HIDE DEF c
  <2>6. Body(Written) = c
    BY <2>4, <2>5, BodyOf
  <2>7. WholeRows(Body(accepted), rowsWritten)
    BY <1>4 DEF EncoderInv, AcceptedInv
  <2> QED BY <1>2, <1>3, <2>3, <2>4, <2>6, <2>7
<1>5. CASE ~headerDone
  <2>1. accepted = <<>> /\ (failing = <<>> \/ failing = HeaderText)
    BY <1>5 DEF EncoderInv, AcceptedInv, FailingInv
  <2>2. Written = failing
    BY <1>1, <2>1, ConcatEmptySeq DEF Written
  <2> QED BY <1>2, <1>3, <1>5, <2>1, <2>2, HeaderOnly
<1> QED BY <1>1, <1>4, <1>5

LEMMA WrittenPieces ==
  ASSUME EncoderInv
  PROVE  \A i \in 1..Len(Written) : Written[i] \in Pieces /\ Written[i].value # "cut"
<1> DEFINE t == Written
           b == Body(t)
<1>1. t \in Texts /\ (t = <<>> \/ (t = HeaderText \o b /\ b \in Seq(BodyPieces)))
  BY WrittenText
<1>2. Len(t) \in Nat /\ \A i \in 1..Len(t) : t[i] \in Pieces
  BY <1>1, LenType DEF Texts
<1>3. ASSUME t = HeaderText \o b, b \in Seq(BodyPieces), NEW i \in 1..Len(t)
      PROVE  t[i].value # "cut"
  <2> HIDE DEF t, b
  <2>1. /\ HeaderText \in Seq(Pieces) /\ b \in Seq(Pieces) /\ Len(HeaderText) = 3
        /\ Len(b) \in Nat /\ \A j \in 1..Len(b) : b[j] \in BodyPieces
    BY <1>3, BodyPiecesType, HeaderTextType, LenType DEF Texts
  <2> DEFINE h == HeaderText
  <2>2. /\ h \in Seq(Pieces) /\ b \in Seq(Pieces) /\ Len(h) = 3 /\ t = h \o b
        /\ \A j \in 1..3 : h[j].value # "cut"
    BY <1>3, <2>1, HeaderTextType
  <2> HIDE DEF h
  <2>3. /\ Len(t) = Len(h) + Len(b)
        /\ \A j \in 1..Len(h) : t[j] = h[j]
        /\ \A j \in 1..Len(b) : t[Len(h) + j] = b[j]
    <3>1. h \in Seq(Pieces) /\ b \in Seq(Pieces) /\ t = h \o b
      BY <2>2
    <3>2. /\ Len(h \o b) = Len(h) + Len(b)
          /\ \A j \in 1..Len(h) : (h \o b)[j] = h[j]
          /\ \A j \in 1..Len(b) : (h \o b)[Len(h) + j] = b[j]
      BY <3>1, ConcatParts
    <3> QED BY <3>1, <3>2
  <2>4. CASE i <= 3
    <3>1. i \in 1..3
      BY <2>4
    <3> QED BY <2>2, <2>3, <3>1
  <2>5. CASE ~(i <= 3)
    <3>1. i - 3 \in 1..Len(b) /\ 3 + (i - 3) = i
      BY <1>2, <2>1, <2>2, <2>3, <2>5
    <3>2. t[i] = b[i - 3] /\ b[i - 3] \in BodyPieces
      BY <2>1, <2>2, <2>3, <3>1
    <3>3. b[i - 3] = Newline \/ b[i - 3].value \in {"fits", "unchecked"}
      BY <3>2 DEF BodyPieces, IsCell
    <3> QED BY <3>2, <3>3, Symbols
  <2> QED BY <2>4, <2>5
<1>4. t = <<>> => 1..Len(t) = {}
  BY EmptySeq
<1> QED BY <1>1, <1>2, <1>3, <1>4

LEMMA BeginningIsPrefix ==
  ASSUME NEW o \in Texts, NEW t \in Texts, Begins(o, t)
  PROVE  IsPrefixOf(o, t)
<1> DEFINE n == Len(o)
           s == SubSeq(t, 1, n)
<1>1. n \in Nat /\ Len(t) \in Nat /\ n <= Len(t) /\ o \in Seq(Pieces) /\ t \in Seq(Pieces)
  BY LenType DEF Texts, Begins
<1>2. 1 \in 1..(Len(t) + 1) /\ n \in (1 - 1)..Len(t) /\ n - 1 + 1 = n /\ \A i \in 1..n : 1 + i - 1 = i
  BY <1>1
<1>3. s \in Seq(Pieces) /\ Len(s) = n - 1 + 1 /\ \A i \in 1..(n - 1 + 1) : s[i] = t[1 + i - 1]
  BY <1>1, <1>2, Part
<1> HIDE DEF s
<1>4. \A i \in 1..Len(o) : o[i] = s[i]
  BY <1>2, <1>3 DEF Begins
<1>5. o = s
  BY <1>1, <1>2, <1>3, <1>4, SeqEqual
<1> QED BY <1>1, <1>5 DEF IsPrefixOf, s

LEMMA WholeIsPrefix ==
  ASSUME NEW o \in Texts, NEW t \in Texts, Torso(o, t),
         \A i \in 1..Len(t) : t[i].value # "cut"
  PROVE  IsPrefixOf(Whole(o), t)
<1> DEFINE n == Len(o)
<1>1. n \in Nat /\ Len(t) \in Nat /\ n <= Len(t) /\ o \in Seq(Pieces)
      /\ (o # <<>> => n \in 1..n /\ n > 0)
      /\ \A i \in 1..Len(t) : t[i] \in Pieces
  BY EmptySeq, LenType DEF Texts, Torso
<1>2. CASE o # <<>> /\ o[n].value = "cut"
  <2> DEFINE s == SubSeq(o, 1, n - 1)
  <2>1. 1 \in 1..(Len(o) + 1) /\ n - 1 \in (1 - 1)..Len(o) /\ (n - 1) - 1 + 1 = n - 1
    BY <1>1, <1>2
  <2>2. \A i \in 1..(n - 1) : 1 + i - 1 = i /\ i \in 1..n /\ i < n
    BY <1>1
  <2>3. /\ s \in Seq(Pieces) /\ Len(s) = (n - 1) - 1 + 1
        /\ \A i \in 1..((n - 1) - 1 + 1) : s[i] = o[1 + i - 1]
    BY <1>1, <2>1, Part
  <2> HIDE DEF s
  <2>4. Len(s) = n - 1 /\ Len(s) <= Len(t)
    BY <1>1, <2>1, <2>3
  <2>5. \A i \in 1..Len(s) : s[i] = t[i]
    BY <2>1, <2>2, <2>3, <2>4 DEF Torso
  <2>6. Begins(s, t) /\ s \in Texts
    BY <2>3, <2>4, <2>5 DEF Begins, Texts
  <2>7. Whole(o) = s
    BY <1>2 DEF Whole, s
  <2> QED BY <2>6, <2>7, BeginningIsPrefix
<1>3. CASE ~(o # <<>> /\ o[n].value = "cut")
  <2>1. Whole(o) = o
    BY <1>3 DEF Whole
  <2>2. ASSUME o # <<>> PROVE o[n] = t[n]
    <3>1. n \in 1..Len(t)
      BY <1>1, <2>2
    <3>2. t[n] \in Pieces /\ "cut" \in Marks
      BY <1>1, <3>1 DEF Marks
    <3>3. [t[n] EXCEPT !.value = "cut"].value = "cut"
      BY <3>2, AsPiece
    <3> QED BY <1>3, <2>2, <3>3 DEF Torso
  <2>3. ASSUME NEW i \in 1..n PROVE o[i] = t[i]
    <3>1. CASE i = n
      <4>1. o # <<>>
        BY <1>1
      <4> QED BY <2>2, <3>1, <4>1
    <3>2. CASE i # n
      <4>1. i < n
        BY <1>1, <3>2
      <4> QED BY <4>1 DEF Torso
    <3> QED BY <3>1, <3>2
  <2>4. Begins(o, t)
    BY <1>1, <2>3 DEF Begins
  <2> QED BY <2>1, <2>4, BeginningIsPrefix
<1> QED BY <1>2, <1>3

LEMMA OutputFollows == EncoderInv => OutputIsAccepted
<1> SUFFICES ASSUME EncoderInv PROVE OutputIsAccepted
  OBVIOUS
<1>1. Holds(writer, Written)
  BY DEF EncoderInv, WriterInv, Written
<1>2. CASE writer.failed
  <2>1. Torso(writer.out, Written) /\ writer.out \in Texts /\ Written \in Texts
    BY <1>1, <1>2, WrittenText DEF Holds, Writers
  <2>2. \A i \in 1..Len(Written) : Written[i].value # "cut"
    BY WrittenPieces
  <2>3. IsPrefixOf(Whole(writer.out), Written)
    BY <2>1, <2>2, WholeIsPrefix
  <2> QED BY <1>2, <2>3 DEF OutputIsAccepted, Written
<1>3. CASE ~writer.failed
  <2>1. writer.out \o writer.buffer = Written /\ Written = accepted
    BY <1>1, <1>3, WrittenText DEF Holds
  <2> QED BY <1>3, <2>1 DEF OutputIsAccepted
<1> QED BY <1>2, <1>3

\* Only Close closes, and it does where everything was written.
LEMMA ClosedWritten ==
  ASSUME EncoderInv, [EncoderNext]_encoderVars, closed', ~closed
  PROVE  writer'.out = accepted
<1>1. Close
  BY DEF EncoderNext, WriteHeader, RefuseRow, RejectRow, WriteRow, encoderVars
<1>2. writer' \in Flush(writer) /\ ~writer'.failed
  BY <1>1 DEF Close
<1>3. Holds(writer, Written) /\ Written \in Texts
  BY WrittenText DEF EncoderInv, WriterInv, Written
<1>4. Holds(writer', Written) /\ ~writer.failed /\ writer'.buffer = <<>>
  BY <1>2, <1>3, HoldsFlush
<1> DEFINE o == writer'.out
<1>5. o \o <<>> = Written /\ o \in Seq(Pieces)
  BY <1>2, <1>4 DEF Holds, Writers, Texts
<1>6. Written = accepted
  BY <1>4, WrittenText
<1> HIDE DEF o
<1>7. o = accepted
  BY <1>5, <1>6, ConcatEmptySeq
<1> QED BY <1>7 DEF o

-----------------------------------------------------------------------------
(* The readers.                                                            *)

LEMMA RowType ==
  ASSUME ReaderTypes, ~AtEnd
  PROVE  /\ rowsRead + 1 \in Nat /\ rowsRead + 1 <= Len(file.rows)
         /\ rowsRead + 1 \in 1..Len(file.rows) /\ Row \in Texts
<1> DEFINE r == file.rows
<1>1. r \in Seq(Texts) /\ rowsRead \in Nat /\ rowsRead <= Len(r) /\ rowsRead # Len(r)
  BY DEF ReaderTypes, Files, AtEnd
<1> HIDE DEF r
<1>2. Len(r) \in Nat /\ \A i \in 1..Len(r) : r[i] \in Texts
  BY <1>1, LenType
<1>3. rowsRead + 1 \in Nat /\ rowsRead + 1 <= Len(r) /\ rowsRead + 1 \in 1..Len(r)
  BY <1>1, <1>2
<1> QED BY <1>2, <1>3 DEF r, Row

LEMMA WrongStep ==
  ASSUME rowsRead \in Nat, rowsRead' = rowsRead + 1, file' = file
  PROVE  Wrong' <=> Wrong \/ ~RowValid(Row)
<1>1. \A i \in 1..(rowsRead + 1) : i \in 1..rowsRead \/ i = rowsRead + 1
  OBVIOUS
<1>2. \A i \in 1..rowsRead : i \in 1..(rowsRead + 1)
  OBVIOUS
<1>3. rowsRead + 1 \in 1..(rowsRead + 1)
  OBVIOUS
<1>4. Wrong' <=> \E i \in 1..(rowsRead + 1) : ~RowValid(file.rows[i])
  BY DEF Wrong, RowValid
<1> QED BY <1>1, <1>2, <1>3, <1>4 DEF Wrong, Row

LEMMA WrongSame ==
  ASSUME rowsRead' = rowsRead, file' = file
  PROVE  Wrong' <=> Wrong
BY DEF Wrong, RowValid

LEMMA OpenedStep ==
  ASSUME Opened, reader # "none", reader' = reader, file' = file, UNCHANGED encoderVars
  PROVE  Opened'
<1>1. writer' = writer /\ closed' = closed
  BY DEF encoderVars
<1>2. WrittenFiles' = WrittenFiles
  BY <1>1 DEF WrittenFiles
<1> QED BY <1>1, <1>2 DEF Opened

LEMMA ValidatorStep ==
  ASSUME ReaderInv, ValidatorNext, UNCHANGED encoderVars
  PROVE  ReaderInv'
<1>1. /\ reader = "Validator" /\ reader' = reader /\ file' = file
      /\ UNCHANGED rows
  BY DEF ValidatorNext, NextStops
<1>2. Opened'
  BY <1>1, OpenedStep DEF ReaderInv
<1>3. RowsInv'
  BY <1>1 DEF RowsInv
<1>4. CASE NextStops
  <2>1. /\ rowErr' \in BOOLEAN /\ fatalErr' \in FatalErrors
        /\ UNCHANGED <<rowsRead, rowNum, errorCount, anyErrors>>
    BY <1>4 DEF ReaderInv, ReaderTypes, ValidatorNext, NextStops, FatalErrors
  <2>2. ReaderTypes'
    BY <1>1, <2>1 DEF ReaderInv, ReaderTypes
  <2>3. CountInv'
    <3>1. Wrong' <=> Wrong
      BY <1>1, <2>1, WrongSame
    <3> QED BY <1>1, <2>1, <3>1 DEF ReaderInv, CountInv
  <2>4. FatalInv'
    <3>1. CASE fatalErr # "none" /\ fatalErr' = fatalErr
      <4>1. Wrong' <=> Wrong
        BY <1>1, <2>1, WrongSame
      <4> QED BY <1>1, <2>1, <3>1, <4>1 DEF ReaderInv, FatalInv
    <3>2. CASE fatalErr = "none" /\ LimitReached /\ fatalErr' = "max errors"
      <4>1. errorCount = MaxErrors /\ MaxErrors > 0
        <5>1. /\ errorCount \in Nat /\ MaxErrors \in Nat /\ MaxErrors > 0
              /\ errorCount >= MaxErrors /\ errorCount <= MaxErrors
          BY <3>2, ReaderAssumption DEF ReaderInv, ReaderTypes, CountInv, LimitReached
        <5> QED BY <5>1
      <4> QED BY <1>1, <2>1, <3>2, <4>1 DEF ReaderInv, FatalInv
    <3>3. CASE /\ fatalErr = "none" /\ AtEnd
               /\ fatalErr' = IF file.end = "EOF" THEN "none" ELSE "parse"
      <4>1. AtEnd' <=> AtEnd
        BY <1>1, <2>1 DEF AtEnd
      <4> QED BY <1>1, <2>1, <3>3, <4>1 DEF ReaderInv, FatalInv
    <3> QED BY <1>4, <3>1, <3>2, <3>3 DEF ValidatorNext, NextStops
  <2> QED BY <1>2, <1>3, <2>2, <2>3, <2>4 DEF ReaderInv
<1>5. CASE ~NextStops
  <2>1. /\ fatalErr = "none" /\ ~LimitReached /\ ~AtEnd /\ nextResult' = "true"
        /\ rowsRead' = rowsRead + 1 /\ rowNum' = rowNum + 1 /\ rowErr' = ~RowValid(Row)
        /\ errorCount' = (IF RowValid(Row) THEN errorCount ELSE errorCount + 1)
        /\ anyErrors' = (anyErrors \/ ~RowValid(Row)) /\ fatalErr' = fatalErr
    BY <1>5 DEF ValidatorNext, NotesErrors
  <2>2. /\ ReaderTypes /\ rowsRead \in Nat /\ rowNum \in Nat /\ errorCount \in Nat
        /\ errorCount <= rowNum /\ MaxErrors \in Nat
    BY ReaderAssumption DEF ReaderInv, ReaderTypes
  <2>3. rowsRead + 1 \in Nat /\ rowsRead + 1 <= Len(file.rows)
    BY <2>1, <2>2, RowType
  <2>4. Wrong' <=> Wrong \/ ~RowValid(Row)
    BY <1>1, <2>1, <2>2, WrongStep
  <2>5. errorCount' \in Nat /\ errorCount' <= rowNum' /\ rowNum' \in Nat
    <3>1. errorCount' = errorCount \/ errorCount' = errorCount + 1
      BY <2>1
    <3> QED BY <2>1, <2>2, <3>1
  <2>6. errorCount' > 0 <=> errorCount > 0 \/ ~RowValid(Row)
    <3>1. CASE RowValid(Row)
      BY <2>1, <3>1
    <3>2. CASE ~RowValid(Row)
      <4>1. errorCount' = errorCount + 1
        BY <2>1, <3>2
      <4> QED BY <2>2, <3>2, <4>1
    <3> QED BY <3>1, <3>2
  <2>7. ReaderTypes'
    <3>1. anyErrors' = (errorCount' > 0)
      <4>1. anyErrors = (errorCount > 0)
        BY <2>2 DEF ReaderTypes
      <4>2. CASE RowValid(Row)
        <5>1. errorCount' = errorCount /\ anyErrors' = anyErrors
          <6>1. anyErrors = TRUE \/ anyErrors = FALSE
            BY <4>1
          <6>2. CASE anyErrors = TRUE
            BY <2>1, <4>2, <6>2
          <6>3. CASE anyErrors = FALSE
            BY <2>1, <4>2, <6>3
          <6> QED BY <6>1, <6>2, <6>3
        <5> QED BY <4>1, <5>1
      <4>3. CASE ~RowValid(Row)
        <5>1. anyErrors' = TRUE /\ (errorCount' > 0) = TRUE
          BY <2>1, <2>6, <4>3
        <5> QED BY <5>1
      <4> QED BY <4>2, <4>3
    <3>2. rowErr' \in BOOLEAN
      BY <2>1
    <3> QED BY <1>1, <2>1, <2>2, <2>3, <2>5, <3>1, <3>2 DEF ReaderTypes
  <2>8. MaxErrors > 0 => errorCount' <= MaxErrors
    <3>1. MaxErrors > 0 => errorCount < MaxErrors
      BY <2>1, <2>2 DEF LimitReached
    <3>2. errorCount' = errorCount \/ errorCount' = errorCount + 1
      BY <2>1
    <3> QED BY <2>2, <3>1, <3>2
  <2>9. CountInv'
    <3>1. rowNum = rowsRead /\ (errorCount > 0 <=> Wrong)
      BY <1>1 DEF ReaderInv, CountInv
    <3>2. rowNum' = rowsRead' /\ (errorCount' > 0 <=> Wrong')
      BY <2>1, <2>4, <2>6, <3>1
    <3> QED BY <1>1, <2>8, <3>2 DEF CountInv
  <2>10. FatalInv'
    BY <1>1, <2>1 DEF ReaderInv, FatalInv
  <2> QED BY <1>2, <1>3, <2>7, <2>9, <2>10 DEF ReaderInv
<1> QED BY <1>4, <1>5

LEMMA DecodesValid ==
  ASSUME NEW r, RowValid(r)
  PROVE  Decodes(r) = {TRUE}
<1>1. Len(r) = Columns /\ \A c \in 1..Len(r) : r[c].value = "good"
  BY DEF RowValid
<1>2. ~\E c \in 1..Len(r) : r[c].value = "bad"
  BY <1>1
<1>3. ~\E c \in 1..Len(r) : r[c].value \in {"empty", "cut"}
  BY <1>1
<1> QED BY <1>1, <1>2, <1>3 DEF Decodes

\* Next of a decoder where no row is read.
LEMMA NoRowDecoded ==
  ASSUME ReaderInv, UNCHANGED encoderVars, reader \in {"Decoder", "FileDecoder"},
         UNCHANGED <<file, rowsRead, reader, rowNum, errorCount, anyErrors, rowErr>>,
         \/ fatalErr # "none" /\ fatalErr' = fatalErr
         \/ /\ fatalErr = "none" /\ AtEnd
            /\ fatalErr' = IF file.end = "EOF" THEN "none" ELSE "parse",
         \/ rows' = rows
         \/ fatalErr' # "none" /\ rows' = <<>>
  PROVE  ReaderInv'
<1>1. reader # "none" /\ Opened'
  BY OpenedStep DEF ReaderInv
<1>2. Wrong' <=> Wrong
  BY WrongSame
<1>3. ReaderTypes'
  <2>1. rows' \in Seq([shared : BOOLEAN, row : Texts])
    BY EmptySeq DEF ReaderInv, ReaderTypes
  <2>2. fatalErr' \in FatalErrors
    BY DEF ReaderInv, ReaderTypes, FatalErrors
  <2> QED BY <2>1, <2>2 DEF ReaderInv, ReaderTypes
<1>4. FatalInv'
  <2>1. AtEnd' <=> AtEnd
    BY DEF AtEnd
  <2>2. CASE fatalErr # "none" /\ fatalErr' = fatalErr
    BY <1>2, <2>1, <2>2 DEF ReaderInv, FatalInv
  <2>3. CASE /\ fatalErr = "none" /\ AtEnd
             /\ fatalErr' = IF file.end = "EOF" THEN "none" ELSE "parse"
    BY <2>1, <2>3 DEF ReaderInv, FatalInv
  <2> QED BY <2>2, <2>3
<1>5. CountInv'
  BY <1>2 DEF ReaderInv, CountInv
<1>6. RowsInv'
  BY DEF ReaderInv, RowsInv
<1> QED BY <1>1, <1>3, <1>4, <1>5, <1>6 DEF ReaderInv

\* A row that is read, and is kept or is an error.
LEMMA RowDecoded ==
  ASSUME ReaderInv, UNCHANGED encoderVars, reader \in {"Decoder", "FileDecoder"},
         fatalErr = "none", ~AtEnd, rowsRead' = rowsRead + 1,
         UNCHANGED <<file, reader, errorCount, anyErrors, rowErr>>,
         rowNum' = rowNum \/ rowNum' = rowNum + 1,
         \/ /\ rows' = Append(rows, [shared |-> FALSE, row |-> Row])
            /\ fatalErr' = fatalErr /\ nextResult' = "true"
         \/ /\ rows' = rows \/ rows' = <<>>
            /\ fatalErr' = "decode" /\ ~RowValid(Row)
  PROVE  ReaderInv'
<1> DEFINE e == [shared |-> FALSE, row |-> Row]
           K == [shared : BOOLEAN, row : Texts]
<1>1. reader # "none" /\ reader # "Validator" /\ Opened'
  BY OpenedStep DEF ReaderInv
<1>2. /\ ReaderTypes /\ rowsRead \in Nat /\ rowNum \in Nat /\ errorCount \in Nat
      /\ errorCount <= rowNum /\ rows \in Seq(K)
  BY DEF ReaderInv, ReaderTypes
<1>3. Wrong' <=> Wrong \/ ~RowValid(Row)
  BY <1>2, WrongStep
<1>4. rowsRead + 1 \in Nat /\ rowsRead + 1 <= Len(file.rows) /\ Row \in Texts
  BY <1>2, RowType
<1>5. e \in K /\ e.shared = FALSE /\ e.row = Row
  BY <1>4
<1> HIDE DEF e, K
<1>6. /\ Append(rows, e) \in Seq(K) /\ Len(Append(rows, e)) = Len(rows) + 1
      /\ \A i \in 1..Len(rows) : Append(rows, e)[i] = rows[i]
      /\ Append(rows, e)[Len(rows) + 1] = e
  BY <1>2, <1>5, AppendProperties
<1>7. ReaderTypes'
  <2>1. rows' \in Seq(K)
    BY <1>2, <1>6, EmptySeq DEF e
  <2>2. fatalErr' \in FatalErrors
    BY <1>2 DEF ReaderTypes, FatalErrors
  <2>3. rowNum' \in Nat /\ errorCount <= rowNum'
    BY <1>2
  <2> QED BY <1>2, <1>4, <2>1, <2>2, <2>3 DEF ReaderTypes, K
<1>8. FatalInv'
  <2>1. CASE fatalErr' = fatalErr /\ nextResult' = "true"
    BY <1>1, <2>1 DEF ReaderInv, FatalInv
  <2>2. CASE fatalErr' = "decode" /\ ~RowValid(Row)
    BY <1>1, <1>3, <2>2 DEF ReaderInv, FatalInv
  <2> QED BY <2>1, <2>2
<1>9. CountInv'
  <2>1. errorCount = 0 /\ (MaxErrors > 0 => errorCount <= MaxErrors)
    BY <1>1 DEF ReaderInv, CountInv
  <2> QED BY <1>1, <2>1 DEF CountInv
<1>10. RowsInv'
  <2>1. CASE fatalErr' = "decode"
    BY <2>1 DEF RowsInv
  <2>2. CASE fatalErr' # "decode"
    <3>1. rows' = Append(rows, e)
      BY <2>2 DEF e
    <3>2. Len(rows) = rowsRead /\ \A i \in 1..Len(rows) : ~rows[i].shared /\ rows[i].row = file.rows[i]
      BY DEF ReaderInv, RowsInv
    <3>3. Len(rows') = rowsRead'
      BY <1>6, <3>1, <3>2
    <3>4. ASSUME NEW i \in 1..Len(rows') PROVE ~rows'[i].shared /\ rows'[i].row = file.rows[i]
      <4>1. CASE i = rowsRead + 1
        BY <1>5, <1>6, <3>1, <3>2, <4>1 DEF Row
      <4>2. CASE i # rowsRead + 1
        <5>1. i \in 1..Len(rows)
          BY <1>2, <3>2, <3>3, <4>2
        <5> QED BY <1>6, <3>1, <3>2, <5>1
      <4> QED BY <4>1, <4>2
    <3> QED BY <3>3, <3>4 DEF RowsInv
  <2> QED BY <2>1, <2>2
<1> QED BY <1>1, <1>7, <1>8, <1>9, <1>10 DEF ReaderInv

LEMMA DecoderStep ==
  ASSUME ReaderInv, DecoderNext, UNCHANGED encoderVars
  PROVE  ReaderInv'
<1>1. reader = "Decoder" /\ reader \in {"Decoder", "FileDecoder"}
  BY DEF DecoderNext
<1>2. CASE fatalErr # "none" \/ AtEnd
  <2>1. /\ UNCHANGED <<file, rowsRead, reader, rowNum, errorCount, anyErrors, rowErr, rows>>
        /\ \/ fatalErr # "none" /\ fatalErr' = fatalErr
           \/ /\ fatalErr = "none" /\ AtEnd
              /\ fatalErr' = IF file.end = "EOF" THEN "none" ELSE "parse"
    BY <1>2 DEF DecoderNext, NextStops
  <2> QED BY <1>1, <2>1, NoRowDecoded
<1>3. CASE fatalErr = "none" /\ ~AtEnd
  <2>1. /\ rowsRead' = rowsRead + 1 /\ rowNum' = rowNum + 1
        /\ UNCHANGED <<file, reader, errorCount, anyErrors, rowErr>>
    BY <1>3 DEF DecoderNext
  <2>2. PICK decoded \in Decodes(Row) :
          IF decoded
          THEN /\ decoderBuf' = Row /\ nextResult' = "true"
               /\ rows' = Append(rows, RowCopy)
               /\ UNCHANGED fatalErr
          ELSE /\ fatalErr' = "decode" /\ nextResult' = "false"
               /\ UNCHANGED <<decoderBuf, rows>>
    BY <1>3 DEF DecoderNext
  <2>3. CASE decoded
    <3>1. rows' = Append(rows, [shared |-> FALSE, row |-> Row])
      BY <2>2, <2>3 DEF RowCopy
    <3> QED BY <1>1, <1>3, <2>1, <2>2, <2>3, <3>1, RowDecoded
  <2>4. CASE ~decoded
    <3>1. ~RowValid(Row)
      <4>1. SUFFICES ASSUME RowValid(Row) PROVE FALSE
        OBVIOUS
      <4>2. Decodes(Row) = {TRUE}
        BY <4>1, DecodesValid
      <4>3. decoded = TRUE
        BY <4>2
      <4> QED BY <2>4, <4>3
    <3> QED BY <1>1, <1>3, <2>1, <2>2, <2>4, <3>1, RowDecoded
  <2> QED BY <2>3, <2>4
<1> QED BY <1>2, <1>3

LEMMA FileDecoderStep ==
  ASSUME ReaderInv, FileDecoderNext, UNCHANGED encoderVars
  PROVE  ReaderInv'
<1>1. reader = "FileDecoder" /\ reader \in {"Decoder", "FileDecoder"}
  BY DEF FileDecoderNext
<1>2. CASE fatalErr # "none" \/ AtEnd
  <2>1. /\ UNCHANGED <<file, rowsRead, reader, rowNum, errorCount, anyErrors, rowErr>>
        /\ \/ fatalErr # "none" /\ fatalErr' = fatalErr
           \/ /\ fatalErr = "none" /\ AtEnd
              /\ fatalErr' = IF file.end = "EOF" THEN "none" ELSE "parse"
        /\ rows' = rows \/ (fatalErr' # "none" /\ rows' = <<>>)
    BY <1>2 DEF FileDecoderNext, NextStops
  <2> QED BY <1>1, <2>1, NoRowDecoded
<1>3. CASE fatalErr = "none" /\ ~AtEnd
  <2>1. rowsRead' = rowsRead + 1 /\ UNCHANGED <<file, reader, errorCount, anyErrors, rowErr>>
    BY <1>3 DEF FileDecoderNext
  <2>2. PICK decoded \in Decodes(Row) :
          IF decoded
          THEN /\ rows' = Append(rows, [shared |-> FALSE, row |-> Row]) /\ rowNum' = rowNum + 1
               /\ nextResult' = "true" /\ UNCHANGED fatalErr
          ELSE /\ rows' = <<>> /\ fatalErr' = "decode"
               /\ nextResult' = "false" /\ UNCHANGED rowNum
    BY <1>3 DEF FileDecoderNext
  <2>3. CASE decoded
    BY <1>1, <1>3, <2>1, <2>2, <2>3, RowDecoded
  <2>4. CASE ~decoded
    <3>1. ~RowValid(Row)
      <4>1. SUFFICES ASSUME RowValid(Row) PROVE FALSE
        OBVIOUS
      <4>2. Decodes(Row) = {TRUE}
        BY <4>1, DecodesValid
      <4>3. decoded = TRUE
        BY <4>2
      <4> QED BY <2>4, <4>3
    <3> QED BY <1>1, <1>3, <2>1, <2>2, <2>4, <3>1, RowDecoded
  <2> QED BY <2>3, <2>4
<1> QED BY <1>2, <1>3

\* A reader is given a file of the encoder, or one where nothing was written.
LEMMA OpenStep ==
  ASSUME ReaderInv, UNCHANGED encoderVars, NEW kind \in Readers, NEW f \in Files,
         Open(kind, f),
         \/ (closed \/ writer.failed) /\ f \in WrittenFiles
         \/ writer.out = <<>>
  PROVE  ReaderInv'
<1>1. /\ reader = "none" /\ reader' = kind /\ file' = f /\ kind # "none"
      /\ fatalErr' = (IF f.header THEN "none" ELSE "header")
      /\ UNCHANGED <<rowsRead, nextResult, rowErr, rowNum, errorCount, anyErrors, rows>>
  BY DEF Open, Readers
<1>2. /\ rowsRead = 0 /\ nextResult = "not called" /\ rowNum = 0 /\ errorCount = 0 /\ rows = <<>>
  BY <1>1 DEF ReaderInv, Opened
<1>3. f.rows \in Seq(Texts) /\ Len(f.rows) \in Nat /\ f.header \in BOOLEAN
  BY LenType DEF Files
<1>4. ReaderTypes'
  <2>1. 0 <= Len(f.rows)
    BY <1>3
  <2>2. fatalErr' \in FatalErrors
    BY <1>1 DEF FatalErrors
  <2> QED BY <1>1, <1>2, <2>1, <2>2 DEF ReaderInv, ReaderTypes
<1>5. Opened'
  <2>1. writer' = writer /\ closed' = closed
    BY DEF encoderVars
  <2>2. WrittenFiles' = WrittenFiles
    BY <2>1 DEF WrittenFiles
  <2> QED BY <1>1, <2>1, <2>2 DEF Opened
<1>6. FatalInv'
  BY <1>1, <1>2, <1>3 DEF FatalInv
<1>7. CountInv'
  <2>1. ~Wrong'
    <3>1. 1..0 = {}
      OBVIOUS
    <3> QED BY <1>1, <1>2, <3>1 DEF Wrong
  <2>2. ~(0 > 0) /\ (MaxErrors > 0 => 0 <= MaxErrors)
    BY ReaderAssumption
  <2>3. rowNum' = rowsRead' /\ errorCount' = 0
    BY <1>1, <1>2
  <2> QED BY <2>1, <2>2, <2>3 DEF CountInv
<1>8. RowsInv'
  <2>1. Len(<<>>) = 0 /\ 1..0 = {}
    OBVIOUS
  <2> QED BY <1>1, <1>2, <2>1 DEF RowsInv
<1> QED BY <1>4, <1>5, <1>6, <1>7, <1>8 DEF ReaderInv

LEMMA InitReaderInv == EncoderInit /\ ReaderInit => ReaderInv
<1> SUFFICES ASSUME EncoderInit, ReaderInit PROVE ReaderInv
  OBVIOUS
<1>1. /\ file = NoFile /\ rowsRead = 0 /\ reader = "none" /\ nextResult = "not called"
      /\ rowErr = FALSE /\ fatalErr = "none" /\ rowNum = 0 /\ errorCount = 0
      /\ anyErrors = FALSE /\ rows = <<>>
  BY DEF ReaderInit
<1>2. /\ NoFile \in Files /\ NoFile.rows = <<>> /\ Len(<<>>) = 0
      /\ <<>> \in Seq([shared : BOOLEAN, row : Texts])
  BY EmptySeq DEF NoFile, Files
<1>3. ReaderTypes
  <2>1. fatalErr \in FatalErrors
    BY <1>1 DEF FatalErrors
  <2>2. anyErrors = (errorCount > 0)
    <3>1. (0 > 0) = FALSE
      OBVIOUS
    <3>2. anyErrors = FALSE /\ errorCount = 0
      BY <1>1
    <3> QED BY <3>1, <3>2
  <2>3. errorCount <= rowNum /\ rowsRead <= Len(file.rows)
    <3>1. 0 <= 0
      OBVIOUS
    <3>2. errorCount = 0 /\ rowNum = 0 /\ rowsRead = 0 /\ Len(file.rows) = 0
      BY <1>1, <1>2
    <3> QED BY <3>1, <3>2
  <2> QED BY <1>1, <1>2, <2>1, <2>2, <2>3 DEF ReaderTypes
<1>4. Opened /\ FatalInv /\ RowsInv
  BY <1>1 DEF Opened, FatalInv, RowsInv
<1>5. CountInv
  <2>1. MaxErrors > 0 => 0 <= MaxErrors
    BY ReaderAssumption
  <2>2. reader # "Validator" /\ errorCount = 0
    BY <1>1
  <2> QED BY <2>1, <2>2 DEF CountInv
<1> QED BY <1>3, <1>4, <1>5 DEF ReaderInv

-----------------------------------------------------------------------------
(* The files the readers are given.                                        *)

LEMMA OtherFilesType == OtherFiles \subseteq Files
<1>1. OtherRows \subseteq Texts
  <2> DEFINE C == {Cell(0, 0, v) : v \in {"good", "bad", "empty"}}
  <2>1. ASSUME NEW r \in OtherRows PROVE r \in Texts
    <3>1. PICK n \in 1..Columns : r \in [1..n -> C]
      BY DEF OtherRows
    <3>2. C \subseteq Pieces
      <4>1. ASSUME NEW v \in {"good", "bad", "empty"} PROVE Cell(0, 0, v) \in Pieces
        <5>1. v \in Marks /\ 0 \in Nat
          BY DEF Marks
        <5> QED BY <5>1, CellIsPiece
      <4> QED BY <4>1
    <3> HIDE DEF C, Pieces
    <3>3. n \in Nat
      BY ColumnsAssumption
    <3>4. r \in Seq(C)
      BY <3>1, <3>3
    <3> QED BY <3>2, <3>4, SeqMonotonic DEF Texts
  <2> QED BY <2>1
<1>2. BoundedSeq(OtherRows, MaxRows) \subseteq Seq(Texts)
  <2>1. ASSUME NEW s \in BoundedSeq(OtherRows, MaxRows) PROVE s \in Seq(Texts)
    <3>1. PICK m \in 0..MaxRows : s \in [1..m -> OtherRows]
      BY DEF BoundedSeq, SeqOf
    <3>2. m \in Nat
      BY RowsAssumption
    <3> HIDE DEF OtherRows
    <3>3. s \in Seq(OtherRows)
      BY <3>1, <3>2
    <3> QED BY <1>1, <3>3, SeqMonotonic
  <2> QED BY <2>1
<1>3. NoFile \in Files
  BY EmptySeq DEF NoFile, Files
<1> QED BY <1>2, <1>3 DEF OtherFiles, Files

LEMMA OutTorso ==
  ASSUME EncoderInv
  PROVE  /\ writer.out \in Texts /\ Written \in Texts /\ Torso(writer.out, Written)
         /\ ~writer.failed => Begins(writer.out, Written)
         /\ ~writer.failed /\ writer.buffer = <<>> => writer.out = Written
<1> DEFINE o == writer.out
           b == writer.buffer
<1>1. /\ o \in Texts /\ b \in Texts /\ Written \in Texts
      /\ writer.failed => Torso(o, Written)
      /\ ~writer.failed => o \o b = Written
  BY WrittenText DEF EncoderInv, WriterInv, Holds, Writers, Written
<1> HIDE DEF o, b
<1>2. ASSUME ~writer.failed PROVE Begins(o, Written) /\ Torso(o, Written)
  <2>1. Begins(o, Written)
    BY <1>1, <1>2, ConcatBegins
  <2> QED BY <1>1, <2>1, BeginningIsTorso
<1>3. ASSUME ~writer.failed, b = <<>> PROVE o = Written
  BY <1>1, <1>3, ConcatEmptySeq DEF Texts
<1> QED BY <1>1, <1>2, <1>3 DEF o, b

LEMMA BodyTorso ==
  ASSUME NEW o \in Texts, NEW u \in Texts, Torso(o, HeaderText \o u)
  PROVE  /\ Body(o) \in Texts /\ Torso(Body(o), u)
         /\ Begins(o, HeaderText \o u) => Begins(Body(o), u)
<1> DEFINE t == HeaderText \o u
           b == Body(o)
           h == HeaderText
<1>1. /\ o \in Seq(Pieces) /\ Len(o) \in Nat /\ Len(u) \in Nat
      /\ t \in Seq(Pieces) /\ Len(t) = Len(u) + 3
  BY BodyOf, LenType DEF Texts
<1>2. \A i \in 1..Len(u) : t[3 + i] = u[i]
  <2>1. h \in Seq(Pieces) /\ u \in Seq(Pieces) /\ Len(h) = 3
    BY HeaderTextType DEF Texts
  <2> HIDE DEF h
  <2>2. \A i \in 1..Len(u) : (h \o u)[Len(h) + i] = u[i]
    <3>1. h \in Seq(Pieces) /\ u \in Seq(Pieces)
      BY <2>1
    <3> HIDE DEF Pieces
    <3> QED BY <3>1, ConcatParts
  <2> QED BY <2>1, <2>2 DEF h
<1> HIDE DEF t
<1>3. Len(o) <= Len(t)
  BY DEF Torso, t
<1>4. CASE Len(o) <= 3
  <2>1. b = <<>>
    <3>1. CASE Len(o) = 3
      <4>1. 4 \in 1..(Len(o) + 1) /\ Len(o) \in (4 - 1)..Len(o) /\ Len(o) - 4 + 1 = 0
        BY <3>1
      <4>2. b \in Seq(Pieces) /\ Len(b) = 0
        BY <1>1, <4>1, Part DEF Body
      <4> QED BY <4>2, EmptySeq
    <3>2. CASE Len(o) # 3
      <4>1. Len(o) < 4 /\ 4 \in Int /\ Len(o) \in Int
        BY <1>1, <1>4, <3>2
      <4> QED BY <4>1, SubSeqEmpty DEF Body
    <3> QED BY <3>1, <3>2
  <2>2. Len(<<>>) = 0 /\ 1..0 = {} /\ 0 <= Len(u) /\ <<>> \in Texts
    BY <1>1, EmptySeq DEF Texts
  <2>3. Begins(<<>>, u)
    BY <2>2 DEF Begins
  <2>4. Torso(<<>>, u)
    BY <2>2, <2>3, BeginningIsTorso
  <2> QED BY <2>1, <2>2, <2>3, <2>4
<1>5. CASE ~(Len(o) <= 3)
  <2>1. 4 \in 1..(Len(o) + 1) /\ Len(o) \in (4 - 1)..Len(o) /\ Len(o) - 4 + 1 = Len(o) - 3
    BY <1>1, <1>5
  <2>2. b \in Seq(Pieces) /\ Len(b) = Len(o) - 3 /\ \A i \in 1..(Len(o) - 3) : b[i] = o[4 + i - 1]
    BY <1>1, <2>1, Part DEF Body
  <2> HIDE DEF b
  <2>3. /\ Len(b) <= Len(u) /\ Len(b) \in Nat /\ Len(b) \in 1..Len(b) /\ 3 + Len(b) = Len(o)
        /\ Len(o) \in 1..Len(o)
    BY <1>1, <1>3, <1>5, <2>2
  <2>4. ASSUME NEW i \in 1..Len(b)
        PROVE  /\ b[i] = o[3 + i] /\ u[i] = t[3 + i] /\ 3 + i \in 1..Len(o)
               /\ (i < Len(b) => 3 + i < Len(o))
    <3>1. i \in 1..Len(u) /\ i \in 1..(Len(o) - 3) /\ 4 + i - 1 = 3 + i
      BY <1>1, <2>2, <2>3
    <3>2. 3 + i \in 1..Len(o) /\ (i < Len(b) => 3 + i < Len(o))
      BY <1>1, <2>2
    <3> QED BY <1>2, <2>2, <3>1, <3>2
  <2>5. o # <<>>
    BY <1>5, EmptySeq
  <2>6. Torso(o, t)
    BY DEF t
  <2>7. Torso(b, u)
    <3>1. ASSUME NEW i \in 1..Len(b), i < Len(b) PROVE b[i] = u[i]
      BY <2>4, <2>6, <3>1 DEF Torso
    <3>2. \/ o[Len(o)] = t[Len(o)]
          \/ t[Len(o)].row > 0 /\ o[Len(o)] = [t[Len(o)] EXCEPT !.value = "cut"]
      BY <2>5, <2>6 DEF Torso
    <3>3. b[Len(b)] = o[Len(o)] /\ u[Len(b)] = t[Len(o)]
      BY <2>3, <2>4
    <3> QED BY <2>3, <3>1, <3>2, <3>3 DEF Torso
  <2>8. ASSUME Begins(o, t) PROVE Begins(b, u)
    BY <2>3, <2>4, <2>8 DEF Begins
  <2> QED BY <2>2, <2>7, <2>8 DEF b, t, Texts
<1> QED BY <1>1, <1>4, <1>5 DEF t

LEMMA BodyPieceValues ==
  ASSUME NEW p \in BodyPieces
  PROVE  p \in Pieces /\ Legible(p) /\ p.value # "cut"
<1>1. p \in Pieces /\ (p = Newline \/ p.value \in {"fits", "unchecked"})
  BY DEF BodyPieces, IsCell
<1> QED BY <1>1, Symbols DEF Legible

LEMMA TorsoPieces ==
  ASSUME NEW b \in Texts, NEW u \in Seq(BodyPieces), Torso(b, u)
  PROVE  /\ \A i \in 1..Len(b) : Legible(b[i])
         /\ (\A i \in 1..Len(u) : u[i].value # "unchecked") =>
               \A i \in 1..Len(b) : b[i].value # "unchecked"
         /\ b = <<>> \/ b[Len(b)].value # "cut" => Begins(b, u)
<1>1. /\ Len(b) \in Nat /\ Len(u) \in Nat /\ Len(b) <= Len(u)
      /\ \A i \in 1..Len(u) : u[i] \in BodyPieces
  BY LenType DEF Texts, Torso
<1>2. ASSUME NEW i \in 1..Len(b)
      PROVE  /\ i \in 1..Len(u) /\ u[i] \in Pieces /\ Legible(u[i]) /\ u[i].value # "cut"
             /\ b[i] = u[i] \/ (i = Len(b) /\ b[i] = [u[i] EXCEPT !.value = "cut"])
  <2>1. i \in 1..Len(u)
    BY <1>1
  <2>2. u[i] \in Pieces /\ Legible(u[i]) /\ u[i].value # "cut"
    BY <1>1, <2>1, BodyPieceValues
  <2>3. CASE i < Len(b)
    BY <2>1, <2>2, <2>3 DEF Torso
  <2>4. CASE ~(i < Len(b))
    <3>1. i = Len(b)
      BY <1>1, <2>4
    <3>2. b # <<>>
      BY <1>1, EmptySeq
    <3>3. b[i] = u[i] \/ b[i] = [u[i] EXCEPT !.value = "cut"]
      BY <3>1, <3>2 DEF Torso
    <3> QED BY <2>1, <2>2, <3>1, <3>3
  <2> QED BY <2>3, <2>4
<1>3. \A p \in Pieces : [p EXCEPT !.value = "cut"].value = "cut"
  <2>1. "cut" \in Marks
    BY DEF Marks
  <2> QED BY <2>1, AsPiece
<1>4. ASSUME NEW i \in 1..Len(b) PROVE Legible(b[i])
  BY <1>2, <1>3 DEF Legible
<1>5. ASSUME \A i \in 1..Len(u) : u[i].value # "unchecked", NEW i \in 1..Len(b)
      PROVE  b[i].value # "unchecked"
  BY <1>2, <1>3, <1>5
<1>6. ASSUME b = <<>> \/ b[Len(b)].value # "cut" PROVE Begins(b, u)
  <2>1. ASSUME NEW i \in 1..Len(b) PROVE b[i] = u[i]
    <3>1. b # <<>>
      BY <1>1, EmptySeq
    <3>2. i = Len(b) => b[i].value # "cut"
      BY <1>6, <3>1
    <3> QED BY <1>2, <1>3, <3>2
  <2> QED BY <1>1, <2>1 DEF Begins
<1> QED BY <1>4, <1>5, <1>6

\* What was written behind the header.
LEMMA WrittenBody ==
  ASSUME EncoderInv, writer.out # <<>>
  PROVE  /\ Body(writer.out) \in Texts /\ Body(Written) \in Seq(BodyPieces)
         /\ Torso(Body(writer.out), Body(Written))
         /\ Written # <<>>
<1> DEFINE o == writer.out
           t == Written
           u == Body(t)
<1>1. o \in Texts /\ t \in Texts /\ Torso(o, t) /\ o # <<>>
  BY OutTorso
<1>2. t = <<>> \/ (t = HeaderText \o u /\ u \in Seq(BodyPieces))
  BY WrittenText
<1> HIDE DEF o, u, t
<1>3. t # <<>>
  <2>1. Len(o) \in Nat /\ Len(t) \in Nat /\ Len(o) <= Len(t) /\ Len(o) # 0
    BY <1>1, EmptySeq, LenType DEF Texts, Torso
  <2>2. Len(t) # 0
    BY <2>1
  <2> QED BY <2>2
<1>4. u \in Texts /\ Torso(o, HeaderText \o u)
  BY <1>1, <1>2, <1>3, BodyPiecesType
<1>5. Body(o) \in Texts /\ Torso(Body(o), u)
  BY <1>1, <1>4, BodyTorso
<1> QED BY <1>2, <1>3, <1>5 DEF o, t, u

LEMMA FrontBegins ==
  ASSUME NEW S, NEW s \in Seq(S)
  PROVE  Front(s) \in Seq(S) /\ Begins(Front(s), s)
<1> DEFINE f == SubSeq(s, 1, Len(s) - 1)
<1>1. Len(s) \in Nat
  BY LenType
<1>2. CASE Len(s) = 0
  <2>1. Len(s) - 1 < 1 /\ 1 \in Int /\ Len(s) - 1 \in Int
    BY <1>2
  <2>2. f = <<>>
    BY <2>1, SubSeqEmpty
  <2>3. Len(<<>>) = 0 /\ 1..0 = {} /\ 0 <= Len(s)
    BY <1>1
  <2> QED BY <2>2, <2>3, EmptySeq DEF Front, Begins
<1>3. CASE Len(s) # 0
  <2>1. 1 \in 1..(Len(s) + 1) /\ Len(s) - 1 \in (1 - 1)..Len(s) /\ (Len(s) - 1) - 1 + 1 = Len(s) - 1
    BY <1>1, <1>3
  <2>2. /\ f \in Seq(S) /\ Len(f) = (Len(s) - 1) - 1 + 1
        /\ \A i \in 1..((Len(s) - 1) - 1 + 1) : f[i] = s[1 + i - 1]
    BY <2>1, Part
  <2>3. \A i \in 1..(Len(s) - 1) : 1 + i - 1 = i
    BY <1>1
  <2> HIDE DEF f
  <2>4. Len(f) <= Len(s) /\ \A i \in 1..Len(f) : f[i] = s[i]
    BY <1>1, <2>1, <2>2, <2>3
  <2> QED BY <2>2, <2>4 DEF Front, Begins, f
<1> QED BY <1>2, <1>3

\* A file of the encoder: the rows of one reading of what was written, the
\* last of which may be missing where it was cut.
LEMMA WrittenFile ==
  ASSUME EncoderInv, writer.out # <<>>, NEW f \in WrittenFiles
  PROVE  /\ f \in Files
         /\ \/ Len(writer.out) = 1 /\ f.rows = <<>>
            \/ \E t \in TextsRead(Body(writer.out)) :
                 /\ t \in Texts /\ Begins(f.rows, Lines(t)) /\ f.header = TRUE
                 /\ LET b == Body(writer.out)
                    IN  \/ f.rows = Lines(t) /\ f.end = "EOF"
                        \/ b # <<>> /\ b[Len(b)].value = "cut"
<1> DEFINE b == Body(writer.out)
           G(t) == [header |-> TRUE, rows |-> Lines(t), end |-> "EOF"]
           H(g) == [g EXCEPT !.rows = Front(@), !.end = "error"]
           whole == {G(t) : t \in TextsRead(b)}
           cut == b # <<>> /\ Last(b).value = "cut"
<1>1. CASE Len(writer.out) = 1
  <2>1. f \in {[NoFile EXCEPT !.header = h] : h \in BOOLEAN}
    BY <1>1 DEF WrittenFiles
  <2>2. PICK h \in BOOLEAN : f = [NoFile EXCEPT !.header = h]
    BY <2>1
  <2>3. f = [header |-> h, rows |-> <<>>, end |-> "EOF"]
    BY <2>2 DEF NoFile
  <2>4. f \in Files /\ f.rows = <<>>
    BY <2>3, EmptySeq DEF Files
  <2> QED BY <1>1, <2>4
<1>2. CASE Len(writer.out) # 1
  <2>1. f \in whole \cup (IF cut THEN {H(g) : g \in whole} ELSE {})
    BY <1>2 DEF WrittenFiles, Body
  <2>2. TextsRead(b) \subseteq Texts
    <3>1. b \in Texts /\ Body(Written) \in Seq(BodyPieces) /\ Torso(b, Body(Written))
      BY WrittenBody
    <3> HIDE DEF b
    <3>2. \A i \in 1..Len(b) : Legible(b[i])
      BY <3>1, TorsoPieces
    <3> QED BY <3>1, <3>2, TextsReadType
  <2>3. cut => b # <<>> /\ b[Len(b)].value = "cut"
    BY DEF Last
  <2> HIDE DEF cut, b
  <2>4. ASSUME NEW t \in TextsRead(b) PROVE /\ t \in Texts /\ Lines(t) \in Seq(Texts)
                                            /\ Begins(Lines(t), Lines(t))
                                            /\ Front(Lines(t)) \in Seq(Texts)
                                            /\ Begins(Front(Lines(t)), Lines(t))
    <3>1. t \in Texts
      BY <2>2
    <3>2. Lines(t) \in Seq(Texts)
      BY <3>1, LinesOf
    <3>3. Len(Lines(t)) \in Nat
      BY <3>2, LenType
    <3> QED BY <3>1, <3>2, <3>3, FrontBegins DEF Begins
  <2>5. CASE f \in whole
    <3>1. PICK t \in TextsRead(b) : f = G(t)
      BY <2>5
    <3>2. f.rows = Lines(t) /\ f.header = TRUE /\ f.end = "EOF" /\ f \in Files
      BY <2>4, <3>1 DEF Files
    <3>3. t \in Texts /\ Begins(f.rows, Lines(t))
      BY <2>4, <3>2
    <3> QED BY <3>2, <3>3 DEF b
  <2>6. CASE cut /\ f \in {H(g) : g \in whole}
    <3> HIDE DEF H
    <3>1. PICK g \in whole : f = H(g)
      BY <2>6
    <3>2. PICK t \in TextsRead(b) : g = G(t)
      BY <3>1
    <3>3. f = [header |-> TRUE, rows |-> Front(Lines(t)), end |-> "error"]
      BY <3>1, <3>2 DEF H
    <3> DEFINE r == Front(Lines(t))
    <3>4. f = [header |-> TRUE, rows |-> r, end |-> "error"] /\ r \in Seq(Texts)
      BY <2>4, <3>3
    <3> HIDE DEF r
    <3>5. f.rows = r /\ f.header = TRUE /\ f \in Files
      BY <3>4 DEF Files
    <3>6. t \in Texts /\ Begins(f.rows, Lines(t))
      BY <2>4, <3>5 DEF r
    <3> QED BY <2>3, <2>6, <3>5, <3>6 DEF b
  <2> QED BY <2>1, <2>5, <2>6
<1> QED BY <1>1, <1>2

LEMMA WrittenFilesType == EncoderInv => WrittenFiles \subseteq Files
<1> SUFFICES ASSUME EncoderInv, NEW f \in WrittenFiles PROVE f \in Files
  OBVIOUS
<1>1. CASE writer.out = <<>>
  <2>1. Len(writer.out) = 0
    BY <1>1
  <2>2. f = NoFile
    BY <1>1, <2>1 DEF WrittenFiles
  <2> QED BY <2>2, EmptySeq DEF NoFile, Files
<1>2. CASE writer.out # <<>>
  BY <1>2, WrittenFile
<1> QED BY <1>1, <1>2

\* Where nothing was asked of the encoder, nothing left it.
LEMMA NothingWritten ==
  ASSUME EncoderInv, ~headerDone, ~writer.failed
  PROVE  writer.out = <<>>
<1> DEFINE o == writer.out
           b == writer.buffer
<1>1. accepted = <<>> /\ failing = <<>>
  BY DEF EncoderInv, AcceptedInv, FailingInv
<1>2. accepted \o failing = <<>>
  <2>1. <<>> \in Seq(Pieces)
    BY EmptySeq
  <2> QED BY <1>1, <2>1, ConcatEmptySeq
<1>3. o \in Seq(Pieces) /\ b \in Seq(Pieces) /\ o \o b = <<>>
  BY <1>2 DEF EncoderInv, WriterInv, Holds, Writers, Texts
<1> HIDE DEF o, b
<1>4. o = <<>>
  BY <1>3, ConcatEqualIffEmpty
<1> QED BY <1>4 DEF o

LEMMA ReaderUnchanged ==
  ASSUME ReaderInv, UNCHANGED readerVars, reader = "none" \/ UNCHANGED encoderVars
  PROVE  ReaderInv'
<1>1. /\ UNCHANGED <<file, rowsRead, reader, nextResult, rowErr, fatalErr, rowNum>>
      /\ UNCHANGED <<errorCount, anyErrors, rows>>
  BY DEF readerVars
<1>2. ReaderTypes'
  BY <1>1 DEF ReaderInv, ReaderTypes
<1>3. Opened'
  <2>1. CASE reader = "none"
    BY <1>1, <2>1 DEF ReaderInv, Opened
  <2>2. CASE reader # "none"
    BY <1>1, <2>2, OpenedStep DEF ReaderInv
  <2> QED BY <2>1, <2>2
<1>4. Wrong' <=> Wrong
  BY <1>1, WrongSame
<1>5. FatalInv'
  <2>1. AtEnd' <=> AtEnd
    BY <1>1 DEF AtEnd
  <2> QED BY <1>1, <1>4, <2>1 DEF ReaderInv, FatalInv
<1>6. CountInv'
  BY <1>1, <1>4 DEF ReaderInv, CountInv
<1>7. RowsInv'
  BY <1>1 DEF ReaderInv, RowsInv
<1> QED BY <1>2, <1>3, <1>5, <1>6, <1>7 DEF ReaderInv

LEMMA InvInit == Init => IInv
BY InitEncoderInv, InitReaderInv DEF Init, IInv

LEMMA InvStep == IInv /\ [Next]_vars => IInv'
<1> SUFFICES ASSUME IInv, [Next]_vars PROVE IInv'
  OBVIOUS
<1>1. EncoderInv /\ ReaderInv
  BY DEF IInv
<1>2. UNCHANGED encoderVars => EncoderInv'
  BY <1>1, EncoderStep
<1>3. CASE Encode
  <2>1. EncoderNext /\ reader = "none" /\ UNCHANGED readerVars
    BY <1>3 DEF Encode
  <2>2. EncoderInv'
    BY <1>1, <2>1, EncoderStep
  <2>3. ReaderInv'
    BY <1>1, <2>1, ReaderUnchanged
  <2> QED BY <2>2, <2>3 DEF IInv
<1>4. CASE ReadWritten
  <2>1. PICK kind \in Readers, f \in WrittenFiles : Open(kind, f)
    BY <1>4 DEF ReadWritten
  <2>2. UNCHANGED encoderVars /\ (closed \/ writer.failed)
    BY <1>4 DEF ReadWritten
  <2>3. f \in Files
    BY <1>1, WrittenFilesType
  <2>4. ReaderInv'
    BY <1>1, <2>1, <2>2, <2>3, OpenStep
  <2> QED BY <1>2, <2>2, <2>4 DEF IInv
<1>5. CASE ReadOther
  <2>1. PICK kind \in Readers, f \in OtherFiles : Open(kind, f)
    BY <1>5 DEF ReadOther
  <2>2. UNCHANGED encoderVars /\ ~headerDone /\ ~writer.failed
    BY <1>5 DEF ReadOther
  <2>3. f \in Files
    BY OtherFilesType
  <2>4. writer.out = <<>>
    BY <1>1, <2>2, NothingWritten
  <2>5. ReaderInv'
    BY <1>1, <2>1, <2>2, <2>3, <2>4, OpenStep
  <2> QED BY <1>2, <2>2, <2>5 DEF IInv
<1>6. CASE Read
  <2>1. ReaderNext /\ UNCHANGED encoderVars
    BY <1>6 DEF Read
  <2>2. ReaderInv'
    BY <1>1, <2>1, ValidatorStep, DecoderStep, FileDecoderStep DEF ReaderNext
  <2> QED BY <1>2, <2>1, <2>2 DEF IInv
<1>7. CASE UNCHANGED vars
  <2>1. UNCHANGED encoderVars /\ UNCHANGED readerVars
    BY <1>7 DEF vars
  <2>2. ReaderInv'
    BY <1>1, <2>1, ReaderUnchanged
  <2> QED BY <1>2, <2>1, <2>2 DEF IInv
<1> QED BY <1>3, <1>4, <1>5, <1>6, <1>7 DEF Next

\* The encoder's texts fit together, and a reader's counts and error are those
\* of the rows it has read.
THEOREM SdkInvariant == Spec => []IInv
BY InvInit, InvStep, PTL DEF Spec

\* supr/encoder.go, validator.go, decoder.go: the counts stay in their bounds,
\* the buffered writer holds no more than it has room for, and AnyErrors is
\* what the count of errors says.
THEOREM SdkTypeCorrect == Spec => []SdkTypeOK
<1>1. IInv => SdkTypeOK
  <2> SUFFICES ASSUME IInv PROVE SdkTypeOK
    OBVIOUS
  <2>1. EncoderTypes /\ WriterInv /\ ReaderTypes /\ CountInv
    BY DEF IInv, EncoderInv, ReaderInv
  <2>2. rowsWritten \in 0..MaxOffered
    <3>1. /\ rowsWritten \in Nat /\ Len(offered) \in Nat /\ MaxOffered \in Nat
          /\ rowsWritten <= Len(offered) /\ Len(offered) <= MaxOffered
      BY <2>1, EncoderAssumption, LenType DEF EncoderTypes
    <3> QED BY <3>1
  <2>3. Len(writer.buffer) <= BufSize /\ writer.failed \in BOOLEAN
    BY <2>1 DEF WriterInv, Holds, Writers
  <2>4. rowsRead \in 0..Len(file.rows)
    <3>1. file.rows \in Seq(Texts)
      BY <2>1 DEF ReaderTypes, Files
    <3>2. rowsRead \in Nat /\ rowsRead <= Len(file.rows) /\ Len(file.rows) \in Nat
      BY <2>1, <3>1, LenType DEF ReaderTypes
    <3> QED BY <3>2
  <2>5. errorCount \in 0..rowNum
    <3>1. errorCount \in Nat /\ rowNum \in Nat /\ errorCount <= rowNum
      BY <2>1 DEF ReaderTypes
    <3> QED BY <3>1
  <2>6. headerDone \in BOOLEAN /\ closed \in BOOLEAN
    BY <2>1 DEF EncoderTypes
  <2>7. /\ fatalErr \in FatalErrors /\ anyErrors = (errorCount > 0) /\ rowErr \in BOOLEAN
        /\ reader = "Validator" => rowNum = rowsRead
    BY <2>1 DEF ReaderTypes, CountInv
  <2> QED BY <2>2, <2>3, <2>4, <2>5, <2>6, <2>7 DEF SdkTypeOK
<1> QED BY <1>1, SdkInvariant, PTL

\* FileEncoder: the output is what the calls that returned nil were to write,
\* in order and whole; only where the writer failed may a part of one further
\* call follow, and nothing of a refused or rejected row is ever in it.
THEOREM OutputFollowsCalls == Spec => []OutputIsAccepted
<1>1. IInv => OutputIsAccepted
  BY OutputFollows DEF IInv
<1> QED BY <1>1, SdkInvariant, PTL

\* FileEncoder.Close: when it returns nil, everything that calls that returned
\* nil were to write has reached the writer.
THEOREM CloseWritesAll == Spec => CloseMeansWritten
<1>1. IInv /\ [Next]_vars => [closed' /\ ~closed => writer'.out = accepted]_encoderVars
  <2> SUFFICES ASSUME IInv, [Next]_vars, closed', ~closed
               PROVE  writer'.out = accepted
    OBVIOUS
  <2>1. EncoderInv
    BY DEF IInv
  <2>2. [EncoderNext]_encoderVars
    BY DEF Next, vars, Encode, ReadWritten, ReadOther, Read
  <2> QED BY <2>1, <2>2, ClosedWritten
<1> QED BY <1>1, SdkInvariant, PTL DEF Spec, CloseMeansWritten

\* Validator: after Next has returned false, Valid holds exactly if the file
\* was read to its end and every row of it is valid, and ErrMaxErrors is
\* reported after as many rows as WithMaxErrors says, and for nothing else.
THEOREM VerdictCorrect == Spec => []VerdictIsRight
<1>1. IInv => VerdictIsRight
  <2> SUFFICES ASSUME IInv PROVE VerdictIsRight
    OBVIOUS
  <2>1. ReaderTypes /\ FatalInv /\ CountInv
    BY DEF IInv, ReaderInv
  <2>2. MaxErrorsIsExact
    BY <2>1 DEF FatalInv, CountInv, MaxErrorsIsExact
  <2>3. ASSUME reader = "Validator", nextResult = "false"
        PROVE  Valid <=> /\ file.header /\ AtEnd /\ file.end = "EOF"
                         /\ \A i \in 1..Len(file.rows) : RowValid(file.rows[i])
    <3>1. ~anyErrors <=> ~Wrong
      BY <2>1, <2>3 DEF ReaderTypes, CountInv
    <3>2. file.header \in BOOLEAN
      BY <2>1 DEF ReaderTypes, Files
    <3>3. ASSUME Valid
          PROVE  /\ file.header /\ AtEnd /\ file.end = "EOF"
                 /\ \A i \in 1..Len(file.rows) : RowValid(file.rows[i])
      <4>1. fatalErr = "none" /\ ~Wrong
        BY <3>1, <3>3 DEF Valid
      <4>2. file.header /\ AtEnd /\ file.end = "EOF"
        BY <2>1, <2>3, <3>2, <4>1 DEF FatalInv
      <4> QED BY <4>1, <4>2 DEF AtEnd, Wrong
    <3>4. ASSUME /\ file.header /\ AtEnd /\ file.end = "EOF"
                 /\ \A i \in 1..Len(file.rows) : RowValid(file.rows[i])
          PROVE  Valid
      <4>1. ~Wrong
        BY <3>4 DEF AtEnd, Wrong
      <4>2. fatalErr # "header" /\ fatalErr # "parse" /\ fatalErr # "decode"
        BY <2>1, <2>3, <3>4 DEF FatalInv
      <4>3. fatalErr # "max errors"
        <5>1. ~(errorCount > 0)
          BY <2>1, <2>3, <4>1 DEF CountInv
        <5> QED BY <2>1, <5>1 DEF FatalInv
      <4>4. fatalErr = "none"
        BY <2>1, <4>2, <4>3 DEF ReaderTypes, FatalErrors
      <4> QED BY <3>1, <4>1, <4>4 DEF Valid
    <3> QED BY <3>3, <3>4
  <2> QED BY <2>2, <2>3 DEF VerdictIsRight
<1> QED BY <1>1, SdkInvariant, PTL

\* Decoder, DecodeFile and FileDecoder: what they return are the rows of the
\* file, each its own whatever was read after it, or none and an error.
THEOREM DecodedRowsCorrect == Spec => []DecodedRowsAreTheFiles
<1>1. IInv => DecodedRowsAreTheFiles
  <2> SUFFICES ASSUME IInv, reader \in {"Decoder", "FileDecoder"}, fatalErr = "none"
               PROVE  /\ Len(rows) = rowsRead
                      /\ \A i \in 1..Len(rows) : Kept(rows[i]) = file.rows[i]
    BY DEF DecodedRowsAreTheFiles
  <2>1. Len(rows) = rowsRead /\ \A i \in 1..Len(rows) : ~rows[i].shared /\ rows[i].row = file.rows[i]
    BY DEF IInv, ReaderInv, RowsInv
  <2> QED BY <2>1 DEF Kept
<1> QED BY <1>1, SdkInvariant, PTL

-----------------------------------------------------------------------------
(* What was written reads back.                                            *)

LEMMA BodyPlain ==
  ASSUME NEW p \in BodyPieces, p.value # "unchecked"
  PROVE  p \in Pieces /\ Plain(p)
BY DEF BodyPieces, IsCell, Plain

LEMMA ReadingBegins ==
  ASSUME NEW g \in Texts, NEW u \in Seq(BodyPieces), NEW k \in Nat,
         k <= Len(g), k <= Len(u),
         \A i \in 1..k : u[i].value # "unchecked" /\ g[i] = Good(u[i])
  PROVE  /\ RowsReadAs(Splits(g)[k].whole, Splits(u)[k].whole)
         /\ Splits(g)[k].line = AsRead(Splits(u)[k].line)
         /\ \A i \in 1..Len(Splits(g)[k].whole) :
              i \in 1..Len(Lines(u)) /\ Splits(g)[k].whole[i] = AsRead(Lines(u)[i])
<1> DEFINE m == Len(u)
           x == Splits(u)[k].whole
           y == Splits(u)[m].whole
           w == Splits(g)[k].whole
           v == Lines(u)
<1>1. u \in Texts /\ m \in Nat /\ k \in 0..k /\ k \in 0..m /\ m \in k..m /\ m \in 0..m
  BY BodyPiecesType, LenType
<1>2. \A i \in 1..k : Plain(u[i]) /\ g[i] = Good(u[i])
  <2>1. \A i \in 1..k : i \in 1..m
    BY <1>1
  <2>2. \A i \in 1..m : u[i] \in BodyPieces
    BY LenType
  <2> QED BY <2>1, <2>2, BodyPlain
<1>3. RowsReadAs(w, x) /\ Splits(g)[k].line = AsRead(Splits(u)[k].line)
  BY <1>1, <1>2, SplitsGood
<1>4. Begins(x, y)
  BY <1>1, WholeGrows
<1>5. Begins(y, v) /\ v \in Seq(Texts)
  BY <1>1, LinesOf
<1>6. Len(x) \in Nat /\ Len(y) \in Nat /\ Len(v) \in Nat
  <2>1. x \in Seq(Texts) /\ y \in Seq(Texts)
    BY <1>1, SplitsType DEF SplitRecs
  <2> HIDE DEF x, y, v
  <2> QED BY <1>5, <2>1, LenType
<1> HIDE DEF x, y, w, v
<1>7. ASSUME NEW i \in 1..Len(w) PROVE i \in 1..Len(v) /\ w[i] = AsRead(v[i])
  <2>1. i \in 1..Len(x) /\ w[i] = AsRead(x[i])
    BY <1>3 DEF RowsReadAs
  <2>2. i \in 1..Len(y) /\ x[i] = y[i]
    BY <1>4, <1>6, <2>1 DEF Begins
  <2>3. i \in 1..Len(v) /\ y[i] = v[i]
    BY <1>5, <1>6, <2>2 DEF Begins
  <2> QED BY <2>1, <2>2, <2>3
<1> QED BY <1>3, <1>7 DEF x, w, v

LEMMA ReadingRows ==
  ASSUME NEW b \in Texts, NEW u \in Seq(BodyPieces), Torso(b, u),
         \A i \in 1..Len(u) : u[i].value # "unchecked",
         NEW g, g = GoodText(b, Len(b))
  PROVE  /\ TextsRead(b) = {g} /\ g \in Texts /\ Len(g) = Len(b)
         /\ \A i \in 1..Len(Splits(g)[Len(g)].whole) :
              i \in 1..Len(Lines(u)) /\ Splits(g)[Len(g)].whole[i] = AsRead(Lines(u)[i])
         /\ b = u => /\ RowsReadAs(Splits(g)[Len(g)].whole, Splits(u)[Len(u)].whole)
                     /\ Splits(g)[Len(g)].line = AsRead(Splits(u)[Len(u)].line)
<1> DEFINE n == Len(b)
<1>1. /\ n \in Nat /\ n \in 0..n /\ Len(u) \in Nat /\ n <= Len(u) /\ n <= n
      /\ \A i \in 1..n : b[i] \in Pieces
  BY LenType DEF Texts, Torso
<1>2. \A i \in 1..n : Legible(b[i]) /\ b[i].value # "unchecked"
  BY TorsoPieces
<1>3. TextsRead(b) = {g}
  BY <1>2, TextsReadChecked
<1>4. g \in Texts /\ Len(g) = n /\ \A i \in 1..n : g[i] = Good(b[i])
  BY <1>1, GoodTextType
<1>5. CASE b = <<>> \/ b[n].value # "cut"
  <2>1. \A i \in 1..n : b[i] = u[i] /\ i \in 1..Len(u)
    <3>1. Begins(b, u)
      BY <1>5, TorsoPieces
    <3> QED BY <1>1, <3>1 DEF Begins
  <2>2. \A i \in 1..n : u[i].value # "unchecked" /\ g[i] = Good(u[i])
    BY <1>4, <2>1
  <2>3. /\ RowsReadAs(Splits(g)[n].whole, Splits(u)[n].whole)
        /\ Splits(g)[n].line = AsRead(Splits(u)[n].line)
        /\ \A i \in 1..Len(Splits(g)[n].whole) :
              i \in 1..Len(Lines(u)) /\ Splits(g)[n].whole[i] = AsRead(Lines(u)[i])
    BY <1>1, <1>4, <2>2, ReadingBegins
  <2> QED BY <1>3, <1>4, <2>3
<1>6. CASE b # <<>> /\ b[n].value = "cut"
  <2>1. n # 0 /\ n \in 1..n /\ n \in 1..Len(u) /\ n - 1 \in Nat /\ n - 1 <= n /\ n - 1 <= Len(u)
        /\ n - 1 \in 0..n
    BY <1>1, <1>6, EmptySeq DEF Texts
  <2>2. \A i \in 1..(n - 1) : b[i] = u[i] /\ i \in 1..n /\ i \in 1..Len(u)
    <3>1. \A i \in 1..(n - 1) : i \in 1..n /\ i \in 1..Len(u) /\ i < n
      BY <1>1
    <3> QED BY <3>1 DEF Torso
  <2>3. \A i \in 1..(n - 1) : u[i].value # "unchecked" /\ g[i] = Good(u[i])
    BY <1>4, <2>2
  <2> DEFINE w == Splits(g)[n - 1].whole
  <2>4. \A i \in 1..Len(w) : i \in 1..Len(Lines(u)) /\ w[i] = AsRead(Lines(u)[i])
    BY <1>4, <2>1, <2>3, ReadingBegins
  <2>5. Splits(g)[n].whole = w
    <3>1. g[n] = b[n] /\ g[n] # Newline /\ g[n] \in Pieces
      <4>1. b[n] # Newline
        BY <1>6, Symbols
      <4> QED BY <1>1, <1>4, <1>6, <2>1, <4>1 DEF Good
    <3>2. Splits(g)[n] = Feed(Splits(g)[n - 1], g[n]) /\ Splits(g)[n - 1] \in SplitRecs
      BY <1>1, <1>4, <2>1, SplitsStep, SplitsType
    <3> DEFINE s == Splits(g)[n - 1]
    <3>3. Splits(g)[n] = [whole |-> s.whole, line |-> Append(s.line, g[n])]
      BY <3>1, <3>2, FeedType
    <3> HIDE DEF s
    <3>4. Splits(g)[n].whole = s.whole
      BY <3>3
    <3> QED BY <3>4 DEF s
  <2>6. b # u
    <3>1. u[n] \in BodyPieces
      BY <2>1, LenType
    <3>2. u[n].value # "cut"
      BY <3>1, BodyPieceValues
    <3> QED BY <1>6, <3>2
  <2> HIDE DEF w
  <2> QED BY <1>3, <1>4, <2>4, <2>5, <2>6
<1> QED BY <1>5, <1>6

LEMMA RowReadIsValid ==
  ASSUME NEW r \in Texts, Full(r)
  PROVE  RowValid(AsRead(r))
<1>1. /\ Len(AsRead(r)) = Len(r) /\ Len(r) = Columns
      /\ \A c \in 1..Len(r) : AsRead(r)[c] = [r[c] EXCEPT !.value = "good"]
  BY AsReadType DEF Full
<1>2. \A c \in 1..Len(r) : r[c] \in Pieces
  BY LenType DEF Texts
<1>3. \A c \in 1..Len(r) : AsRead(r)[c].value = "good"
  <2>1. "good" \in Marks
    BY DEF Marks
  <2>2. \A p \in Pieces : [p EXCEPT !.value = "good"].value = "good"
    BY <2>1, AsPiece
  <2> QED BY <1>1, <1>2, <2>2
<1> QED BY <1>1, <1>3 DEF RowValid

LEMMA BodyIndex ==
  ASSUME EncoderInv, Written # <<>>
  PROVE  /\ Len(Written) = Len(Body(Written)) + 3
         /\ \A i \in 1..Len(Body(Written)) :
              3 + i \in 1..Len(Written) /\ Body(Written)[i] = Written[3 + i]
<1> DEFINE t == Written
           u == Body(t)
           h == HeaderText
<1>1. t = HeaderText \o u /\ u \in Seq(BodyPieces)
  BY WrittenText
<1> HIDE DEF t, u
<1>2. h \in Seq(Pieces) /\ Len(h) = 3 /\ t = h \o u
  BY <1>1, HeaderTextType DEF Texts
<1>3. u \in Seq(Pieces) /\ Len(u) \in Nat
  BY <1>1, BodyPiecesType, LenType DEF Texts
<1> HIDE DEF h, Pieces
<1>4. Len(h \o u) = Len(h) + Len(u) /\ \A i \in 1..Len(u) : (h \o u)[Len(h) + i] = u[i]
  <2>1. h \in Seq(Pieces) /\ u \in Seq(Pieces)
    BY <1>2, <1>3
  <2> QED BY <2>1, ConcatParts
<1>5. Len(t) = Len(u) + 3 /\ \A i \in 1..Len(u) : u[i] = t[3 + i]
  BY <1>2, <1>3, <1>4
<1>6. \A i \in 1..Len(u) : 3 + i \in 1..Len(t)
  BY <1>3, <1>5
<1> QED BY <1>5, <1>6 DEF t, u

\* Where an encoder is closed without an error, all it wrote is out.
LEMMA NothingHeld ==
  ASSUME EncoderInv, closed, ~writer.failed, writer.out # <<>>
  PROVE  Body(writer.out) = Body(Written) /\ WholeRows(Body(Written), rowsWritten)
<1> DEFINE b == Body(writer.out)
           u == Body(Written)
<1>1. /\ b \in Texts /\ u \in Seq(BodyPieces) /\ Torso(b, u) /\ Written # <<>>
      /\ Written = accepted
  BY WrittenBody, WrittenText
<1>2. headerDone
  BY <1>1 DEF EncoderInv, AcceptedInv
<1>3. WholeRows(u, rowsWritten)
  BY <1>1, <1>2, WrittenText
<1>4. CASE writer.buffer = <<>>
  <2>1. writer.out = Written
    BY <1>4, OutTorso
  <2> QED BY <1>3, <2>1
<1>5. CASE Len(accepted) = 3
  <2>1. Len(Written) = Len(u) + 3
    BY <1>1, BodyIndex
  <2> HIDE DEF b, u
  <2>2. Len(b) \in Nat /\ Len(u) \in Nat /\ Len(b) <= Len(u)
    BY <1>1, LenType DEF Texts, Torso
  <2>3. Len(u) = 0 /\ Len(b) = 0
    <3>1. Len(u) + 3 = 3
      BY <1>1, <1>5, <2>1
    <3> QED BY <2>2, <3>1
  <2>4. b = u
    BY <1>1, <2>3, EmptySeq DEF Texts
  <2> QED BY <1>3, <2>4 DEF b, u
<1> QED BY <1>4, <1>5 DEF EncoderInv, WriterInv

\* What a reader is given of what was written: its rows are those written, as
\* they are read, up to a last one that was perhaps not written to its end;
\* and exactly those where nothing failed.
LEMMA FileReadsBack ==
  ASSUME EncoderInv, writer.out # <<>>, AllChecked, closed \/ writer.failed,
         NEW f \in WrittenFiles
  PROVE  /\ \A i \in 1..Len(f.rows) : i < Len(f.rows) \/ ~writer.failed =>
              i <= Len(WrittenRows) /\ f.rows[i] = AsRead(WrittenRows[i])
         /\ Len(writer.out) >= 3 /\ ~writer.failed =>
              /\ f.header = TRUE /\ f.end = "EOF" /\ Len(f.rows) = rowsWritten
              /\ \A i \in 1..Len(f.rows) : RowValid(f.rows[i])
<1> DEFINE o == writer.out
           b == Body(o)
           u == Body(Written)
           g == GoodText(b, Len(b))
           w == Splits(g)[Len(g)].whole
           x == Splits(u)[Len(u)].whole
           r == f.rows
           v == Lines(g)
<1>1. b \in Texts /\ u \in Seq(BodyPieces) /\ Torso(b, u) /\ Written # <<>>
  BY WrittenBody
<1>2. \A i \in 1..Len(u) : u[i].value # "unchecked"
  <2>1. \A i \in 1..Len(Written) : Written[i].value # "unchecked"
    BY DEF AllChecked, Written
  <2>2. \A i \in 1..Len(u) : 3 + i \in 1..Len(Written) /\ u[i] = Written[3 + i]
    BY <1>1, BodyIndex
  <2> HIDE DEF u
  <2> QED BY <2>1, <2>2
<1>3. WrittenRows = Lines(u)
  BY DEF WrittenRows, Written, Body
<1> HIDE DEF b, u
<1>4. /\ TextsRead(b) = {g} /\ g \in Texts /\ Len(g) = Len(b)
      /\ \A i \in 1..Len(w) : i \in 1..Len(Lines(u)) /\ w[i] = AsRead(Lines(u)[i])
      /\ b = u => RowsReadAs(w, x) /\ Splits(g)[Len(g)].line = AsRead(Splits(u)[Len(u)].line)
  BY <1>1, <1>2, ReadingRows
<1> HIDE DEF g
<1>5. /\ v \in Seq(Texts) /\ Begins(w, v) /\ w \in Seq(Texts) /\ Len(v) <= Len(w) + 1
      /\ Splits(g)[Len(g)].line = <<>> => v = w
  BY <1>4, LinesOf
<1>6. ~writer.failed => b = u /\ WholeRows(u, rowsWritten)
  BY NothingHeld DEF b, u
<1>7. ~writer.failed => v = w /\ RowsReadAs(w, x)
  <2> SUFFICES ASSUME ~writer.failed PROVE v = w /\ RowsReadAs(w, x)
    OBVIOUS
  <2>1. Splits(u)[Len(u)].line = <<>>
    BY <1>6 DEF WholeRows
  <2>2. Splits(g)[Len(g)].line = <<>> /\ RowsReadAs(w, x)
    BY <1>4, <1>6, <2>1, AsReadEmpty
  <2> QED BY <1>5, <2>2
<1>8. r \in Seq(Texts)
  BY WrittenFile DEF Files
<1>9. \/ Len(o) = 1 /\ r = <<>>
      \/ /\ Begins(r, v) /\ f.header = TRUE
         /\ (r = v /\ f.end = "EOF") \/ (b # <<>> /\ b[Len(b)].value = "cut")
  <2>1. \/ Len(o) = 1 /\ r = <<>>
        \/ \E t \in TextsRead(b) :
             /\ t \in Texts /\ Begins(r, Lines(t)) /\ f.header = TRUE
             /\ \/ r = Lines(t) /\ f.end = "EOF"
                \/ b # <<>> /\ b[Len(b)].value = "cut"
    BY WrittenFile DEF b
  <2> HIDE DEF r, v, o
  <2>2. \A t \in TextsRead(b) : t = g
    BY <1>4
  <2> QED BY <2>1, <2>2 DEF v
<1> HIDE DEF r, v, w, x, o
<1>10. Len(r) \in Nat /\ Len(v) \in Nat /\ Len(w) \in Nat
  BY <1>5, <1>8, LenType
<1>11. ASSUME NEW i \in 1..Len(r), i < Len(r) \/ ~writer.failed
       PROVE  i <= Len(WrittenRows) /\ r[i] = AsRead(WrittenRows[i])
  <2>1. Begins(r, v)
    <3>1. Len(<<>>) = 0
      OBVIOUS
    <3>2. r # <<>>
      BY <1>10, <3>1
    <3> QED BY <1>9, <3>2
  <2>2. Len(r) <= Len(v) /\ i \in 1..Len(v) /\ r[i] = v[i]
    BY <1>10, <2>1 DEF Begins
  <2>3. i \in 1..Len(w)
    <3>1. CASE i < Len(r)
      BY <1>5, <1>10, <2>2, <3>1
    <3>2. CASE ~writer.failed
      BY <1>7, <2>2, <3>2
    <3> QED BY <1>11, <3>1, <3>2
  <2>4. w[i] = v[i] /\ i \in 1..Len(Lines(u)) /\ w[i] = AsRead(Lines(u)[i])
    BY <1>4, <1>5, <2>3 DEF Begins
  <2>5. i <= Len(Lines(u))
    <3>1. i \in 1..Len(v)
      BY <2>2
    <3>2. Lines(u) \in Seq(Texts)
      BY <1>1, BodyPiecesType, LinesOf
    <3>3. Len(Lines(u)) \in Nat
      BY <3>2, LenType
    <3> QED BY <2>4, <3>3
  <2> QED BY <1>3, <2>2, <2>4, <2>5
<1>12. ASSUME Len(o) >= 3, ~writer.failed
       PROVE  /\ f.header = TRUE /\ f.end = "EOF" /\ Len(r) = rowsWritten
              /\ \A i \in 1..Len(r) : RowValid(r[i])
  <2>1. b = u /\ WholeRows(u, rowsWritten) /\ v = w /\ RowsReadAs(w, x)
    BY <1>6, <1>7, <1>12
  <2>2. ~(b # <<>> /\ b[Len(b)].value = "cut")
    <3> SUFFICES ASSUME b # <<>> PROVE b[Len(b)].value # "cut"
      OBVIOUS
    <3>1. Len(u) \in Nat /\ Len(u) # 0
      BY <1>1, <2>1, EmptySeq, LenType
    <3>2. Len(u) \in 1..Len(u)
      BY <3>1
    <3>3. u[Len(u)] \in BodyPieces
      BY <1>1, <3>2, LenType
    <3> QED BY <2>1, <3>3, BodyPieceValues
  <2>3. Len(o) # 1
    <3>1. o \in Texts
      BY OutTorso DEF o
    <3>2. Len(o) \in Nat
      BY <3>1, LenType DEF Texts
    <3>3. Len(o) >= 3
      BY <1>12
    <3>4. \A n \in Nat : n >= 3 => n # 1
      OBVIOUS
    <3> QED BY <3>2, <3>3, <3>4
  <2>4. f.header = TRUE /\ r = v /\ f.end = "EOF"
    BY <1>9, <2>2, <2>3
  <2>5. Len(x) = rowsWritten /\ \A i \in 1..rowsWritten : Full(x[i])
    BY <2>1 DEF WholeRows, x
  <2>6. Len(r) = rowsWritten /\ \A i \in 1..Len(r) : r[i] = AsRead(x[i])
    BY <2>1, <2>4, <2>5 DEF RowsReadAs
  <2>7. x \in Seq(Texts)
    <3>1. u \in Texts
      BY <1>1, BodyPiecesType
    <3> QED BY <3>1, LinesOf DEF x
  <2>8. ASSUME NEW i \in 1..Len(r) PROVE RowValid(r[i])
    <3>1. i \in 1..Len(x) /\ Full(x[i]) /\ r[i] = AsRead(x[i])
      BY <2>5, <2>6
    <3>2. x[i] \in Texts
      BY <2>7, <3>1, LenType
    <3> QED BY <3>1, <3>2, RowReadIsValid
  <2> QED BY <2>4, <2>6, <2>8
<1> QED BY <1>11, <1>12 DEF r, o

\* FileEncoder and the readers: what EncodeFile writes without an error reads
\* back in each reader, every row that WriteRow took and nothing else; and of
\* a writer that failed, what reads back are the rows written, in order from
\* the first, but perhaps for the last.
THEOREM RoundTripCorrect == Spec => []WrittenReadsBack
<1>1. IInv => WrittenReadsBack
  <2> SUFFICES ASSUME IInv, writer.out # <<>>, AllChecked, reader # "none"
               PROVE  /\ \A i \in 1..Len(file.rows) :
                           i < Len(file.rows) \/ ~writer.failed =>
                             i <= Len(WrittenRows) /\ file.rows[i] = AsRead(WrittenRows[i])
                      /\ Len(writer.out) >= 3 /\ ~writer.failed /\ nextResult = "false" =>
                           rowsRead = rowsWritten /\ fatalErr = "none" /\ ~anyErrors
    BY DEF WrittenReadsBack
  <2>1. EncoderInv /\ ReaderTypes /\ FatalInv /\ CountInv
    BY DEF IInv, ReaderInv
  <2>2. (closed \/ writer.failed) /\ file \in WrittenFiles
    BY DEF IInv, ReaderInv, Opened
  <2>3. /\ \A i \in 1..Len(file.rows) : i < Len(file.rows) \/ ~writer.failed =>
             i <= Len(WrittenRows) /\ file.rows[i] = AsRead(WrittenRows[i])
        /\ Len(writer.out) >= 3 /\ ~writer.failed =>
             /\ file.header = TRUE /\ file.end = "EOF" /\ Len(file.rows) = rowsWritten
             /\ \A i \in 1..Len(file.rows) : RowValid(file.rows[i])
    BY <2>1, <2>2, FileReadsBack
  <2>4. ASSUME Len(writer.out) >= 3, ~writer.failed, nextResult = "false"
        PROVE  rowsRead = rowsWritten /\ fatalErr = "none" /\ ~anyErrors
    <3>1. /\ file.header = TRUE /\ file.end = "EOF" /\ Len(file.rows) = rowsWritten
          /\ \A i \in 1..Len(file.rows) : RowValid(file.rows[i])
      BY <2>3, <2>4
    <3>2. ~Wrong
      <4>1. file.rows \in Seq(Texts)
        BY <2>1 DEF ReaderTypes, Files
      <4>2. rowsRead \in Nat /\ rowsRead <= Len(file.rows) /\ Len(file.rows) \in Nat
        BY <2>1, <4>1, LenType DEF ReaderTypes
      <4>3. \A i \in 1..rowsRead : i \in 1..Len(file.rows)
        BY <4>2
      <4> QED BY <3>1, <4>3 DEF Wrong
    <3>3. ~(errorCount > 0)
      <4>1. CASE reader = "Validator"
        BY <2>1, <3>2, <4>1 DEF CountInv
      <4>2. CASE reader # "Validator"
        <5>1. errorCount = 0
          BY <2>1, <4>2 DEF CountInv
        <5> QED BY <5>1
      <4> QED BY <4>1, <4>2
    <3>4. ~anyErrors
      BY <2>1, <3>3 DEF ReaderTypes
    <3>5. fatalErr # "header" /\ fatalErr # "parse" /\ fatalErr # "decode" /\ fatalErr # "max errors"
      <4>1. fatalErr # "header" /\ fatalErr # "parse" /\ fatalErr # "decode"
        BY <2>1, <3>1, <3>2 DEF FatalInv
      <4>2. ASSUME fatalErr = "max errors" PROVE FALSE
        <5>1. errorCount = MaxErrors /\ MaxErrors > 0
          BY <2>1, <4>2 DEF FatalInv
        <5> QED BY <3>3, <5>1
      <4> QED BY <4>1, <4>2
    <3>6. fatalErr = "none"
      BY <2>1, <3>5 DEF ReaderTypes, FatalErrors
    <3>7. AtEnd
      BY <2>1, <2>4, <3>6 DEF FatalInv
    <3> QED BY <3>1, <3>4, <3>6, <3>7 DEF AtEnd
  <2> QED BY <2>3, <2>4
<1> QED BY <1>1, SdkInvariant, PTL

=============================================================================
