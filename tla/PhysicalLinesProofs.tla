------------------------- MODULE PhysicalLinesProofs ------------------------
(***************************************************************************)
(* Lemmas about the line skipper that the proofs about its two readers     *)
(* share: the int8 counters, and the types its steps keep.                 *)
(***************************************************************************)
EXTENDS PhysicalLines, SequenceTheorems, TLAPS

LEMMA DivMod ==
  ASSUME NEW a \in Int, NEW m \in Nat, m > 0
  PROVE  /\ a % m \in 0..(m - 1) /\ a \div m \in Int
         /\ (a % m) + m * (a \div m) = a
<1>1. (a % m) + m * (a \div m) = a
  BY SMTT(30)
<1>2. a % m \in 0..(m - 1)
  OBVIOUS
<1>3. a \div m \in Int
  OBVIOUS
<1> QED BY <1>1, <1>2, <1>3

LEMMA ModOfMultiple ==
  ASSUME NEW m \in Nat, m > 0, NEW q \in Int, NEW r \in 0..(m - 1)
  PROVE  (m * q + r) % m = r
OBVIOUS

LEMMA ModOfSum ==
  ASSUME NEW a \in Int, NEW m \in Nat, m > 0, NEW q \in Int
  PROVE  (a + m * q) % m = a % m
<1> DEFINE r == a % m
           d == a \div m
<1>1. r \in 0..(m - 1) /\ d \in Int /\ r + m * d = a
  BY DivMod
<1> HIDE DEF r, d
<1>2. a + m * q = m * (d + q) + r /\ d + q \in Int
  BY <1>1
<1>3. (m * (d + q) + r) % m = r
  BY <1>1, <1>2, ModOfMultiple
<1> QED BY <1>2, <1>3 DEF r

-----------------------------------------------------------------------------
(* The int8 counters.                                                      *)

Int8s == (-(MaxInt8 + 1))..MaxInt8

LEMMA Int8Range == ASSUME NEW n \in Int PROVE Int8(n) \in Int8s
BY LineAssumption DEF Int8, Int8s

LEMMA Int8Identity == ASSUME NEW n \in Int8s PROVE Int8(n) = n
BY LineAssumption DEF Int8, Int8s

\* A counter that wraps has the value its sum would have after one wrap.
LEMMA Int8Sum ==
  ASSUME NEW a \in Int, NEW b \in Int
  PROVE  Int8(Int8(a) + b) = Int8(a + b)
<1> DEFINE m == 2 * (MaxInt8 + 1)
           x == a + MaxInt8 + 1
           r == x % m
           d == x \div m
<1>1. m \in Nat /\ m > 0 /\ x \in Int
  BY LineAssumption
<1>2. r \in 0..(m - 1) /\ d \in Int /\ r + m * d = x
  <2> HIDE DEF m, x
  <2> QED BY <1>1, DivMod
<1>3. Int8(a) = r - (MaxInt8 + 1)
  BY DEF Int8
<1> HIDE DEF r, d, m
<1>4. /\ Int8(a) + b + MaxInt8 + 1 = r + b
      /\ a + b + MaxInt8 + 1 = (r + b) + m * d /\ r + b \in Int
  BY <1>1, <1>2, <1>3, LineAssumption
<1>5. ((r + b) + m * d) % m = (r + b) % m
  BY <1>1, <1>2, <1>4, ModOfSum
<1> QED BY <1>4, <1>5 DEF Int8, m

-----------------------------------------------------------------------------
(* What the line skipper keeps, whoever reads from it.                     *)

\* Physical rows: the blocks counted for the first field are its own and those of
\* the lines cut short above it.
RowTypes == [line : Nat \ {0}, width : 1..MaxWidth, trailing : BOOLEAN,
             onlyNotes : BOOLEAN, inline : Int8s, own : 0..MaxBlocks, openType : BOOLEAN,
             above : [hash : Nat, note : Nat, cut : Nat]]
RowRecs  == {r \in RowTypes : r.inline = Int8(r.above.cut + r.own)}

\* A row that is out is the line last read, and nothing has been passed over
\* since.
RowIsOut == /\ rawRow \in RowRecs
            /\ rawRow.onlyNotes => rawRow.trailing
            /\ rawRow.line = LinesRead /\ rowStartLine = LinesRead
            /\ above = NothingAbove

LineInv == /\ LinesTypeOK
           /\ LinesRead <= MaxLines
           /\ fieldCommentBlocks = Int8(above.cut)
           /\ nextRow = "row" => RowIsOut

\* The comments passed over that the row now out, or else the next, comes with;
\* and that the int8 counters, which the reader has not cleared, count them.
Passed  == IF nextRow = "row" THEN rawRow.above ELSE above
Counted == /\ skippedCommentLines = Int8(Passed.hash)
           /\ skippedStandaloneComments = Int8(Passed.note)

\* While lines are being passed over, the next row has not begun.
NotBegun == nextRow = "reading" => rowStartLine <= LinesRead

LEMMA LinesReadType ==
  ASSUME read \in [Kinds -> Nat]
  PROVE  /\ LinesRead \in Nat
         /\ read.row \in Nat /\ read.blank \in Nat /\ read.hash \in Nat
         /\ read.note \in Nat /\ read.cut \in Nat /\ read.version \in Nat
BY DEF Kinds, LinesRead

LEMMA LineStep ==
  ASSUME read \in [Kinds -> Nat], NEW kind \in Kinds, Line(kind)
  PROVE  /\ nextRow = "reading" /\ LinesRead < MaxLines
         /\ read' \in [Kinds -> Nat]
         /\ read'[kind] = read[kind] + 1
         /\ \A k \in Kinds : k # kind => read'[k] = read[k]
         /\ LinesRead' = LinesRead + 1
<1>1. /\ nextRow = "reading" /\ LinesRead < MaxLines
      /\ read' \in [Kinds -> Nat]
      /\ read'[kind] = read[kind] + 1
      /\ \A k \in Kinds : k # kind => read'[k] = read[k]
  BY DEF Line
<1>2. \A k \in Kinds : read[k] \in Nat
  OBVIOUS
<1>3. LinesRead' = LinesRead + 1
  BY <1>1, <1>2 DEF Kinds, LinesRead
<1> QED BY <1>1, <1>3

\* What a line read changes, by its kind.
LEMMA LimitsKept ==
  ASSUME LineInv, NEW kind \in Kinds, Line(kind)
  PROVE  /\ read' \in [Kinds -> Nat] /\ LinesRead' = LinesRead + 1
         /\ LinesRead \in Nat /\ nextRow = "reading" /\ LinesRead' <= MaxLines
         /\ kind = "row" => read.row' = read.row + 1
         /\ kind # "row" => read.row' = read.row
         /\ kind # "version" => read.version' = read.version
<1>1. read \in [Kinds -> Nat]
  BY DEF LineInv, LinesTypeOK
<1>2. /\ nextRow = "reading" /\ LinesRead < MaxLines
      /\ read' \in [Kinds -> Nat]
      /\ read'[kind] = read[kind] + 1
      /\ \A k \in Kinds : k # kind => read'[k] = read[k]
      /\ LinesRead' = LinesRead + 1
  BY <1>1, LineStep
<1>3. LinesRead' <= MaxLines
  BY <1>1, <1>2, LinesReadType, LineAssumption
<1>4. "row" \in Kinds /\ "version" \in Kinds
  BY DEF Kinds
<1> QED BY <1>1, <1>2, <1>3, <1>4, LinesReadType

LEMMA SkipStep ==
  ASSUME LineInv, SkipBlank \/ SkipHash \/ SkipNote \/ SkipCut \/ SkipVersion
  PROVE  /\ LineInv' /\ nextRow = "reading" /\ nextRow' = "reading"
         /\ Counted => Counted'
         /\ NotBegun => NotBegun'
         /\ LinesRead' = LinesRead + 1 /\ read.row' = read.row
         /\ UNCHANGED <<rowStartLine, headerMode, rawRow>>
         /\ ~headerMode => read.version' = read.version
<1> USE DEF Int8s
<1>1. PICK kind \in Kinds \ {"row"} : Line(kind) /\ (~headerMode => kind # "version")
  BY DEF SkipBlank, SkipHash, SkipNote, SkipCut, SkipVersion, Kinds
<1>2. /\ read' \in [Kinds -> Nat] /\ LinesRead' = LinesRead + 1
      /\ LinesRead \in Nat /\ nextRow = "reading"
      /\ LinesRead' <= MaxLines
      /\ read.row' = read.row /\ (~headerMode => read.version' = read.version)
  BY <1>1, LimitsKept
<1>3. nextRow' = nextRow /\ UNCHANGED <<rowStartLine, headerMode, rawRow>>
  BY DEF SkipBlank, SkipHash, SkipNote, SkipCut, SkipVersion
<1>4. /\ rowStartLine \in 0..(LinesRead + 1)
      /\ headerMode \in BOOLEAN /\ rawRow.line \in 0..LinesRead
      /\ headerCommentAttachWindow \in BOOLEAN
      /\ skippedCommentLines \in Int8s /\ headerAttachableCommentLines \in Int8s
      /\ skippedStandaloneComments \in Int8s
      /\ above \in [hash : Nat, note : Nat, cut : Nat]
      /\ fieldCommentBlocks = Int8(above.cut)
  BY <1>2 DEF LineInv, LinesTypeOK
<1>5. Passed = above /\ Passed' = above'
  BY <1>2, <1>3 DEF Passed
<1>6. \A n \in Int8s : n \in Int
  BY LineAssumption
<1>7. /\ headerCommentAttachWindow' \in BOOLEAN
      /\ skippedCommentLines' \in Int8s /\ headerAttachableCommentLines' \in Int8s
      /\ skippedStandaloneComments' \in Int8s
      /\ above' \in [hash : Nat, note : Nat, cut : Nat]
      /\ fieldCommentBlocks' = Int8(above'.cut)
      /\ Counted => Counted'
  <2>1. 0 \in Int8s /\ Int8(0) = 0
    BY Int8Identity, LineAssumption
  <2>2. CASE SkipBlank
    <3>1. CASE headerMode
      <4>1. /\ above' = [above EXCEPT !.hash = 0, !.note = 0]
            /\ fieldCommentBlocks' = fieldCommentBlocks
            /\ skippedCommentLines' = 0 /\ skippedStandaloneComments' = 0
            /\ headerCommentAttachWindow' = TRUE /\ headerAttachableCommentLines' = 0
        BY <2>2, <3>1 DEF SkipBlank
      <4>2. /\ above' \in [hash : Nat, note : Nat, cut : Nat]
            /\ above'.hash = 0 /\ above'.note = 0 /\ above'.cut = above.cut
        BY <1>4, <4>1
      <4>3. fieldCommentBlocks' = Int8(above'.cut)
        BY <1>4, <4>1, <4>2
      <4> QED BY <1>5, <2>1, <4>1, <4>2, <4>3 DEF Counted
    <3>2. CASE ~headerMode
      BY <1>4, <1>5, <2>2, <3>2 DEF SkipBlank, Counted, counters
    <3> QED BY <3>1, <3>2
  <2>3. CASE SkipHash
    <3>1. /\ skippedCommentLines' = Int8(skippedCommentLines + 1)
          /\ headerAttachableCommentLines' \in
               {Int8(headerAttachableCommentLines + 1), headerAttachableCommentLines}
          /\ UNCHANGED <<headerCommentAttachWindow, skippedStandaloneComments>>
          /\ above' = [above EXCEPT !.hash = @ + 1]
      BY <2>3 DEF SkipHash
    <3>2. skippedCommentLines + 1 \in Int /\ headerAttachableCommentLines + 1 \in Int
      BY <1>4, <1>6
    <3>3. /\ above' \in [hash : Nat, note : Nat, cut : Nat]
          /\ above'.hash = above.hash + 1 /\ above'.note = above.note /\ above'.cut = above.cut
      BY <1>4, <3>1
    <3>4. skippedCommentLines' \in Int8s /\ headerAttachableCommentLines' \in Int8s
      BY <1>4, <3>1, <3>2, Int8Range
    <3>5. Int8(Int8(above.hash) + 1) = Int8(above.hash + 1)
      BY <1>4, Int8Sum
    <3>6. Counted => Counted'
      BY <1>5, <3>1, <3>3, <3>5 DEF Counted
    <3>7. fieldCommentBlocks' = Int8(above'.cut)
      BY <1>4, <2>3, <3>3 DEF SkipHash
    <3> QED BY <1>4, <3>1, <3>3, <3>4, <3>6, <3>7
  <2>4. CASE SkipNote
    <3>1. PICK n \in 0..MaxBlocks :
            /\ skippedStandaloneComments' = Int8(skippedStandaloneComments + n)
            /\ above' = [above EXCEPT !.note = @ + n]
      BY <2>4 DEF SkipNote
    <3>2. n \in Nat
      BY LineAssumption
    <3>3. skippedStandaloneComments + n \in Int
      BY <1>4, <1>6, <3>2
    <3>4. /\ above' \in [hash : Nat, note : Nat, cut : Nat]
          /\ above'.note = above.note + n /\ above'.hash = above.hash /\ above'.cut = above.cut
      BY <1>4, <3>1, <3>2
    <3>5. Int8(Int8(above.note) + n) = Int8(above.note + n)
      BY <1>4, <3>2, Int8Sum
    <3>6. Counted => Counted'
      BY <1>5, <2>4, <3>1, <3>4, <3>5 DEF Counted, SkipNote
    <3>7. skippedStandaloneComments' \in Int8s
      BY <3>1, <3>3, Int8Range
    <3>8. /\ headerCommentAttachWindow' \in BOOLEAN
          /\ headerAttachableCommentLines' \in Int8s /\ skippedCommentLines' \in Int8s
      BY <1>4, <2>1, <2>4 DEF SkipNote, CloseWindow
    <3>9. fieldCommentBlocks' = Int8(above'.cut)
      BY <1>4, <2>4, <3>4 DEF SkipNote
    <3> QED BY <3>4, <3>6, <3>7, <3>8, <3>9
  <2>5. CASE SkipVersion
    BY <1>4, <1>5, <2>1, <2>5 DEF SkipVersion, CloseWindow, Counted
  <2>6. CASE SkipCut
    <3>1. PICK n \in 0..MaxBlocks :
            /\ fieldCommentBlocks' = Int8(fieldCommentBlocks + n)
            /\ above' = [above EXCEPT !.cut = @ + n]
      BY <2>6 DEF SkipCut
    <3>2. n \in Nat
      BY LineAssumption
    <3>3. /\ above' \in [hash : Nat, note : Nat, cut : Nat]
          /\ above'.cut = above.cut + n /\ above'.hash = above.hash /\ above'.note = above.note
      BY <1>4, <3>1, <3>2
    <3>4. Int8(Int8(above.cut) + n) = Int8(above.cut + n)
      BY <1>4, <3>2, Int8Sum
    <3>5. fieldCommentBlocks' = Int8(above'.cut)
      BY <1>4, <3>1, <3>3, <3>4
    <3>6. Counted => Counted'
      BY <1>5, <2>6, <3>3 DEF Counted, SkipCut, counters
    <3> QED BY <1>4, <2>6, <3>3, <3>5, <3>6 DEF SkipCut, counters
  <2> QED BY <2>2, <2>3, <2>4, <2>5, <2>6
<1>8. /\ rowStartLine' \in 0..(LinesRead' + 1)
      /\ rowStartLine <= LinesRead => rowStartLine' <= LinesRead'
      /\ rawRow'.line \in 0..LinesRead'
  BY <1>2, <1>3, <1>4
<1>9. LinesTypeOK'
  <2>1. fieldCommentBlocks' \in Int8s
    BY <1>7, Int8Range
  <2> QED BY <1>2, <1>3, <1>4, <1>7, <1>8, <2>1 DEF LinesTypeOK, NextRowResults
<1> QED BY <1>2, <1>3, <1>7, <1>8, <1>9 DEF LineInv, NotBegun

LEMMA HandOutStep ==
  ASSUME LineInv, HandOutRow
  PROVE  /\ LineInv' /\ nextRow = "reading" /\ nextRow' = "row"
         /\ Counted => Counted'
         /\ LinesRead' = LinesRead + 1 /\ read.row' = read.row + 1
         /\ UNCHANGED <<headerMode, read.version>>
<1>1. "row" \in Kinds /\ Line("row")
  BY DEF HandOutRow, Kinds
<1>2. /\ read' \in [Kinds -> Nat] /\ LinesRead' = LinesRead + 1
      /\ LinesRead \in Nat /\ nextRow = "reading"
      /\ LinesRead' <= MaxLines
      /\ read.row' = read.row + 1 /\ read.version' = read.version
  BY <1>1, LimitsKept
<1>3. PICK r \in RowShapes :
        rawRow' = [line |-> RowLine, width |-> r.width, trailing |-> r.trailing,
                   onlyNotes |-> r.onlyNotes, own |-> r.own,
                   inline |-> Int8(fieldCommentBlocks + r.own),
                   openType |-> r.openType, above |-> above]
  BY DEF HandOutRow
<1>4. /\ rowStartLine' = RowLine /\ RowLine = LinesRead' /\ nextRow' = "row"
      /\ above' = NothingAbove /\ fieldCommentBlocks' = 0
      /\ UNCHANGED <<headerMode, counters>>
  BY <1>2 DEF HandOutRow, RowLine
<1>5. above \in [hash : Nat, note : Nat, cut : Nat] /\ fieldCommentBlocks = Int8(above.cut)
  BY DEF LineInv, LinesTypeOK
<1>6. /\ rawRow'.line = RowLine /\ rawRow'.above = above
      /\ rawRow'.onlyNotes = r.onlyNotes /\ rawRow'.trailing = r.trailing
  BY <1>3
<1>7. rawRow' \in RowRecs
  <2>1. RowLine \in Nat \ {0}
    BY <1>2 DEF RowLine
  <2>2. r.own \in 0..MaxBlocks /\ r.own \in Int /\ above.cut \in Int
    BY <1>5, LineAssumption DEF RowShapes
  <2>3. Int8(fieldCommentBlocks + r.own) = Int8(above.cut + r.own)
    BY <1>5, <2>2, Int8Sum
  <2>4. Int8(above.cut + r.own) \in Int8s
    BY <2>2, Int8Range
  <2>5. rawRow' \in RowTypes
    BY <1>3, <1>5, <2>1, <2>2, <2>3, <2>4 DEF RowShapes, RowTypes
  <2>6. rawRow'.inline = Int8(rawRow'.above.cut + rawRow'.own)
    BY <1>3, <2>3
  <2> QED BY <2>5, <2>6 DEF RowRecs
<1>8. RowIsOut'
  BY <1>2, <1>4, <1>6, <1>7 DEF RowIsOut, RowShapes
<1>9. LinesTypeOK'
  <2>1. LinesRead' \in 0..(LinesRead' + 1) /\ LinesRead' \in 0..LinesRead'
    BY <1>2
  <2>2. 0 \in Int8s
    BY LineAssumption DEF Int8s
  <2> QED BY <1>2, <1>4, <1>6, <2>1, <2>2
          DEF LineInv, LinesTypeOK, NextRowResults, counters, NothingAbove, Int8s
<1>10. Counted => Counted'
  <2>1. Passed = above /\ Passed' = above
    BY <1>2, <1>4, <1>6 DEF Passed
  <2> QED BY <1>4, <2>1 DEF Counted, counters
<1>11. fieldCommentBlocks' = Int8(above'.cut)
  <2>1. 0 \in Int8s
    BY LineAssumption DEF Int8s
  <2>2. Int8(0) = 0
    BY <2>1, Int8Identity
  <2> QED BY <1>4, <2>2 DEF NothingAbove
<1> QED BY <1>2, <1>4, <1>8, <1>9, <1>10, <1>11 DEF LineInv

LEMMA NoMoreRowsStep ==
  ASSUME LineInv, NoMoreRows
  PROVE  /\ LineInv' /\ nextRow = "reading" /\ nextRow' \in {"EOF", "error"}
         /\ Counted => Counted'
         /\ UNCHANGED <<read, headerMode, rawRow>>
         /\ NotBegun => rowStartLine <= rowStartLine'
<1>1. /\ nextRow = "reading" /\ nextRow' \in {"EOF", "error"}
      /\ UNCHANGED <<read, headerMode, counters, fieldCommentBlocks, rawRow, above>>
      /\ rowStartLine' = rowStartLine \/ rowStartLine' = RowLine
  BY DEF NoMoreRows
<1>2. LinesRead \in Nat /\ LinesRead' = LinesRead
  BY <1>1, LinesReadType DEF LineInv, LinesTypeOK, LinesRead
<1>3. rowStartLine \in 0..(LinesRead + 1) /\ RowLine = LinesRead + 1
  BY <1>1 DEF LineInv, LinesTypeOK, RowLine
<1>4. /\ rowStartLine' \in 0..(LinesRead + 1)
      /\ rowStartLine <= LinesRead => rowStartLine <= rowStartLine'
  BY <1>1, <1>2, <1>3
<1>5. LinesTypeOK'
  BY <1>1, <1>2, <1>4 DEF LineInv, LinesTypeOK, NextRowResults, counters
<1>6. LineInv'
  BY <1>1, <1>2, <1>5 DEF LineInv
<1>7. Counted => Counted'
  BY <1>1 DEF Counted, Passed, counters
<1> QED BY <1>1, <1>4, <1>6, <1>7 DEF NotBegun

LEMMA NextLineStep ==
  ASSUME LineInv, NextLine
  PROVE  /\ LineInv' /\ nextRow = "reading"
         /\ Counted => Counted'
         /\ NotBegun => NotBegun' /\ rowStartLine <= rowStartLine'
         /\ LinesRead \in Nat /\ LinesRead' \in Nat /\ LinesRead <= LinesRead'
         /\ rowStartLine \in Nat /\ rowStartLine' \in Nat
         /\ headerMode' = headerMode
         /\ ~headerMode => read.version' = read.version
         /\ read.row \in Nat
         /\ nextRow' = "row" => read.row' = read.row + 1 /\ LinesRead' = LinesRead + 1
         /\ nextRow' # "row" => read.row' = read.row /\ rawRow' = rawRow
<1>1. /\ LinesRead \in Nat /\ read.row \in Nat
      /\ rowStartLine \in 0..(LinesRead + 1)
  BY LinesReadType DEF LineInv, LinesTypeOK
<1>2. CASE SkipBlank \/ SkipHash \/ SkipNote \/ SkipCut \/ SkipVersion
  BY <1>1, <1>2, SkipStep
<1>3. CASE HandOutRow
  <2>1. /\ LineInv' /\ nextRow = "reading" /\ nextRow' = "row"
        /\ Counted => Counted'
        /\ LinesRead' = LinesRead + 1 /\ read.row' = read.row + 1
        /\ UNCHANGED <<headerMode, read.version>>
    BY <1>3, HandOutStep
  <2>2. rowStartLine' = LinesRead'
    BY <2>1 DEF LineInv, RowIsOut
  <2> QED BY <1>1, <2>1, <2>2 DEF NotBegun
<1>4. CASE NoMoreRows
  <2>1. /\ LineInv' /\ nextRow = "reading" /\ nextRow' \in {"EOF", "error"}
        /\ Counted => Counted'
        /\ UNCHANGED <<read, headerMode, rawRow>>
        /\ NotBegun => rowStartLine <= rowStartLine'
    BY <1>4, NoMoreRowsStep
  <2>2. LinesRead' = LinesRead
    BY <2>1 DEF LinesRead
  <2>3. rowStartLine' \in 0..(LinesRead' + 1)
    BY <2>1 DEF LineInv, LinesTypeOK
  <2> QED BY <1>1, <2>1, <2>2, <2>3 DEF NotBegun
<1> QED BY <1>2, <1>3, <1>4 DEF NextLine

-----------------------------------------------------------------------------
(* Sequences.                                                              *)

LEMMA LenType ==
  ASSUME NEW S, NEW s \in Seq(S)
  PROVE  /\ Len(s) \in Nat /\ DOMAIN s = 1..Len(s)
         /\ \A i \in 1..Len(s) : s[i] \in S
BY ElementOfSeq

LEMMA FunctionIsSeq ==
  ASSUME NEW S, NEW n \in Nat, NEW f \in [1..n -> S]
  PROVE  f \in Seq(S) /\ Len(f) = n
OBVIOUS

\* Where the elements of a concatenation come from.
LEMMA ConcatElements ==
  ASSUME NEW S, NEW s \in Seq(S), NEW t \in Seq(S)
  PROVE  /\ s \o t \in Seq(S)
         /\ Len(s \o t) = Len(s) + Len(t)
         /\ \A i \in 1..Len(s) : (s \o t)[i] = s[i]
         /\ \A i \in 1..Len(s \o t) :
              i > Len(s) => /\ i - Len(s) \in 1..Len(t)
                            /\ (s \o t)[i] = t[i - Len(s)]
<1>1. /\ s \o t \in Seq(S) /\ Len(s \o t) = Len(s) + Len(t)
      /\ \A i \in 1..(Len(s) + Len(t)) :
           (s \o t)[i] = IF i <= Len(s) THEN s[i] ELSE t[i - Len(s)]
  BY ConcatProperties
<1>2. Len(s) \in Nat /\ Len(t) \in Nat
  OBVIOUS
<1>3. ASSUME NEW i \in 1..Len(s) PROVE (s \o t)[i] = s[i]
  <2>1. i \in 1..(Len(s) + Len(t)) /\ i <= Len(s)
    BY <1>2
  <2> QED BY <1>1, <2>1
<1>4. ASSUME NEW i \in 1..(Len(s) + Len(t)), i > Len(s)
      PROVE  i - Len(s) \in 1..Len(t) /\ (s \o t)[i] = t[i - Len(s)]
  <2>1. i - Len(s) \in 1..Len(t) /\ ~(i <= Len(s))
    BY <1>2, <1>4
  <2> QED BY <1>1, <2>1
<1> QED BY <1>1, <1>3, <1>4

\* A sequence to which elements were appended.
Continues(t, s) == Len(s) <= Len(t) /\ \A i \in 1..Len(s) : t[i] = s[i]

LEMMA AppendContinues ==
  ASSUME NEW S, NEW s \in Seq(S), NEW e \in S
  PROVE  /\ Append(s, e) \in Seq(S) /\ Continues(Append(s, e), s)
         /\ Len(Append(s, e)) = Len(s) + 1 /\ Append(s, e)[Len(s) + 1] = e
BY AppendProperties DEF Continues

LEMMA SameContinues ==
  ASSUME NEW s, Len(s) \in Nat
  PROVE  Continues(s, s)
BY DEF Continues

\* Fields, by their places.
Places == Nat \X Nat

LEMMA IdsType ==
  ASSUME NEW S, \A f \in S : f.line \in Nat /\ f.col \in Nat, NEW fs \in Seq(S)
  PROVE  /\ Ids(fs) \in Seq(Places) /\ Len(Ids(fs)) = Len(fs)
         /\ \A i \in 1..Len(fs) : Ids(fs)[i] = <<fs[i].line, fs[i].col>>
<1>1. Len(fs) \in Nat
  OBVIOUS
<1>2. ASSUME NEW i \in 1..Len(fs) PROVE <<fs[i].line, fs[i].col>> \in Places
  <2>1. fs[i] \in S
    BY ElementOfSeq
  <2>2. fs[i].line \in Nat /\ fs[i].col \in Nat
    BY <2>1
  <2> QED BY <2>2 DEF Places
<1>3. Ids(fs) \in [1..Len(fs) -> Places]
  BY <1>2 DEF Ids
<1>4. Ids(fs) \in Seq(Places) /\ Len(Ids(fs)) = Len(fs)
  BY <1>1, <1>3, FunctionIsSeq
<1> QED BY <1>4 DEF Ids

LEMMA IdsOfConcat ==
  ASSUME NEW S, \A f \in S : f.line \in Nat /\ f.col \in Nat,
         NEW fs \in Seq(S), NEW gs \in Seq(S)
  PROVE  Ids(fs \o gs) = Ids(fs) \o Ids(gs)
<1>1. /\ fs \o gs \in Seq(S) /\ Len(fs \o gs) = Len(fs) + Len(gs)
      /\ \A i \in 1..Len(fs) : (fs \o gs)[i] = fs[i]
      /\ \A i \in 1..Len(fs \o gs) :
           i > Len(fs) => i - Len(fs) \in 1..Len(gs) /\ (fs \o gs)[i] = gs[i - Len(fs)]
  BY ConcatElements
<1>2. /\ Ids(fs) \in Seq(Places) /\ Ids(gs) \in Seq(Places) /\ Ids(fs \o gs) \in Seq(Places)
      /\ Len(Ids(fs)) = Len(fs) /\ Len(Ids(gs)) = Len(gs)
      /\ Len(Ids(fs \o gs)) = Len(fs \o gs)
      /\ \A i \in 1..Len(fs) : Ids(fs)[i] = <<fs[i].line, fs[i].col>>
      /\ \A i \in 1..Len(gs) : Ids(gs)[i] = <<gs[i].line, gs[i].col>>
      /\ \A i \in 1..Len(fs \o gs) :
           Ids(fs \o gs)[i] = <<(fs \o gs)[i].line, (fs \o gs)[i].col>>
  BY <1>1, IdsType
<1> DEFINE a == Ids(fs)
           b == Ids(gs)
           c == Ids(fs \o gs)
<1>3. /\ a \in Seq(Places) /\ b \in Seq(Places)
      /\ Len(a) = Len(fs) /\ Len(b) = Len(gs)
      /\ c \in Seq(Places) /\ Len(c) = Len(fs) + Len(gs)
      /\ Len(fs) \in Nat
  BY <1>1, <1>2
<1>4. ASSUME NEW i \in 1..(Len(fs) + Len(gs))
      PROVE  /\ i <= Len(fs) => c[i] = a[i]
             /\ i > Len(fs) => c[i] = b[i - Len(fs)]
  <2>1. i <= Len(fs) => i \in 1..Len(fs)
    BY <1>3
  <2>2. i \in 1..Len(fs \o gs)
    BY <1>1
  <2> QED BY <1>1, <1>2, <2>1, <2>2
<1> HIDE DEF a, b, c
<1>5. /\ a \o b \in Seq(Places) /\ Len(a \o b) = Len(a) + Len(b)
      /\ \A i \in 1..Len(a) : (a \o b)[i] = a[i]
      /\ \A i \in 1..Len(a \o b) : i > Len(a) => /\ i - Len(a) \in 1..Len(b)
                                                 /\ (a \o b)[i] = b[i - Len(a)]
  <2>1. a \in Seq(Places) /\ b \in Seq(Places)
    BY <1>3
  <2> QED BY <2>1, ConcatElements
<1>6. ASSUME NEW i \in 1..Len(c) PROVE c[i] = (a \o b)[i]
  <2>1. i \in 1..(Len(fs) + Len(gs)) /\ i \in 1..Len(a \o b) /\ (i <= Len(fs) => i \in 1..Len(a))
    BY <1>3, <1>5
  <2>2. i <= Len(fs) \/ i > Len(fs)
    BY <1>3
  <2> QED BY <1>3, <1>4, <1>5, <2>1, <2>2
<1>7. c = a \o b
  BY <1>3, <1>5, <1>6, SeqEqual
<1> QED BY <1>7 DEF a, b, c
=============================================================================
