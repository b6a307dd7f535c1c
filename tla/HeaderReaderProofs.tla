------------------------- MODULE HeaderReaderProofs -------------------------
(***************************************************************************)
(* Proofs about the reader of the header: its type, that it hands the      *)
(* stream on clean, that every continuation line keeps the comments before *)
(* it, and that it implements the abstract logical row.                    *)
(*                                                                         *)
(* TypeOK and ContinuationComments are not inductive.  The invariant IInv  *)
(* adds where the comments stand at every moment (Counted, of the line     *)
(* skipper: the counters hold what was passed over since the last row or   *)
(* blank line), that the rows handled stand on lines of their own and      *)
(* before the row that is out, that the reader is within a row exactly if  *)
(* it has fields, and which row each of the fields came from.              *)
(***************************************************************************)
EXTENDS HeaderReader, PhysicalLinesProofs

FieldRecs == [line : Nat \ {0}, col : 1..MaxWidth, openType : BOOLEAN, comments : Int8s]

TypeInv ==
  /\ LineInv /\ (outcome = "reading" => headerMode)
  /\ accumulatedFields \in Seq(FieldRecs)
  /\ inContinuation \in BOOLEAN /\ annotationAfterTrailingComma \in BOOLEAN
  /\ outcome \in {"reading", "read", "failed"} /\ handled \in Seq(RowRecs)

\* The rows handled stand on lines of their own, in order, and before the row
\* that is out.
PositionInv ==
  /\ outcome = "reading" => Counted
  /\ \A h \in 1..Len(handled) : /\ handled[h].line <= LinesRead
                                /\ nextRow = "row" => handled[h].line < rawRow.line
  /\ \A g, h \in 1..Len(handled) : g < h => handled[g].line < handled[h].line

\* The reader is within the header exactly if it has some of its fields.
ContInv == outcome = "reading" => (inContinuation <=> Len(accumulatedFields) > 0)

\* Each field comes from a row handled, with the comments counted for it there.
Kept(fs, rows) ==
  \A i \in 1..Len(fs) : \E h \in 1..Len(rows) :
    /\ rows[h].line = fs[i].line
    /\ i > 1 => fs[i].comments =
                  IF fs[i].col = 1
                  THEN Int8(rows[h].inline + rows[h].above.hash + rows[h].above.note) ELSE 0

\* No type was split between two lines.
Whole(fs) == \A i \in 1..(Len(fs) - 1) : fs[i].openType => fs[i].line = fs[i + 1].line

HandedOver ==
  outcome = "read" => /\ skippedCommentLines = 0 /\ skippedStandaloneComments = 0
                      /\ fieldCommentBlocks = 0
                      /\ ~headerMode /\ ~headerCommentAttachWindow
                      /\ nextRow = "reading" /\ rawRow = NoRow

IInv == /\ TypeInv /\ PositionInv /\ ContInv /\ HandedOver
        /\ Kept(accumulatedFields, handled) /\ Whole(accumulatedFields)

-----------------------------------------------------------------------------
(* A turn of the loop.                                                     *)

LEMMA Numbers ==
  ASSUME TypeInv
  PROVE  /\ LinesRead \in Nat /\ Len(handled) \in Nat /\ Len(accumulatedFields) \in Nat
         /\ \A h \in 1..Len(handled) : handled[h] \in RowRecs /\ handled[h].line \in Nat \ {0}
<1>1. LinesRead \in Nat /\ Len(handled) \in Nat /\ Len(accumulatedFields) \in Nat
  <2>1. read \in [Kinds -> Nat]
    BY DEF TypeInv, LineInv, LinesTypeOK
  <2>2. handled \in Seq(RowRecs) /\ accumulatedFields \in Seq(FieldRecs)
    BY DEF TypeInv
  <2> QED BY <2>1, <2>2, LinesReadType, LenType
<1>2. \A h \in 1..Len(handled) : handled[h] \in RowRecs
  BY ElementOfSeq DEF TypeInv
<1> QED BY <1>1, <1>2 DEF RowRecs, RowTypes

LEMMA TurnStep ==
  ASSUME TypeInv, NEW kinds, Turn(kinds), headerMode' \in BOOLEAN
  PROVE  /\ outcome = "reading" /\ nextRow \in kinds
         /\ LineInv' /\ nextRow' = "reading" /\ rawRow' = NoRow
         /\ UNCHANGED <<read, rowStartLine>> /\ LinesRead' = LinesRead
         /\ skippedCommentLines' = 0 /\ skippedStandaloneComments' = 0
         /\ headerCommentAttachWindow' = FALSE
         /\ nextRow = "row" => Counted' /\ fieldCommentBlocks' = 0
<1>1. /\ outcome = "reading" /\ nextRow \in kinds
      /\ UNCHANGED <<read, rowStartLine, fieldCommentBlocks, above>>
      /\ skippedCommentLines' = 0 /\ skippedStandaloneComments' = 0
      /\ headerAttachableCommentLines' = 0 /\ headerCommentAttachWindow' = FALSE
      /\ nextRow' = "reading" /\ rawRow' = NoRow
  BY DEF Turn, ReadCounters, ReleaseRow
<1>2. LinesRead' = LinesRead /\ LinesRead \in Nat
  BY <1>1, Numbers DEF LinesRead
<1>3. 0 \in Int8s /\ rawRow'.line \in 0..LinesRead
  BY <1>1, <1>2, LineAssumption DEF Int8s, NoRow
<1>4. LinesTypeOK'
  BY <1>1, <1>2, <1>3 DEF TypeInv, LineInv, LinesTypeOK, NextRowResults, Int8s
<1>5. LineInv'
  BY <1>1, <1>2, <1>4 DEF TypeInv, LineInv
<1>6. ASSUME nextRow = "row" PROVE Counted' /\ fieldCommentBlocks' = 0
  <2>1. above = NothingAbove
    BY <1>6 DEF TypeInv, LineInv, RowIsOut
  <2>2. Passed' = NothingAbove
    BY <1>1, <2>1 DEF Passed
  <2>3. Int8(0) = 0
    BY <1>3, Int8Identity
  <2>4. fieldCommentBlocks' = 0
    BY <1>1, <2>1, <2>3 DEF TypeInv, LineInv, NothingAbove
  <2> QED BY <1>1, <2>2, <2>3, <2>4 DEF Counted, NothingAbove
<1> QED BY <1>1, <1>2, <1>5, <1>6

LEMMA HeaderLineTurn ==
  ASSUME TypeInv, HeaderLine
  PROVE  /\ Turn({"row"}) /\ headerMode' \in BOOLEAN /\ nextRow = "row" /\ RowIsOut
         /\ handled' \in Seq(RowRecs) /\ Continues(handled', handled)
         /\ Len(handled') = Len(handled) + 1 /\ handled'[Len(handled) + 1] = rawRow
<1>1. Turn({"row"}) /\ handled' = Append(handled, rawRow) /\ headerMode' \in BOOLEAN
  BY DEF HeaderLine, TypeInv, LineInv, LinesTypeOK
<1>2. nextRow = "row" /\ RowIsOut
  <2>1. nextRow \in {"row"}
    BY <1>1, TurnStep
  <2> QED BY <2>1 DEF TypeInv, LineInv
<1>3. handled \in Seq(RowRecs) /\ rawRow \in RowRecs
  BY <1>2 DEF TypeInv, RowIsOut
<1> QED BY <1>1, <1>2, <1>3, AppendContinues

\* The fields of a row.
LEMMA FieldsOfType ==
  ASSUME TypeInv, nextRow = "row"
  PROVE  /\ FieldsOf(rawRow) \in Seq(FieldRecs) /\ Len(FieldsOf(rawRow)) = rawRow.width
         /\ rawRow.width \in 1..MaxWidth /\ rawRow.width \in Nat /\ rawRow.width >= 1
         /\ \A i \in 1..rawRow.width :
              /\ FieldsOf(rawRow)[i].line = rawRow.line
              /\ FieldsOf(rawRow)[i].col = i
              /\ FieldsOf(rawRow)[i].comments =
                   IF i = 1 THEN Int8(Int8(rawRow.inline + HashesCounted) + skippedStandaloneComments)
                   ELSE 0
<1> DEFINE c == Int8(Int8(rawRow.inline + HashesCounted) + skippedStandaloneComments)
<1>1. rawRow \in RowRecs
  BY DEF TypeInv, LineInv, RowIsOut
<1>2. /\ rawRow.width \in 1..MaxWidth /\ rawRow.width \in Nat /\ rawRow.width >= 1
      /\ rawRow.line \in Nat \ {0} /\ rawRow.inline \in Int /\ rawRow.openType \in BOOLEAN
  BY <1>1, LineAssumption DEF RowRecs, RowTypes, Int8s
<1>3. c \in Int8s /\ 0 \in Int8s
  <2>1. HashesCounted \in Int8s /\ skippedStandaloneComments \in Int8s
    BY DEF TypeInv, LineInv, LinesTypeOK, HashesCounted, Int8s
  <2>2. rawRow.inline + HashesCounted \in Int
    BY <1>2, <2>1, LineAssumption DEF Int8s
  <2>3. Int8(rawRow.inline + HashesCounted) \in Int8s
    BY <2>2, Int8Range
  <2>4. Int8(rawRow.inline + HashesCounted) + skippedStandaloneComments \in Int
    BY <2>1, <2>3, LineAssumption DEF Int8s
  <2>5. 0 \in Int8s
    BY LineAssumption DEF Int8s
  <2> QED BY <2>4, <2>5, Int8Range
<1>4. FieldsOf(rawRow) =
        [i \in 1..rawRow.width |-> [line |-> rawRow.line, col |-> i,
                                    openType |-> rawRow.openType /\ i = rawRow.width,
                                    comments |-> IF i = 1 THEN c ELSE 0]]
  BY DEF FieldsOf
<1> HIDE DEF c
<1>5. ASSUME NEW i \in 1..rawRow.width
      PROVE  [line |-> rawRow.line, col |-> i, openType |-> rawRow.openType /\ i = rawRow.width,
              comments |-> IF i = 1 THEN c ELSE 0] \in FieldRecs
  <2>1. i \in 1..MaxWidth
    BY <1>2, LineAssumption
  <2>2. (IF i = 1 THEN c ELSE 0) \in Int8s
    BY <1>3
  <2>3. (rawRow.openType /\ i = rawRow.width) \in BOOLEAN
    OBVIOUS
  <2> QED BY <1>2, <2>1, <2>2, <2>3 DEF FieldRecs
<1>6. FieldsOf(rawRow) \in [1..rawRow.width -> FieldRecs]
  BY <1>4, <1>5
<1>7. FieldsOf(rawRow) \in Seq(FieldRecs) /\ Len(FieldsOf(rawRow)) = rawRow.width
  BY <1>2, <1>6, FunctionIsSeq
<1>8. ASSUME NEW i \in 1..rawRow.width
      PROVE  /\ FieldsOf(rawRow)[i].line = rawRow.line
             /\ FieldsOf(rawRow)[i].col = i
             /\ FieldsOf(rawRow)[i].comments = IF i = 1 THEN c ELSE 0
  BY <1>4
<1> QED BY <1>2, <1>7, <1>8 DEF c

\* The fields gathered with them.
LEMMA NewFields ==
  ASSUME TypeInv, HeaderLine
  PROVE  /\ accumulatedFields' = accumulatedFields \o FieldsOf(rawRow)
         /\ accumulatedFields' \in Seq(FieldRecs)
         /\ FieldsOf(rawRow) \in Seq(FieldRecs)
         /\ rawRow.width \in Nat /\ rawRow.width >= 1
         /\ Len(accumulatedFields') = Len(accumulatedFields) + rawRow.width
         /\ \A i \in 1..Len(accumulatedFields) : accumulatedFields'[i] = accumulatedFields[i]
         /\ \A i \in 1..Len(accumulatedFields') : i > Len(accumulatedFields) =>
              LET k == i - Len(accumulatedFields)
              IN  /\ accumulatedFields'[i].line = rawRow.line
                  /\ accumulatedFields'[i].col = k
                  /\ accumulatedFields'[i].comments =
                       IF k = 1
                       THEN Int8(Int8(rawRow.inline + HashesCounted) + skippedStandaloneComments)
                       ELSE 0
<1> DEFINE F == FieldsOf(rawRow)
           n == Len(accumulatedFields)
           c == Int8(Int8(rawRow.inline + HashesCounted) + skippedStandaloneComments)
<1>1. accumulatedFields' = accumulatedFields \o F /\ nextRow = "row"
  BY HeaderLineTurn DEF HeaderLine
<1>2. /\ F \in Seq(FieldRecs) /\ Len(F) = rawRow.width
      /\ rawRow.width \in Nat /\ rawRow.width >= 1
      /\ \A i \in 1..rawRow.width : /\ F[i].line = rawRow.line /\ F[i].col = i
                                    /\ F[i].comments = IF i = 1 THEN c ELSE 0
  BY <1>1, FieldsOfType
<1> HIDE DEF F, c
<1>3. accumulatedFields \in Seq(FieldRecs)
  BY DEF TypeInv
<1>4. /\ accumulatedFields' \in Seq(FieldRecs) /\ Len(accumulatedFields') = n + Len(F)
      /\ \A i \in 1..n : accumulatedFields'[i] = accumulatedFields[i]
      /\ \A i \in 1..Len(accumulatedFields') :
           i > n => i - n \in 1..Len(F) /\ accumulatedFields'[i] = F[i - n]
  <2>1. F \in Seq(FieldRecs)
    BY <1>2
  <2> QED BY <1>1, <1>3, <2>1, ConcatElements
<1>5. ASSUME NEW i \in 1..Len(accumulatedFields'), i > n
      PROVE  /\ accumulatedFields'[i].line = rawRow.line
             /\ accumulatedFields'[i].col = i - n
             /\ accumulatedFields'[i].comments = IF i - n = 1 THEN c ELSE 0
  <2>1. i - n \in 1..Len(F) /\ accumulatedFields'[i] = F[i - n]
    BY <1>4, <1>5
  <2> QED BY <1>2, <2>1
<1>6. Len(accumulatedFields') = n + rawRow.width
  BY <1>2, <1>4
<1> QED BY <1>1, <1>2, <1>4, <1>5, <1>6 DEF F, c

\* On a line that continues the header, the '#' and ( ) lines before it add up
\* to what its first field carries.
LEMMA CommentsAddUp ==
  ASSUME TypeInv, PositionInv, nextRow = "row", outcome = "reading", inContinuation
  PROVE  Int8(Int8(rawRow.inline + HashesCounted) + skippedStandaloneComments)
           = Int8(rawRow.inline + rawRow.above.hash + rawRow.above.note)
<1> DEFINE a == rawRow.inline
           h == rawRow.above.hash
           n == rawRow.above.note
<1>1. a \in Int /\ h \in Int /\ n \in Int
  <2>1. rawRow.inline \in Int8s /\ rawRow.above.hash \in Nat /\ rawRow.above.note \in Nat
    BY DEF TypeInv, LineInv, RowIsOut, RowRecs, RowTypes
  <2> QED BY <2>1, LineAssumption DEF Int8s
<1>2. HashesCounted = Int8(h) /\ skippedStandaloneComments = Int8(n)
  BY DEF PositionInv, Counted, Passed, HashesCounted
<1> HIDE DEF a, h, n
<1>3. /\ \A x \in Int : Int8(x) \in Int
      /\ \A x, y \in Int : Int8(x) + y = y + Int8(x)
  <2>1. \A x \in Int : Int8(x) \in Int8s
    BY Int8Range
  <2>2. \A x \in Int : Int8(x) \in Int
    BY <2>1, LineAssumption DEF Int8s
  <2> QED BY <2>2
<1>4. Int8(a + Int8(h)) = Int8(h + a)
  <2>1. a + Int8(h) = Int8(h) + a
    BY <1>1, <1>3
  <2>2. Int8(Int8(h) + a) = Int8(h + a)
    BY <1>1, Int8Sum
  <2> QED BY <2>1, <2>2
<1>5. h + a \in Int /\ Int8(n) \in Int
  BY <1>1, <1>3
<1>6. Int8(Int8(h + a) + Int8(n)) = Int8((h + a) + Int8(n))
  BY <1>5, Int8Sum
<1>7. Int8((h + a) + Int8(n)) = Int8(Int8(n) + (h + a))
  <2>1. (h + a) + Int8(n) = Int8(n) + (h + a)
    BY <1>5
  <2> QED BY <2>1
<1>8. Int8(Int8(n) + (h + a)) = Int8(n + (h + a))
  BY <1>1, <1>5, Int8Sum
<1>9. n + (h + a) = a + h + n
  BY <1>1
<1> QED BY <1>2, <1>4, <1>6, <1>7, <1>8, <1>9 DEF a, h, n

-----------------------------------------------------------------------------
(* Each part of the invariant is kept.                                     *)

\* A turn that ends in failure.
Failing == HeaderMissing \/ TypeSplit

LEMMA FailingStep ==
  ASSUME TypeInv, Failing
  PROVE  /\ outcome = "reading" /\ outcome' = "failed" /\ LineInv' /\ LinesRead' = LinesRead
         /\ nextRow' = "reading"
         /\ UNCHANGED <<headerMode, accumulatedFields, inContinuation,
                        annotationAfterTrailingComma, handled>>
<1>1. PICK kinds : Turn(kinds)
  BY DEF Failing, HeaderMissing, TypeSplit
<1>2. /\ outcome' = "failed"
      /\ UNCHANGED <<headerMode, accumulatedFields, inContinuation,
                     annotationAfterTrailingComma, handled>>
  BY DEF Failing, HeaderMissing, TypeSplit
<1>3. headerMode' \in BOOLEAN
  BY <1>2 DEF TypeInv, LineInv, LinesTypeOK
<1> QED BY <1>1, <1>2, <1>3, TurnStep

LEMMA ReadLineStep ==
  ASSUME TypeInv, ReadLine
  PROVE  /\ outcome = "reading" /\ NextLine
         /\ UNCHANGED <<accumulatedFields, inContinuation, annotationAfterTrailingComma,
                        outcome, handled, headerMode>>
         /\ LineInv' /\ (Counted => Counted')
         /\ LinesRead \in Nat /\ LinesRead' \in Nat /\ LinesRead <= LinesRead'
         /\ nextRow' = "row" => LinesRead' = LinesRead + 1 /\ rawRow'.line = LinesRead'
<1>1. /\ outcome = "reading" /\ NextLine
      /\ UNCHANGED <<accumulatedFields, inContinuation, annotationAfterTrailingComma,
                     outcome, handled>>
  BY DEF ReadLine, reader
<1>2. /\ LineInv' /\ (Counted => Counted') /\ headerMode' = headerMode
      /\ LinesRead \in Nat /\ LinesRead' \in Nat /\ LinesRead <= LinesRead'
      /\ nextRow' = "row" => LinesRead' = LinesRead + 1
  BY <1>1, NextLineStep DEF TypeInv
<1>3. nextRow' = "row" => rawRow'.line = LinesRead'
  BY <1>2 DEF LineInv, RowIsOut
<1> QED BY <1>1, <1>2, <1>3

LEMMA TypeStep == ASSUME TypeInv, Next PROVE TypeInv'
<1>1. CASE ReadLine
  BY <1>1, ReadLineStep DEF TypeInv
<1>2. CASE Failing
  BY <1>2, FailingStep DEF TypeInv
<1>3. CASE HeaderLine
  <2>1. LineInv' /\ handled' \in Seq(RowRecs) /\ accumulatedFields' \in Seq(FieldRecs)
    BY <1>3, HeaderLineTurn, TurnStep, NewFields
  <2>2. outcome = "reading" /\ headerMode
    BY <1>3 DEF HeaderLine, Turn, TypeInv
  <2>3. annotationAfterTrailingComma' \in BOOLEAN
    BY <1>3 DEF HeaderLine
  <2>4. /\ outcome' = "reading" => headerMode'
        /\ outcome' \in {"reading", "read", "failed"}
        /\ inContinuation' \in BOOLEAN
    BY <1>3, <2>2 DEF HeaderLine, TypeInv
  <2> QED BY <2>1, <2>3, <2>4 DEF TypeInv
<1> QED BY <1>1, <1>2, <1>3 DEF Next, Failing

LEMMA PositionStep == ASSUME TypeInv, PositionInv, Next PROVE PositionInv'
<1>0. /\ LinesRead \in Nat /\ Len(handled) \in Nat
      /\ \A h \in 1..Len(handled) : handled[h].line \in Nat /\ handled[h].line <= LinesRead
      /\ \A g, h \in 1..Len(handled) : g < h => handled[g].line < handled[h].line
  BY Numbers DEF PositionInv
<1>1. CASE ReadLine
  <2>1. /\ outcome = "reading" /\ UNCHANGED <<outcome, handled>>
        /\ Counted => Counted'
        /\ LinesRead' \in Nat /\ LinesRead <= LinesRead'
        /\ nextRow' = "row" => LinesRead' = LinesRead + 1 /\ rawRow'.line = LinesRead'
    BY <1>1, ReadLineStep
  <2>2. ASSUME NEW h \in 1..Len(handled)
        PROVE  /\ handled[h].line <= LinesRead'
               /\ nextRow' = "row" => handled[h].line < rawRow'.line
    BY <1>0, <2>1
  <2> QED BY <1>0, <2>1, <2>2 DEF PositionInv
<1>2. CASE Failing
  BY <1>0, <1>2, FailingStep DEF PositionInv
<1>3. CASE HeaderLine
  <2>1. /\ Turn({"row"}) /\ nextRow = "row" /\ RowIsOut /\ Continues(handled', handled)
        /\ Len(handled') = Len(handled) + 1 /\ handled'[Len(handled) + 1] = rawRow
    BY <1>3, HeaderLineTurn
  <2>2. Counted' /\ nextRow' = "reading" /\ LinesRead' = LinesRead
    BY <1>3, <2>1, HeaderLineTurn, TurnStep
  <2>3. /\ rawRow.line = LinesRead
        /\ \A h \in 1..Len(handled) : handled'[h] = handled[h] /\ handled[h].line < rawRow.line
    BY <2>1 DEF RowIsOut, PositionInv, Continues
  <2>4. ASSUME NEW h \in 1..Len(handled') PROVE handled'[h].line <= LinesRead
    <3>1. h \in 1..Len(handled) \/ h = Len(handled) + 1
      BY <1>0, <2>1
    <3> QED BY <1>0, <2>1, <2>3, <3>1
  <2>5. ASSUME NEW g \in 1..Len(handled'), NEW h \in 1..Len(handled'), g < h
        PROVE  handled'[g].line < handled'[h].line
    <3>1. g \in 1..Len(handled) /\ (h \in 1..Len(handled) \/ h = Len(handled) + 1)
      <4>1. Len(handled') = Len(handled) + 1 /\ Len(handled) \in Nat
        BY <1>0, <2>1
      <4> QED BY <2>5, <4>1
    <3> QED BY <1>0, <2>1, <2>3, <2>5, <3>1
  <2> QED BY <2>2, <2>4, <2>5 DEF PositionInv
<1> QED BY <1>1, <1>2, <1>3 DEF Next, Failing

LEMMA ContStep == ASSUME TypeInv, ContInv, Next PROVE ContInv'
<1>1. CASE ReadLine
  BY <1>1, ReadLineStep DEF ContInv
<1>2. CASE Failing
  BY <1>2, FailingStep DEF ContInv
<1>3. CASE HeaderLine
  <2>1. Len(accumulatedFields') > 0
    BY <1>3, NewFields, Numbers
  <2>2. outcome' = "reading" => inContinuation'
    BY <1>3 DEF HeaderLine
  <2> QED BY <2>1, <2>2 DEF ContInv
<1> QED BY <1>1, <1>2, <1>3 DEF Next, Failing

LEMMA HandedOverStep == ASSUME TypeInv, Next PROVE HandedOver'
<1>1. CASE ReadLine
  BY <1>1, ReadLineStep DEF HandedOver
<1>2. CASE Failing
  BY <1>2, FailingStep DEF HandedOver
<1>3. CASE HeaderLine
  <2>1. /\ skippedCommentLines' = 0 /\ skippedStandaloneComments' = 0
        /\ headerCommentAttachWindow' = FALSE /\ nextRow' = "reading" /\ rawRow' = NoRow
        /\ outcome = "reading" /\ fieldCommentBlocks' = 0
    BY <1>3, HeaderLineTurn, TurnStep
  <2>2. outcome' = "read" => ~headerMode'
    BY <1>3, <2>1 DEF HeaderLine
  <2> QED BY <2>1, <2>2 DEF HandedOver
<1> QED BY <1>1, <1>2, <1>3 DEF Next, Failing

LEMMA WholeStep ==
  ASSUME TypeInv, ContInv, Whole(accumulatedFields), Next
  PROVE  Whole(accumulatedFields')
<1>1. CASE ReadLine \/ Failing
  BY <1>1, ReadLineStep, FailingStep
<1>2. CASE HeaderLine
  <2> DEFINE n == Len(accumulatedFields)
  <2>1. /\ rawRow.width \in Nat /\ rawRow.width >= 1 /\ Len(accumulatedFields') = n + rawRow.width
        /\ \A i \in 1..n : accumulatedFields'[i] = accumulatedFields[i]
        /\ \A i \in 1..Len(accumulatedFields') : i > n => accumulatedFields'[i].line = rawRow.line
    BY <1>2, NewFields
  <2>2. n \in Nat
    BY Numbers
  <2>3. n > 0 => ~accumulatedFields[n].openType
    BY <1>2 DEF HeaderLine, SplitType, ContInv, Turn
  <2> HIDE DEF n
  <2>4. ASSUME NEW i \in 1..(Len(accumulatedFields') - 1), accumulatedFields'[i].openType
        PROVE  accumulatedFields'[i].line = accumulatedFields'[i + 1].line
    <3>1. i \in 1..Len(accumulatedFields') /\ i + 1 \in 1..Len(accumulatedFields')
      BY <2>1, <2>2
    <3>2. CASE i < n
      <4>1. i \in 1..n /\ i + 1 \in 1..n /\ i \in 1..(n - 1)
        BY <2>2, <3>2
      <4> QED BY <2>1, <2>4, <4>1 DEF Whole, n
    <3>3. CASE i = n
      <4>1. i \in 1..n /\ n > 0
        BY <2>2, <3>3
      <4> QED BY <2>1, <2>3, <2>4, <3>3, <4>1
    <3>4. CASE i > n
      <4>1. i + 1 > n
        BY <2>2, <3>4
      <4> QED BY <2>1, <3>1, <3>4, <4>1
    <3> QED BY <2>2, <3>2, <3>3, <3>4
  <2> QED BY <2>4 DEF Whole
<1> QED BY <1>1, <1>2 DEF Next, Failing

LEMMA KeptStep ==
  ASSUME TypeInv, PositionInv, ContInv, Kept(accumulatedFields, handled), Next
  PROVE  Kept(accumulatedFields', handled')
<1>1. CASE ReadLine \/ Failing
  BY <1>1, ReadLineStep, FailingStep
<1>2. CASE HeaderLine
  <2> DEFINE n == Len(accumulatedFields)
             m == Len(handled)
             c == Int8(Int8(rawRow.inline + HashesCounted) + skippedStandaloneComments)
             total == Int8(rawRow.inline + rawRow.above.hash + rawRow.above.note)
  <2>1. /\ rawRow.width \in Nat /\ rawRow.width >= 1 /\ Len(accumulatedFields') = n + rawRow.width
        /\ \A i \in 1..n : accumulatedFields'[i] = accumulatedFields[i]
        /\ \A i \in 1..Len(accumulatedFields') : i > n =>
             /\ accumulatedFields'[i].line = rawRow.line
             /\ accumulatedFields'[i].col = i - n
             /\ accumulatedFields'[i].comments = IF i - n = 1 THEN c ELSE 0
    BY <1>2, NewFields
  <2>2. /\ Len(handled') = m + 1 /\ handled'[m + 1] = rawRow
        /\ \A h \in 1..m : handled'[h] = handled[h]
        /\ nextRow = "row"
    BY <1>2, HeaderLineTurn DEF Continues
  <2>3. n \in Nat /\ m \in Nat
    BY Numbers
  <2>4. n > 0 => c = total
    <3>1. outcome = "reading" /\ (n > 0 => inContinuation)
      BY <1>2 DEF HeaderLine, Turn, ContInv
    <3> QED BY <2>2, <3>1, CommentsAddUp
  <2> DEFINE Of(f, i, r) == /\ r.line = f.line
                            /\ i > 1 => f.comments =
                                 IF f.col = 1
                                 THEN Int8(r.inline + r.above.hash + r.above.note) ELSE 0
  <2>5. \A i \in 1..n : \E h \in 1..m : Of(accumulatedFields[i], i, handled[h])
    BY DEF Kept
  <2> HIDE DEF n, m, c
  <2>6. ASSUME NEW i \in 1..Len(accumulatedFields')
        PROVE  \E h \in 1..Len(handled') : Of(accumulatedFields'[i], i, handled'[h])
    <3>1. CASE i <= n
      <4>1. i \in 1..n
        BY <2>3, <3>1
      <4>2. PICK h \in 1..m : Of(accumulatedFields[i], i, handled[h])
        BY <2>5, <4>1
      <4>3. h \in 1..Len(handled')
        BY <2>2, <2>3
      <4> HIDE DEF Of
      <4> QED BY <2>1, <2>2, <4>1, <4>2, <4>3
    <3>2. CASE ~(i <= n)
      <4>1. i > n /\ (i - n = 1 /\ i > 1 => n > 0)
        BY <2>1, <2>3, <3>2
      <4>2. m + 1 \in 1..Len(handled')
        BY <2>2, <2>3
      <4>3. /\ rawRow.line = accumulatedFields'[i].line
            /\ i > 1 => accumulatedFields'[i].comments =
                          IF accumulatedFields'[i].col = 1 THEN total ELSE 0
        BY <2>1, <2>4, <4>1
      <4>4. Of(accumulatedFields'[i], i, rawRow)
        BY <4>3
      <4> HIDE DEF Of
      <4> QED BY <2>2, <4>2, <4>4
    <3> QED BY <3>1, <3>2
  <2> QED BY <2>6 DEF Kept
<1> QED BY <1>1, <1>2 DEF Next, Failing

-----------------------------------------------------------------------------
(* The invariant.                                                          *)

LEMMA InitInv == Init => IInv
<1> SUFFICES ASSUME Init PROVE IInv
  OBVIOUS
<1>1. /\ LinesInit(0) /\ headerMode = TRUE
      /\ accumulatedFields = <<>> /\ inContinuation = FALSE
      /\ annotationAfterTrailingComma = FALSE /\ outcome = "reading" /\ handled = <<>>
  BY DEF Init
<1>2. /\ read = [k \in Kinds |-> 0] /\ rowStartLine = 0
      /\ skippedCommentLines = 0 /\ headerCommentAttachWindow = FALSE
      /\ headerAttachableCommentLines = 0 /\ skippedStandaloneComments = 0
      /\ fieldCommentBlocks = 0
      /\ nextRow = "reading" /\ rawRow = NoRow /\ above = NothingAbove
  BY <1>1 DEF LinesInit
<1>3. /\ read \in [Kinds -> Nat] /\ read.row = 0 /\ read.version = 0
      /\ read.blank = 0 /\ read.hash = 0 /\ read.note = 0 /\ read.cut = 0
  BY <1>2 DEF Kinds
<1>4. LinesRead = 0
  BY <1>3 DEF LinesRead
<1>5. 0 \in Int8s /\ Int8(0) = 0
  <2>1. 0 \in Int8s
    BY LineAssumption DEF Int8s
  <2> QED BY <2>1, Int8Identity
<1>6. /\ rawRow.line = 0 /\ above \in [hash : Nat, note : Nat, cut : Nat]
      /\ above.hash = 0 /\ above.note = 0 /\ above.cut = 0
  BY <1>2 DEF NoRow, NothingAbove
<1>7. LineInv
  <2>1. {skippedCommentLines, headerAttachableCommentLines, skippedStandaloneComments,
         fieldCommentBlocks}
          \subseteq (-(MaxInt8 + 1))..MaxInt8
    BY <1>2, <1>5 DEF Int8s
  <2>2. rowStartLine \in 0..(LinesRead + 1) /\ rawRow.line \in 0..LinesRead
    BY <1>2, <1>4, <1>6
  <2>3. headerMode \in BOOLEAN /\ headerCommentAttachWindow \in BOOLEAN
        /\ nextRow \in NextRowResults
    BY <1>1, <1>2 DEF NextRowResults
  <2>4. LinesTypeOK
    BY <1>3, <1>6, <2>1, <2>2, <2>3 DEF LinesTypeOK
  <2>5. LinesRead <= MaxLines
    BY <1>4, LineAssumption
  <2>6. fieldCommentBlocks = Int8(above.cut)
    BY <1>2, <1>5, <1>6
  <2> QED BY <1>2, <2>4, <2>5, <2>6 DEF LineInv
<1>8. Counted
  BY <1>2, <1>5, <1>6 DEF Counted, Passed
<1>9. Len(accumulatedFields) = 0 /\ Len(handled) = 0
  BY <1>1
<1>10. TypeInv
  <2>1. <<>> \in Seq(FieldRecs) /\ <<>> \in Seq(RowRecs)
    OBVIOUS
  <2> QED BY <1>1, <1>7, <2>1 DEF TypeInv
<1>11. PositionInv /\ ContInv /\ HandedOver
  BY <1>1, <1>8, <1>9 DEF PositionInv, ContInv, HandedOver
<1>12. Kept(accumulatedFields, handled) /\ Whole(accumulatedFields)
  BY <1>9 DEF Kept, Whole
<1> QED BY <1>10, <1>11, <1>12 DEF IInv

LEMMA StepInv == IInv /\ [Next]_vars => IInv'
<1> SUFFICES ASSUME IInv, [Next]_vars PROVE IInv'
  OBVIOUS
<1>1. CASE Next
  BY <1>1, TypeStep, PositionStep, ContStep, HandedOverStep, WholeStep, KeptStep DEF IInv
<1>2. CASE UNCHANGED vars
  <2>1. /\ UNCHANGED <<read, rowStartLine, headerMode, skippedCommentLines,
                       headerCommentAttachWindow, headerAttachableCommentLines,
                       skippedStandaloneComments, fieldCommentBlocks, nextRow, rawRow, above>>
        /\ UNCHANGED <<accumulatedFields, inContinuation, annotationAfterTrailingComma,
                       outcome, handled>>
    BY <1>2 DEF vars, lineVars, counters, reader
  <2>2. LinesRead' = LinesRead /\ Passed' = Passed
    BY <2>1 DEF LinesRead, Passed
  <2>3. LineInv' <=> LineInv
    BY <2>1, <2>2 DEF LineInv, LinesTypeOK, RowIsOut
  <2>4. Counted' <=> Counted
    BY <2>1, <2>2 DEF Counted
  <2>5. TypeInv' /\ PositionInv' /\ ContInv' /\ HandedOver'
    BY <2>1, <2>2, <2>3, <2>4 DEF IInv, TypeInv, PositionInv, ContInv, HandedOver
  <2> QED BY <2>1, <2>5 DEF IInv
<1> QED BY <1>1, <1>2

\* The invariant holds in every state the reader reaches.
THEOREM HeaderInvariant == Spec => []IInv
<1>1. Init => IInv
  BY InitInv
<1>2. IInv /\ [Next]_vars => IInv'
  BY StepInv
<1> QED BY <1>1, <1>2, PTL DEF Spec

-----------------------------------------------------------------------------
(* What it says.                                                           *)

\* No two rows handled stand on the same line.
LEMMA HandledOnce ==
  ASSUME IInv, NEW h \in 1..Len(handled)
  PROVE  HandledAt(handled[h].line) = handled[h]
<1>1. ASSUME NEW g \in 1..Len(handled), handled[g].line = handled[h].line
      PROVE  handled[g] = handled[h]
  <2>1. Len(handled) \in Nat /\ \A k \in 1..Len(handled) : handled[k].line \in Nat
    BY Numbers DEF IInv
  <2>2. (g < h => handled[g].line < handled[h].line) /\ (h < g => handled[h].line < handled[g].line)
    BY DEF IInv, PositionInv
  <2>3. g = h
    BY <1>1, <2>1, <2>2
  <2> QED BY <2>3
<1> DEFINE S == {handled[i] : i \in 1..Len(handled)}
<1>2. handled[h] \in S /\ \A r \in S : r.line = handled[h].line => r = handled[h]
  BY <1>1
<1>3. HandledAt(handled[h].line) = CHOOSE r \in S : r.line = handled[h].line
  BY DEF HandledAt
<1> HIDE DEF S
<1> QED BY <1>2, <1>3

LEMMA InvImpliesType == IInv => TypeOK
<1> SUFFICES ASSUME IInv PROVE TypeOK
  OBVIOUS
<1>1. ASSUME NEW i \in 1..Len(accumulatedFields)
      PROVE  accumulatedFields[i] \in [line : 1..LinesRead, col : 1..MaxWidth,
                                       openType : BOOLEAN,
                                       comments : (-(MaxInt8 + 1))..MaxInt8]
  <2>1. accumulatedFields[i] \in FieldRecs
    BY ElementOfSeq DEF IInv, TypeInv
  <2>2. PICK h \in 1..Len(handled) : handled[h].line = accumulatedFields[i].line
    BY DEF IInv, Kept
  <2>3. /\ LinesRead \in Nat /\ handled[h].line \in Nat \ {0}
        /\ handled[h].line <= LinesRead
    BY Numbers DEF IInv, PositionInv
  <2>4. accumulatedFields[i].line \in 1..LinesRead
    BY <2>2, <2>3
  <2> QED BY <2>1, <2>4 DEF FieldRecs, Int8s
<1> QED BY <1>1 DEF IInv, TypeInv, LineInv, TypeOK

\* The state of the reader has its type at all times.
THEOREM HeaderTypeCorrect == Spec => []TypeOK
<1>1. IInv => TypeOK
  BY InvImpliesType
<1> QED BY <1>1, HeaderInvariant, PTL

LEMMA InvImpliesComments == IInv => ContinuationComments
<1> SUFFICES ASSUME IInv, NEW i \in 2..Len(accumulatedFields)
             PROVE  LET f == accumulatedFields[i]
                        row == HandledAt(f.line)
                    IN  IF f.col > 1 THEN f.comments = 0
                        ELSE \E more \in LeftOver(row) :
                               f.comments = Int8(LinesAbove(row) + more)
  BY DEF ContinuationComments
<1> DEFINE f == accumulatedFields[i]
           row == HandledAt(f.line)
<1>1. i \in 1..Len(accumulatedFields) /\ i > 1
  <2>1. Len(accumulatedFields) \in Nat
    BY Numbers DEF IInv
  <2> QED BY <2>1
<1>2. PICK h \in 1..Len(handled) :
        /\ handled[h].line = f.line
        /\ f.comments = IF f.col = 1
                        THEN Int8(handled[h].inline + handled[h].above.hash
                                  + handled[h].above.note)
                        ELSE 0
  BY <1>1 DEF IInv, Kept
<1>3. row = handled[h] /\ row \in RowRecs
  BY <1>2, HandledOnce, Numbers DEF IInv
<1>4. f.col \in 1..MaxWidth
  <2>1. accumulatedFields[i] \in FieldRecs
    BY <1>1, ElementOfSeq DEF IInv, TypeInv
  <2> QED BY <2>1 DEF FieldRecs
<1> HIDE DEF f, row
<1>5. row.above.cut \in Nat /\ row.above.hash \in Nat /\ row.above.note \in Nat
      /\ row.own \in Nat /\ row.inline = Int8(row.above.cut + row.own)
      /\ row.inline \in Int
  BY <1>3, LineAssumption DEF RowRecs, RowTypes, Int8s
<1> DEFINE blocks == row.above.cut + row.own
           lines == row.above.hash + row.above.note
<1>6. blocks \in Int /\ lines \in Int
  BY <1>5
<1>7. row.inline = Int8(blocks)
  BY <1>5
<1>8. /\ row.inline + row.above.hash + row.above.note = row.inline + lines
      /\ blocks + lines = LinesAbove(row) + row.above.cut
  BY <1>5 DEF LinesAbove
<1> HIDE DEF blocks, lines
<1>9. Int8(Int8(blocks) + lines) = Int8(blocks + lines)
  BY <1>6, Int8Sum
<1>10. f.col = 1 => f.comments = Int8(LinesAbove(row) + row.above.cut)
  BY <1>2, <1>3, <1>7, <1>8, <1>9
<1>11. f.col > 1 => f.comments = 0
  BY <1>2, <1>4
<1>12. f.col > 1 \/ f.col = 1
  BY <1>4, LineAssumption
<1>13. row.above.cut \in LeftOver(row)
  BY DEF LeftOver
<1> QED BY <1>10, <1>11, <1>12, <1>13 DEF f, row

\* Every line that continues the header keeps the comments before it.
THEOREM ContinuationKeepsComments == Spec => []ContinuationComments
<1>1. IInv => ContinuationComments
  BY InvImpliesComments
<1> QED BY <1>1, HeaderInvariant, PTL

\* The loop over the data rows starts with no comment counted, no row out and
\* a header that is whole.
THEOREM HandOverIsClean == Spec => []CleanHandOver
<1>1. IInv => CleanHandOver
  BY DEF IInv, HandedOver, Whole, CleanHandOver, NoSplitType
<1> QED BY <1>1, HeaderInvariant, PTL

-----------------------------------------------------------------------------
(* The header as a logical row.                                            *)

LEMMA FieldPlaces == \A f \in FieldRecs : f.line \in Nat /\ f.col \in Nat
BY LineAssumption DEF FieldRecs

\* The fields of the row that is out are a run of fields.
LEMMA RowIsARun ==
  ASSUME TypeInv, nextRow = "row"
  PROVE  Ids(FieldsOf(rawRow)) \in LineRuns
<1>1. rawRow \in RowRecs /\ rawRow.line = LinesRead /\ LinesRead <= MaxLines
  BY DEF TypeInv, LineInv, RowIsOut
<1>2. rawRow.line \in 1..MaxLines
  <2>1. rawRow.line \in Nat \ {0}
    BY <1>1 DEF RowRecs, RowTypes
  <2> QED BY <1>1, <2>1, LineAssumption
<1>3. rawRow.width \in 1..MaxWidth
  BY <1>1 DEF RowRecs, RowTypes
<1>4. Ids(FieldsOf(rawRow)) = [i \in 1..rawRow.width |-> <<rawRow.line, i>>]
  <2>1. /\ Len(FieldsOf(rawRow)) = rawRow.width
        /\ \A i \in 1..rawRow.width : /\ FieldsOf(rawRow)[i].line = rawRow.line
                                      /\ FieldsOf(rawRow)[i].col = i
    BY FieldsOfType
  <2> QED BY <2>1 DEF Ids
<1> QED BY <1>2, <1>3, <1>4 DEF LineRuns

LEMMA RefinesInit == Init => Logical!Init
<1> SUFFICES ASSUME Init PROVE Logical!Init
  OBVIOUS
<1>1. accumulatedFields = <<>> /\ outcome = "reading"
  BY DEF Init
<1>2. Ids(<<>>) = <<>>
  BY DEF Ids
<1> QED BY <1>1, <1>2 DEF Logical!Init

LEMMA RefinesStep == IInv /\ [Next]_vars => [Logical!Next]_Logical!vars
<1> SUFFICES ASSUME IInv, [Next]_vars PROVE [Logical!Next]_Logical!vars
  OBVIOUS
<1>1. TypeInv /\ accumulatedFields \in Seq(FieldRecs)
  BY DEF IInv, TypeInv
<1>2. CASE ReadLine \/ UNCHANGED vars
  <2>1. UNCHANGED <<accumulatedFields, outcome>>
    BY <1>2 DEF ReadLine, reader, vars
  <2> QED BY <2>1 DEF Logical!vars
<1>3. CASE Failing
  <2>1. outcome = "reading" /\ outcome' = "failed" /\ UNCHANGED accumulatedFields
    BY <1>1, <1>3, FailingStep
  <2>2. Logical!EndEarly
    BY <2>1 DEF Logical!EndEarly
  <2> QED BY <2>2 DEF Logical!Next
<1>4. CASE HeaderLine
  <2> DEFINE F == FieldsOf(rawRow)
  <2>1. /\ accumulatedFields' = accumulatedFields \o F /\ F \in Seq(FieldRecs)
        /\ nextRow = "row"
    BY <1>1, <1>4, NewFields, HeaderLineTurn
  <2>2. Ids(F) \in LineRuns
    BY <1>1, <2>1, RowIsARun
  <2> HIDE DEF F
  <2>3. Ids(accumulatedFields') = Ids(accumulatedFields) \o Ids(F)
    BY <1>1, <2>1, IdsOfConcat, FieldPlaces
  <2>4. outcome = "reading" /\ (outcome' = "reading" \/ outcome' = "read")
    BY <1>4 DEF HeaderLine, Turn
  <2>5. CASE outcome' = "reading"
    <3>1. Logical!Gather(Ids(F))
      BY <2>3, <2>4, <2>5 DEF Logical!Gather
    <3> QED BY <2>2, <3>1 DEF Logical!Next
  <2>6. CASE outcome' = "read"
    <3>1. Append(<<>>, Ids(accumulatedFields')) = <<Ids(accumulatedFields')>>
      OBVIOUS
    <3>2. Logical!Judge(Ids(F))
      BY <2>3, <2>4, <2>6, <3>1 DEF Logical!Judge
    <3> QED BY <2>2, <3>2 DEF Logical!Next
  <2> QED BY <2>4, <2>5, <2>6
<1> QED BY <1>2, <1>3, <1>4 DEF Next, Failing

\* The header is the first logical row of the file: no field of it is lost,
\* repeated or out of its order, on however many lines it stands.
THEOREM HeaderRefinesRow == Spec => HeaderIsALogicalRow
<1>1. IInv /\ [Next]_vars => [Logical!Next]_Logical!vars
  BY RefinesStep
<1> QED BY <1>1, RefinesInit, HeaderInvariant, PTL
        DEF Spec, HeaderIsALogicalRow, Logical!Spec
=============================================================================
