------------------------- MODULE FileValidatorProofs ------------------------
(***************************************************************************)
(* Proofs about the loop over the data rows: comments reach their fields,  *)
(* rows are accounted for, the limit on errors is exact, errors name their *)
(* row, '#' lines are fatal only inside one, and the loop implements the   *)
(* abstract logical rows.                                                  *)
(*                                                                         *)
(* None of these is inductive.  IInv adds where comments are between two   *)
(* rows (Counted, of the line skipper), that rows stand on lines of their  *)
(* own and in order, that the loop is within a row exactly if fields are   *)
(* gathered, from which row each of them came, and for every error which   *)
(* rows it was found in and that the limit was not passed before it.       *)
(***************************************************************************)
EXTENDS FileValidator, PhysicalLinesProofs, FiniteSetTheorems

FieldRecs == [line : Nat \ {0}, col : 1..MaxWidth, comments : Int8s]
RowCodes == {"column count mismatch", "duplicate annotation", "invalid value"}
ErrorCodes == RowCodes \cup {"annotation after trailing comma", "csv parse error",
                             "field too large", "max errors reached"}
ErrorRecs == [row : Nat, code : ErrorCodes, fatal : BOOLEAN]

-----------------------------------------------------------------------------
(* The fields of a row, and the errors found in them.                      *)

LEMMA FieldsOfType ==
  ASSUME NEW row \in RowRecs, NEW n \in Int
  PROVE  /\ FieldsOf(row, n) \in Seq(FieldRecs)
         /\ Len(FieldsOf(row, n)) = row.width /\ row.width \in 1..MaxWidth
         /\ \A i \in 1..row.width :
              /\ FieldsOf(row, n)[i].line = row.line
              /\ FieldsOf(row, n)[i].col = i
              /\ FieldsOf(row, n)[i].comments = IF i = 1 THEN Int8(row.inline + n) ELSE 0
<1>1. /\ row.width \in 1..MaxWidth /\ row.width \in Nat /\ MaxWidth \in Nat
      /\ row.line \in Nat \ {0} /\ row.inline \in Int
  BY LineAssumption DEF RowRecs, RowTypes, Int8s
<1>2. Int8(row.inline + n) \in Int8s /\ 0 \in Int8s
  BY <1>1, Int8Range, LineAssumption DEF Int8s
<1>3. ASSUME NEW i \in 1..row.width
      PROVE  [line |-> row.line, col |-> i,
              comments |-> IF i = 1 THEN Int8(row.inline + n) ELSE 0] \in FieldRecs
  <2>1. i \in 1..MaxWidth
    BY <1>1
  <2> QED BY <1>1, <1>2, <2>1 DEF FieldRecs
<1>4. FieldsOf(row, n) \in [1..row.width -> FieldRecs]
  BY <1>3 DEF FieldsOf
<1>5. FieldsOf(row, n) \in Seq(FieldRecs) /\ Len(FieldsOf(row, n)) = row.width
  BY <1>1, <1>4, FunctionIsSeq
<1> QED BY <1>1, <1>5 DEF FieldsOf

LEMMA TooManyCommentsCount ==
  ASSUME NEW fs \in Seq(FieldRecs)
  PROVE  /\ Cardinality(TooManyComments(fs)) \in Nat
         /\ Cardinality(TooManyComments(fs)) # 0 => TooManyComments(fs) # {}
<1>1. IsFiniteSet(1..Len(fs)) /\ TooManyComments(fs) \in SUBSET (1..Len(fs))
  BY FS_Interval DEF TooManyComments
<1>2. IsFiniteSet(TooManyComments(fs))
  BY <1>1, FS_Subset
<1> QED BY <1>2, FS_CardinalityType, FS_EmptySet

LEMMA ValidateRowType ==
  ASSUME NEW fs \in Seq(FieldRecs), NEW line \in Nat, NEW errs \in ValidateRow(fs, line)
  PROVE  /\ errs \in Seq(ErrorRecs)
         /\ \A i \in 1..Len(errs) : /\ errs[i].row = line /\ ~errs[i].fatal
                                    /\ errs[i].code \in RowCodes
                                    /\ BrokenBy(errs[i].code, fs)
<1>1. \A code \in RowCodes : Error(line, code) \in ErrorRecs
  BY DEF Error, ErrorRecs, ErrorCodes
<1>2. \A code : /\ Error(line, code).row = line /\ Error(line, code).code = code
                /\ ~Error(line, code).fatal
  BY DEF Error
<1>3. CASE Len(fs) # Columns
  <2> DEFINE e == Error(line, "column count mismatch")
  <2>1. errs = <<e>>
    BY <1>3 DEF ValidateRow
  <2>2. BrokenBy("column count mismatch", fs)
    BY <1>3 DEF BrokenBy
  <2>3. "column count mismatch" \in RowCodes
    BY DEF RowCodes
  <2>4. e \in ErrorRecs
    BY <1>1, <2>3
  <2>5. e.row = line /\ e.code = "column count mismatch" /\ ~e.fatal
    BY <1>2
  <2> HIDE DEF e
  <2>6. errs \in Seq(ErrorRecs) /\ Len(errs) = 1 /\ errs[1] = e
    BY <2>1, <2>4
  <2>7. \A i \in 1..Len(errs) : errs[i] = e
    BY <2>6
  <2> QED BY <2>2, <2>3, <2>5, <2>6, <2>7
<1>4. CASE Len(fs) = Columns
  <2> DEFINE c == Cardinality(TooManyComments(fs))
  <2>1. PICK n \in 0..MaxInvalid :
          errs = [i \in 1..c |-> Error(line, "duplicate annotation")]
                   \o [i \in 1..n |-> Error(line, "invalid value")]
    BY <1>4 DEF ValidateRow
  <2>2. n \in Nat /\ c \in Nat /\ (c # 0 => TooManyComments(fs) # {})
    BY TooManyCommentsCount, ValidatorAssumption
  <2> HIDE DEF c
  <2> DEFINE s == [i \in 1..c |-> Error(line, "duplicate annotation")]
             t == [i \in 1..n |-> Error(line, "invalid value")]
  <2>3. "duplicate annotation" \in RowCodes /\ "invalid value" \in RowCodes
    BY DEF RowCodes
  <2>4. /\ s \in Seq(ErrorRecs) /\ Len(s) = c
        /\ t \in Seq(ErrorRecs) /\ Len(t) = n
    BY <1>1, <2>2, <2>3, FunctionIsSeq
  <2>5. /\ \A i \in 1..c : s[i] = Error(line, "duplicate annotation")
        /\ \A i \in 1..n : t[i] = Error(line, "invalid value")
    OBVIOUS
  <2>6. errs = s \o t
    BY <2>1
  <2> HIDE DEF s, t
  <2>7. ASSUME NEW i \in 1..Len(errs)
        PROVE  \/ errs[i] = Error(line, "duplicate annotation") /\ c # 0
               \/ errs[i] = Error(line, "invalid value")
    <3>1. CASE i <= c
      <4>1. i \in 1..c /\ c # 0 /\ i \in 1..Len(s)
        BY <2>2, <2>4, <3>1
      <4>2. (s \o t)[i] = s[i]
        BY <2>4, <4>1, ConcatElements
      <4> QED BY <2>5, <2>6, <4>1, <4>2
    <3>2. CASE ~(i <= c)
      <4>1. i > Len(s) /\ s \in Seq(ErrorRecs) /\ t \in Seq(ErrorRecs)
        BY <2>2, <2>4, <3>2
      <4>2. i - Len(s) \in 1..Len(t) /\ (s \o t)[i] = t[i - Len(s)]
        BY <2>6, <4>1, ConcatElements
      <4> QED BY <2>4, <2>5, <2>6, <4>2
    <3> QED BY <3>1, <3>2
  <2>8. BrokenBy("invalid value", fs) /\ (c # 0 => BrokenBy("duplicate annotation", fs))
    BY <1>4, <2>2 DEF BrokenBy
  <2>9. errs \in Seq(ErrorRecs)
    BY <2>4, <2>6, ConcatElements
  <2> QED BY <1>2, <2>3, <2>7, <2>8, <2>9
<1> QED BY <1>3, <1>4

\* What is appended, and that it stays below the limit or stops at it.
LEMMA AppendedType ==
  ASSUME NEW c \in Seq(ErrorRecs), NEW errs \in Seq(ErrorRecs),
         MaxErrors > 0 => Len(c) < MaxErrors
  PROVE  /\ Appended(c, errs) \in Seq(ErrorRecs)
         /\ Len(c) <= Len(Appended(c, errs))
         /\ \A i \in 1..Len(c) : Appended(c, errs)[i] = c[i]
         /\ \A i \in 1..Len(Appended(c, errs)) :
              i > Len(c) => /\ i - Len(c) \in 1..Len(errs)
                            /\ Appended(c, errs)[i] = errs[i - Len(c)]
         /\ Stops(c, errs) => MaxErrors > 0 /\ Len(Appended(c, errs)) = MaxErrors
         /\ ~Stops(c, errs) => (MaxErrors > 0 => Len(Appended(c, errs)) < MaxErrors)
<1>1. MaxErrors \in Nat /\ Len(c) \in Nat /\ Len(errs) \in Nat
  BY ValidatorAssumption
<1>2. CASE Stops(c, errs)
  <2> DEFINE n == MaxErrors - Len(c)
             t == SubSeq(errs, 1, n)
  <2>1. MaxErrors > 0 /\ Len(c) + Len(errs) >= MaxErrors /\ Len(c) < MaxErrors
    BY <1>2 DEF Stops
  <2>2. n \in Nat /\ n >= 1 /\ n <= Len(errs) /\ Len(c) + n = MaxErrors
    BY <1>1, <2>1
  <2>3. Appended(c, errs) = c \o t
    BY <1>2 DEF Appended
  <2> HIDE DEF n
  <2>4. \A i \in 1..n : i \in 1..Len(errs) /\ errs[i] \in ErrorRecs /\ 1 + i - 1 = i
    BY <1>1, <2>2, ElementOfSeq
  <2>5. t \in Seq(ErrorRecs) /\ Len(t) = n /\ \A i \in 1..n : t[i] = errs[i]
    <3>1. /\ t \in Seq(ErrorRecs) /\ Len(t) = IF 1 <= n THEN n - 1 + 1 ELSE 0
          /\ \A i \in 1..(n - 1 + 1) : t[i] = errs[1 + i - 1]
      BY <2>2, <2>4, SubSeqProperties
    <3>2. n - 1 + 1 = n
      BY <2>2
    <3> QED BY <2>2, <2>4, <3>1, <3>2
  <2> HIDE DEF t
  <2>6. /\ c \o t \in Seq(ErrorRecs) /\ Len(c \o t) = Len(c) + n
        /\ \A i \in 1..Len(c) : (c \o t)[i] = c[i]
        /\ \A i \in 1..Len(c \o t) : i > Len(c) => /\ i - Len(c) \in 1..n
                                                   /\ (c \o t)[i] = t[i - Len(c)]
    <3>1. /\ c \o t \in Seq(ErrorRecs) /\ Len(c \o t) = Len(c) + Len(t)
          /\ \A i \in 1..Len(c) : (c \o t)[i] = c[i]
          /\ \A i \in 1..Len(c \o t) : i > Len(c) => /\ i - Len(c) \in 1..Len(t)
                                                     /\ (c \o t)[i] = t[i - Len(c)]
      <4>1. t \in Seq(ErrorRecs)
        BY <2>5
      <4> QED BY <4>1, ConcatElements
    <3>2. Len(t) = n
      BY <2>5
    <3> QED BY <3>1, <3>2
  <2> QED BY <1>1, <1>2, <2>1, <2>2, <2>3, <2>4, <2>5, <2>6
<1>3. CASE ~Stops(c, errs)
  <2>1. Appended(c, errs) = c \o errs
    BY <1>3 DEF Appended
  <2>2. /\ c \o errs \in Seq(ErrorRecs) /\ Len(c \o errs) = Len(c) + Len(errs)
        /\ \A i \in 1..Len(c) : (c \o errs)[i] = c[i]
        /\ \A i \in 1..Len(c \o errs) :
             i > Len(c) => i - Len(c) \in 1..Len(errs) /\ (c \o errs)[i] = errs[i - Len(c)]
    BY ConcatElements
  <2>3. MaxErrors > 0 => Len(c) + Len(errs) < MaxErrors
    <3>1. CASE errs = <<>>
      <4>1. Len(errs) = 0
        BY <3>1
      <4> QED BY <1>1, <4>1
    <3>2. CASE errs # <<>>
      BY <1>1, <1>3, <3>2 DEF Stops
    <3> QED BY <3>1, <3>2
  <2>4. Len(c) <= Len(c) + Len(errs)
    BY <1>1
  <2> QED BY <1>3, <2>1, <2>2, <2>3, <2>4
<1> QED BY <1>2, <1>3

-----------------------------------------------------------------------------
(* The parts of the inductive invariant.                                   *)

Results == [given : BOOLEAN, valid : BOOLEAN, errors : Seq(ErrorRecs), rowsScanned : Nat]

TypeInv ==
  /\ LineInv /\ ~headerMode /\ read.version = 0
  /\ contFields \in Seq(FieldRecs) /\ contStartLine \in Nat /\ inContinuation \in BOOLEAN
  /\ validationErrors \in Seq(ErrorRecs) /\ rowsScanned \in Nat
  /\ judged \in Seq(Seq(FieldRecs)) /\ handled \in Seq(RowRecs)
  /\ result \in Results /\ (~result.given => result = NoResult)

\* The rows handled stand on lines of their own, in order, and before the row
\* that is out; the counters count the comments since.
PositionInv ==
  /\ ~result.given => Counted /\ NotBegun
  /\ rowsScanned < read.row /\ (nextRow = "row" => rowsScanned + 1 < read.row)
  /\ contStartLine <= rowStartLine /\ contStartLine <= LinesRead
  /\ nextRow = "row" => contStartLine < rawRow.line
  /\ \A h \in 1..Len(handled) :
       /\ handled[h].line <= rowStartLine /\ handled[h].line <= LinesRead
       /\ nextRow = "row" => handled[h].line < rawRow.line
  /\ \A g, h \in 1..Len(handled) : g < h => handled[g].line < handled[h].line

\* The row under way is the one the last trailing comma left open.
ContInv ==
  /\ inContinuation => Len(contFields) > 0 /\ contFields[1].line = contStartLine
  /\ ~inContinuation => contFields = <<>>
  /\ ~result.given /\ Len(handled) > 0 => (handled[Len(handled)].trailing <=> inContinuation)

\* Each field of a row comes from a row handled, with the comments counted for
\* it there, and no '#' line the counter can tell stands within the row.
Kept(fs, rows) ==
  \A i \in 1..Len(fs) : \E h \in 1..Len(rows) :
    /\ rows[h].line = fs[i].line
    /\ fs[i].comments = IF fs[i].col > 1 THEN 0
                        ELSE Int8(rows[h].inline + IF i = 1 THEN 0 ELSE rows[h].above.note)
    /\ fs[i].line # fs[1].line => rows[h].above.hash \notin 1..MaxInt8

FieldInv == /\ Kept(contFields, handled)
            /\ \A r \in 1..Len(judged) : Len(judged[r]) > 0 /\ Kept(judged[r], handled)

\* An error collected is about a row handled, or one judged.
Found(e, rows, rowsJudged) ==
  /\ ~e.fatal
  /\ \/ /\ e.code = "annotation after trailing comma"
        /\ \E h \in 1..Len(rows) : rows[h].line = e.row /\ rows[h].onlyNotes
     \/ /\ e.code \in RowCodes
        /\ \E r \in 1..Len(rowsJudged) : /\ Len(rowsJudged[r]) > 0
                                         /\ rowsJudged[r][1].line = e.row
                                         /\ BrokenBy(e.code, rowsJudged[r])
ErrorInv == \A i \in 1..Len(validationErrors) : Found(validationErrors[i], handled, judged)

\* The errors returned are those collected, or fatal.
FatalHere(e) ==
  /\ e.fatal /\ e.row <= LinesRead + 1
  /\ IF e.code = "max errors reached" THEN LineReleased \/ e.row = LimitLine
     ELSE Len(handled) > 0 => e.row >= IF inContinuation THEN contStartLine
                                       ELSE handled[Len(handled)].line
ResultInv ==
  \A i \in 1..Len(result.errors) :
    \/ \E j \in 1..Len(validationErrors) : result.errors[i] = validationErrors[j]
    \/ FatalHere(result.errors[i])

CountInv ==
  /\ ~result.given => rowsScanned = Len(judged)
  /\ Ended = "well" => /\ result.rowsScanned = Len(judged)
                       /\ result.valid <=> validationErrors = <<>>
                       /\ handled # <<>> => ~handled[Len(handled)].trailing

IInv == /\ TypeInv /\ PositionInv /\ ContInv /\ FieldInv
        /\ ErrorInv /\ ResultInv /\ LimitIsExact /\ CountInv

-----------------------------------------------------------------------------
(* What the steps of the loop do.                                          *)

LEMMA TurnStep ==
  ASSUME TypeInv, NEW kinds, Turn(kinds)
  PROVE  /\ ~result.given /\ nextRow \in kinds
         /\ LineInv' /\ nextRow' = "reading"
         /\ UNCHANGED <<read, rowStartLine, headerMode>> /\ LinesRead' = LinesRead
         /\ nextRow = "row" => Counted' /\ NotBegun'
<1>1. /\ ~result.given /\ nextRow \in kinds
      /\ UNCHANGED <<read, rowStartLine, headerMode, headerCommentAttachWindow,
                     headerAttachableCommentLines, fieldCommentBlocks, above>>
      /\ skippedCommentLines' = 0 /\ skippedStandaloneComments' = 0
      /\ nextRow' = "reading" /\ rawRow' = NoRow
  BY DEF Turn, ReadCounters, ReleaseRow
<1>2. LinesRead' = LinesRead /\ LinesRead \in Nat
  BY <1>1, LinesReadType DEF LinesRead, TypeInv, LineInv, LinesTypeOK
<1>3. 0 \in Int8s /\ rawRow'.line \in 0..LinesRead
  BY <1>1, <1>2, LineAssumption DEF Int8s, NoRow
<1>4. LinesTypeOK'
  BY <1>1, <1>2, <1>3 DEF TypeInv, LineInv, LinesTypeOK, NextRowResults, Int8s
<1>5. LineInv'
  BY <1>1, <1>2, <1>4 DEF TypeInv, LineInv
<1>6. ASSUME nextRow = "row" PROVE Counted' /\ NotBegun'
  <2>1. above = NothingAbove /\ rowStartLine = LinesRead
    BY <1>6 DEF TypeInv, LineInv, RowIsOut
  <2>2. Passed' = NothingAbove
    BY <1>1, <2>1 DEF Passed
  <2>3. Int8(0) = 0
    BY <1>3, Int8Identity
  <2> QED BY <1>1, <1>2, <2>1, <2>2, <2>3 DEF Counted, NotBegun, NothingAbove
<1> QED BY <1>1, <1>2, <1>5, <1>6

LEMMA RowTurnStep ==
  ASSUME TypeInv, RowTurn
  PROVE  /\ ~result.given /\ nextRow = "row" /\ RowIsOut
         /\ LineInv' /\ nextRow' = "reading" /\ Counted' /\ NotBegun'
         /\ UNCHANGED <<read, rowStartLine, headerMode>> /\ LinesRead' = LinesRead
         /\ handled' \in Seq(RowRecs) /\ Continues(handled', handled)
         /\ Len(handled') = Len(handled) + 1 /\ handled'[Len(handled) + 1] = rawRow
<1>1. Turn({"row"}) /\ handled' = Append(handled, rawRow)
  BY DEF RowTurn
<1>2. nextRow = "row" /\ RowIsOut
  BY <1>1, TurnStep DEF TypeInv, LineInv
<1>3. handled \in Seq(RowRecs) /\ rawRow \in RowRecs
  BY <1>2 DEF TypeInv, RowIsOut
<1> QED BY <1>1, <1>2, <1>3, TurnStep, AppendContinues

Below == MaxErrors > 0 => Len(validationErrors) < MaxErrors

LEMMA BelowLimit ==
  ASSUME TypeInv, LimitIsExact, ~result.given
  PROVE  Below
<1>1. MaxErrors \in Nat /\ Len(validationErrors) \in Nat
  BY ValidatorAssumption DEF TypeInv
<1>2. MaxErrors > 0 => /\ Len(validationErrors) <= MaxErrors
                       /\ Len(validationErrors) # MaxErrors
  BY DEF LimitIsExact
<1> QED BY <1>1, <1>2 DEF Below

\* A row is judged: the errors found in it, and whether the limit is reached.
Judged(fs, line, limitLine) ==
  /\ validationErrors' \in Seq(ErrorRecs) /\ Continues(validationErrors', validationErrors)
  /\ \A i \in 1..Len(validationErrors') : i > Len(validationErrors) =>
       LET e == validationErrors'[i]
       IN  /\ e.row = line /\ ~e.fatal /\ e.code \in RowCodes /\ BrokenBy(e.code, fs)
  /\ judged' \in Seq(Seq(FieldRecs)) /\ Continues(judged', judged)
  /\ Len(judged') = Len(judged) + 1 /\ judged'[Len(judged) + 1] = fs
  /\ \/ /\ result' = StoppedAt(limitLine, validationErrors') /\ UNCHANGED rowsScanned
        /\ MaxErrors > 0 /\ Len(validationErrors') = MaxErrors
     \/ /\ rowsScanned' = rowsScanned + 1 /\ UNCHANGED result
        /\ Below'

LEMMA JudgeStep ==
  ASSUME TypeInv, Below, NEW fs \in Seq(FieldRecs), NEW line \in Nat, NEW limitLine \in Nat,
         Judge(validationErrors, fs, line, limitLine)
  PROVE  Judged(fs, line, limitLine)
<1> DEFINE c == validationErrors
<1>1. PICK errs \in ValidateRow(fs, line) :
        /\ validationErrors' = Appended(c, errs)
        /\ IF Stops(c, errs)
           THEN result' = StoppedAt(limitLine, validationErrors') /\ UNCHANGED rowsScanned
           ELSE rowsScanned' = rowsScanned + 1 /\ UNCHANGED result
        /\ judged' = Append(judged, fs)
  BY DEF Judge
<1>2. /\ errs \in Seq(ErrorRecs)
      /\ \A i \in 1..Len(errs) : /\ errs[i].row = line /\ ~errs[i].fatal
                                 /\ errs[i].code \in RowCodes
                                 /\ BrokenBy(errs[i].code, fs)
  BY ValidateRowType
<1>3. c \in Seq(ErrorRecs) /\ (MaxErrors > 0 => Len(c) < MaxErrors)
  BY DEF TypeInv, Below
<1>4. /\ Appended(c, errs) \in Seq(ErrorRecs)
      /\ Len(c) <= Len(Appended(c, errs))
      /\ \A i \in 1..Len(c) : Appended(c, errs)[i] = c[i]
      /\ \A i \in 1..Len(Appended(c, errs)) :
           i > Len(c) => /\ i - Len(c) \in 1..Len(errs)
                         /\ Appended(c, errs)[i] = errs[i - Len(c)]
      /\ Stops(c, errs) => MaxErrors > 0 /\ Len(Appended(c, errs)) = MaxErrors
      /\ ~Stops(c, errs) => (MaxErrors > 0 => Len(Appended(c, errs)) < MaxErrors)
  <2> HIDE DEF c
  <2> QED BY <1>2, <1>3, AppendedType
<1>5. /\ judged' \in Seq(Seq(FieldRecs)) /\ Continues(judged', judged)
      /\ Len(judged') = Len(judged) + 1 /\ judged'[Len(judged) + 1] = fs
  BY <1>1, AppendContinues DEF TypeInv
<1>6. ASSUME NEW i \in 1..Len(validationErrors'), i > Len(c)
      PROVE  LET e == validationErrors'[i]
             IN  e.row = line /\ ~e.fatal /\ e.code \in RowCodes /\ BrokenBy(e.code, fs)
  BY <1>1, <1>2, <1>4, <1>6
<1>7. CASE Stops(c, errs)
  BY <1>1, <1>4, <1>5, <1>6, <1>7 DEF Judged, Continues
<1>8. CASE ~Stops(c, errs)
  BY <1>1, <1>4, <1>5, <1>6, <1>8 DEF Judged, Continues, Below
<1> QED BY <1>7, <1>8

\* The annotation behind a trailing comma.
LEMMA CollectedStep ==
  ASSUME TypeInv, Below, RowIsOut
  PROVE  /\ Collected \in Seq(ErrorRecs) /\ Continues(Collected, validationErrors)
         /\ \A i \in 1..Len(Collected) : i > Len(validationErrors) =>
              LET e == Collected[i]
              IN  /\ e.row = rawRow.line /\ ~e.fatal /\ rawRow.onlyNotes
                  /\ e.code = "annotation after trailing comma"
         /\ Stops(validationErrors, AfterComma) =>
              MaxErrors > 0 /\ Len(Collected) = MaxErrors /\ rawRow.onlyNotes
         /\ ~Stops(validationErrors, AfterComma) => (MaxErrors > 0 => Len(Collected) < MaxErrors)
<1> DEFINE c == validationErrors
<1>1. c \in Seq(ErrorRecs) /\ Len(c) \in Nat /\ MaxErrors \in Nat
  BY ValidatorAssumption DEF TypeInv
<1>2. CASE rawRow.onlyNotes
  <2> DEFINE e == Error(rawRow.line, "annotation after trailing comma")
  <2>1. e \in ErrorRecs /\ e.row = rawRow.line /\ ~e.fatal
        /\ e.code = "annotation after trailing comma"
    BY DEF Error, ErrorRecs, ErrorCodes, RowIsOut, RowRecs, RowTypes
  <2>2. AfterComma = <<e>>
    BY <1>2 DEF AfterComma
  <2> HIDE DEF e
  <2>3. <<e>> \in Seq(ErrorRecs) /\ Len(<<e>>) = 1 /\ <<e>>[1] = e
    <3>1. e \in ErrorRecs
      BY <2>1
    <3> QED BY <3>1
  <2>4. Collected = c \o <<e>>
    BY <2>2 DEF Collected
  <2>5. /\ Collected \in Seq(ErrorRecs) /\ Len(Collected) = Len(c) + Len(<<e>>)
        /\ \A i \in 1..Len(c) : Collected[i] = c[i]
        /\ \A i \in 1..Len(Collected) : i > Len(c) => /\ i - Len(c) \in 1..Len(<<e>>)
                                                     /\ Collected[i] = <<e>>[i - Len(c)]
    BY <1>1, <2>3, <2>4, ConcatElements
  <2>6. /\ Len(Collected) = Len(c) + 1 /\ Len(c) <= Len(Collected)
        /\ \A i \in 1..Len(Collected) : i > Len(c) => Collected[i] = e
    BY <1>1, <2>3, <2>5
  <2>7. Stops(c, AfterComma) <=> MaxErrors > 0 /\ Len(c) + 1 >= MaxErrors
    <3>1. <<e>> # <<>>
      OBVIOUS
    <3> QED BY <2>2, <2>3, <3>1 DEF Stops
  <2>8. Stops(c, AfterComma) => MaxErrors > 0 /\ Len(Collected) = MaxErrors
    BY <1>1, <2>6, <2>7 DEF Below
  <2>9. ~Stops(c, AfterComma) => (MaxErrors > 0 => Len(Collected) < MaxErrors)
    BY <1>1, <2>6, <2>7
  <2> QED BY <1>2, <2>1, <2>5, <2>6, <2>8, <2>9 DEF Continues
<1>3. CASE ~rawRow.onlyNotes
  <2>1. AfterComma = <<>> /\ ~Stops(c, AfterComma)
    BY <1>3 DEF AfterComma, Stops
  <2>2. Collected = c
    BY <1>1, <2>1, ConcatEmptySeq DEF Collected
  <2>3. Len(c) <= Len(c) /\ \A i \in 1..Len(c) : ~(i > Len(c))
    BY <1>1
  <2>4. Continues(Collected, c)
    BY <2>2, <2>3 DEF Continues
  <2>5. ~Stops(c, AfterComma) => (MaxErrors > 0 => Len(Collected) < MaxErrors)
    BY <2>2 DEF Below
  <2> QED BY <1>1, <2>1, <2>2, <2>3, <2>4, <2>5
<1> QED BY <1>2, <1>3

\* The results of the loop.
LEMMA StoppedResult ==
  ASSUME NEW line \in Nat, NEW c \in Seq(ErrorRecs), rowsScanned \in Nat
  PROVE  LET res == StoppedAt(line, c)
         IN  /\ res \in Results /\ res.given /\ ~res.valid
             /\ Len(res.errors) = Len(c) + 1 /\ Continues(res.errors, c)
             /\ res.errors[Len(c) + 1] = FatalError(line, "max errors reached")
<1>1. FatalError(line, "max errors reached") \in ErrorRecs
  BY DEF FatalError, ErrorRecs, ErrorCodes
<1>2. rowsScanned + 1 \in Nat
  OBVIOUS
<1> QED BY <1>1, <1>2, AppendContinues DEF StoppedAt, Results

LEMMA FatalResult ==
  ASSUME TypeInv, NEW line \in Nat, NEW code \in ErrorCodes, Fatal(line, code)
  PROVE  /\ result' \in Results /\ result'.given /\ ~result'.valid
         /\ Len(result'.errors) = 1 /\ result'.errors[1] = FatalError(line, code)
<1> DEFINE e == FatalError(line, code)
<1>1. e \in ErrorRecs
  BY DEF FatalError, ErrorRecs
<1>2. result' = [given |-> TRUE, valid |-> FALSE, errors |-> <<e>>, rowsScanned |-> rowsScanned]
  BY DEF Fatal
<1> HIDE DEF e
<1>3. <<e>> \in Seq(ErrorRecs) /\ Len(<<e>>) = 1 /\ <<e>>[1] = e
  BY <1>1
<1> QED BY <1>2, <1>3 DEF Results, TypeInv, e

-----------------------------------------------------------------------------
(* The fields gathered.                                                    *)

\* The ( ) lines counted for the row that is out.
NotesAbove == IF inContinuation THEN skippedStandaloneComments ELSE 0

LEMMA NewFields ==
  ASSUME TypeInv, RowIsOut
  PROVE  /\ NotesAbove \in Int /\ rawRow \in RowRecs
         /\ Gathered = contFields \o FieldsOf(rawRow, NotesAbove)
         /\ FieldsOf(rawRow, NotesAbove) \in Seq(FieldRecs)
         /\ Len(FieldsOf(rawRow, NotesAbove)) = rawRow.width
         /\ rawRow.width \in Nat /\ rawRow.width >= 1
         /\ Gathered \in Seq(FieldRecs)
         /\ Len(Gathered) = Len(contFields) + rawRow.width
         /\ \A i \in 1..Len(contFields) : Gathered[i] = contFields[i]
         /\ \A i \in 1..Len(Gathered) : i > Len(contFields) =>
              LET k == i - Len(contFields)
              IN  /\ k \in 1..rawRow.width
                  /\ Gathered[i].line = rawRow.line /\ Gathered[i].col = k
                  /\ Gathered[i].comments = IF k = 1 THEN Int8(rawRow.inline + NotesAbove) ELSE 0
<1> DEFINE F == FieldsOf(rawRow, NotesAbove)
<1>1. rawRow \in RowRecs
  BY DEF RowIsOut
<1>2. NotesAbove \in Int
  BY LineAssumption DEF TypeInv, LineInv, LinesTypeOK, NotesAbove
<1>3. /\ F \in Seq(FieldRecs) /\ Len(F) = rawRow.width
      /\ rawRow.width \in 1..MaxWidth
      /\ \A i \in 1..rawRow.width :
           /\ F[i].line = rawRow.line /\ F[i].col = i
           /\ F[i].comments = IF i = 1 THEN Int8(rawRow.inline + NotesAbove) ELSE 0
  BY <1>1, <1>2, FieldsOfType
<1>4. rawRow.width \in Nat /\ rawRow.width >= 1
  BY <1>3, LineAssumption
<1>5. Gathered = contFields \o F
  BY DEF Gathered, NotesAbove
<1> HIDE DEF F
<1>6. contFields \in Seq(FieldRecs)
  BY DEF TypeInv
<1>7. /\ Gathered \in Seq(FieldRecs) /\ Len(Gathered) = Len(contFields) + Len(F)
      /\ \A i \in 1..Len(contFields) : Gathered[i] = contFields[i]
      /\ \A i \in 1..Len(Gathered) : i > Len(contFields) =>
           i - Len(contFields) \in 1..Len(F) /\ Gathered[i] = F[i - Len(contFields)]
  <2>1. F \in Seq(FieldRecs)
    BY <1>3
  <2> QED BY <1>5, <1>6, <2>1, ConcatElements
<1>8. ASSUME NEW i \in 1..Len(Gathered), i > Len(contFields)
      PROVE  LET k == i - Len(contFields)
             IN  /\ k \in 1..rawRow.width
                 /\ Gathered[i].line = rawRow.line /\ Gathered[i].col = k
                 /\ Gathered[i].comments = IF k = 1 THEN Int8(rawRow.inline + NotesAbove) ELSE 0
  <2>1. i - Len(contFields) \in 1..Len(F) /\ Gathered[i] = F[i - Len(contFields)]
    BY <1>7, <1>8
  <2> QED BY <1>3, <2>1
<1>9. Len(Gathered) = Len(contFields) + rawRow.width
  BY <1>3, <1>7
<1> QED BY <1>1, <1>2, <1>3, <1>4, <1>5, <1>7, <1>8, <1>9 DEF F

LEMMA SingleRowFields ==
  ASSUME TypeInv, RowIsOut
  PROVE  /\ FieldsOf(rawRow, 0) \in Seq(FieldRecs) /\ rawRow.line \in Nat
         /\ Len(FieldsOf(rawRow, 0)) = rawRow.width /\ rawRow.width \in Nat /\ rawRow.width >= 1
         /\ \A i \in 1..rawRow.width :
              /\ FieldsOf(rawRow, 0)[i].line = rawRow.line
              /\ FieldsOf(rawRow, 0)[i].col = i
              /\ FieldsOf(rawRow, 0)[i].comments = IF i = 1 THEN Int8(rawRow.inline + 0) ELSE 0
<1>1. rawRow \in RowRecs
  BY DEF RowIsOut
<1>2. rawRow.line \in Nat
  BY <1>1 DEF RowRecs, RowTypes
<1>3. /\ FieldsOf(rawRow, 0) \in Seq(FieldRecs)
      /\ Len(FieldsOf(rawRow, 0)) = rawRow.width /\ rawRow.width \in 1..MaxWidth
      /\ \A i \in 1..rawRow.width :
           /\ FieldsOf(rawRow, 0)[i].line = rawRow.line
           /\ FieldsOf(rawRow, 0)[i].col = i
           /\ FieldsOf(rawRow, 0)[i].comments = IF i = 1 THEN Int8(rawRow.inline + 0) ELSE 0
  BY <1>1, FieldsOfType
<1>4. rawRow.width \in Nat /\ rawRow.width >= 1
  BY <1>3, LineAssumption
<1> QED BY <1>2, <1>3, <1>4

-----------------------------------------------------------------------------
(* The effect of each action, in the terms of the invariant.               *)

LEMMA StopAtAnnotationEffect ==
  ASSUME TypeInv, Below, StopAtAnnotation
  PROVE  /\ RowTurn /\ RowIsOut /\ rawRow.onlyNotes
         /\ validationErrors' = Collected
         /\ MaxErrors > 0 /\ Len(validationErrors') = MaxErrors
         /\ result' = StoppedAt(rawRow.line, validationErrors') /\ rawRow.line \in Nat
         /\ UNCHANGED <<cont, rowsScanned, judged>>
<1>1. /\ RowTurn /\ Stops(validationErrors, AfterComma)
      /\ validationErrors' = Collected /\ result' = StoppedAt(rawRow.line, Collected)
      /\ UNCHANGED <<cont, rowsScanned, judged>>
  BY DEF StopAtAnnotation
<1>2. RowIsOut /\ rawRow.line \in Nat
  BY <1>1, RowTurnStep DEF RowIsOut, RowRecs, RowTypes
<1> QED BY <1>1, <1>2, CollectedStep

LEMMA SingleRowEffect ==
  ASSUME TypeInv, Below, SingleRow
  PROVE  /\ RowTurn /\ RowIsOut /\ ~inContinuation /\ ~rawRow.trailing
         /\ Judged(FieldsOf(rawRow, 0), rawRow.line, 0)
         /\ UNCHANGED cont
<1>1. /\ RowTurn /\ ~inContinuation /\ ~rawRow.trailing /\ UNCHANGED cont
      /\ Judge(validationErrors, FieldsOf(rawRow, 0), rawRow.line, 0)
  BY DEF SingleRow
<1>2. RowIsOut
  BY <1>1, RowTurnStep
<1> QED BY <1>1, <1>2, SingleRowFields, JudgeStep

LEMMA CommentInRowEffect ==
  ASSUME TypeInv, Below, CommentInRow
  PROVE  /\ RowTurn /\ RowIsOut /\ inContinuation /\ skippedCommentLines > 0
         /\ validationErrors' = Collected /\ Below'
         /\ Fatal(contStartLine, "csv parse error")
         /\ UNCHANGED <<cont, rowsScanned, judged>>
<1>1. /\ RowTurn /\ ~Stops(validationErrors, AfterComma)
      /\ validationErrors' = Collected
      /\ inContinuation /\ skippedCommentLines > 0
      /\ Fatal(contStartLine, "csv parse error")
      /\ UNCHANGED <<cont, rowsScanned, judged>>
  BY DEF CommentInRow, CommentSeen
<1>2. RowIsOut
  BY <1>1, RowTurnStep
<1>3. Below'
  BY <1>1, <1>2, CollectedStep DEF Below
<1> QED BY <1>1, <1>2, <1>3

LEMMA ExtendRowEffect ==
  ASSUME TypeInv, Below, ExtendRow
  PROVE  /\ RowTurn /\ RowIsOut /\ ~CommentSeen /\ rawRow.trailing
         /\ validationErrors' = Collected /\ Below'
         /\ contFields' = Gathered /\ contStartLine' = StartLine /\ inContinuation'
         /\ UNCHANGED <<rowsScanned, result, judged>>
<1>1. /\ RowTurn /\ ~Stops(validationErrors, AfterComma) /\ ~CommentSeen /\ rawRow.trailing
      /\ validationErrors' = Collected
      /\ contFields' = Gathered /\ contStartLine' = StartLine /\ inContinuation' = TRUE
      /\ UNCHANGED <<rowsScanned, result, judged>>
  BY DEF ExtendRow
<1>2. RowIsOut
  BY <1>1, RowTurnStep
<1>3. Below'
  BY <1>1, <1>2, CollectedStep DEF Below
<1> QED BY <1>1, <1>2, <1>3

LEMMA LastLineOfRowEffect ==
  ASSUME TypeInv, Below, LastLineOfRow
  PROVE  /\ RowTurn /\ RowIsOut /\ ~CommentSeen /\ inContinuation /\ ~rawRow.trailing
         /\ Judged(Gathered, contStartLine, contStartLine)
         /\ contFields' = <<>> /\ inContinuation' = FALSE /\ UNCHANGED contStartLine
<1>1. /\ RowTurn /\ ~CommentSeen /\ inContinuation /\ ~rawRow.trailing
      /\ Judge(validationErrors, Gathered, contStartLine, contStartLine)
      /\ contFields' = <<>> /\ inContinuation' = FALSE /\ UNCHANGED contStartLine
  BY DEF LastLineOfRow
<1>2. RowIsOut
  BY <1>1, RowTurnStep
<1>3. Gathered \in Seq(FieldRecs) /\ contStartLine \in Nat
  BY <1>2, NewFields DEF TypeInv
<1> QED BY <1>1, <1>2, <1>3, JudgeStep

\* Every action of the loop that ends it without a row.
Ending == EndOfFile \/ StreamError

WellResult == [given |-> TRUE, valid |-> validationErrors = <<>>,
               errors |-> validationErrors, rowsScanned |-> rowsScanned]

LEMMA EndingEffect ==
  ASSUME TypeInv, Ending
  PROVE  /\ ~result.given /\ nextRow \in {"EOF", "error"} /\ Turn({"EOF", "error"})
         /\ UNCHANGED <<cont, validationErrors, rowsScanned, judged, handled>>
         /\ \/ ~inContinuation /\ result' = WellResult
            \/ inContinuation /\ Fatal(contStartLine, "csv parse error")
            \/ \E code \in {"csv parse error", "field too large"} : Fatal(rowStartLine, code)
<1>1. CASE EndOfFile
  <2>1. /\ Turn({"EOF"}) /\ UNCHANGED <<cont, validationErrors, rowsScanned, judged, handled>>
        /\ \/ ~inContinuation /\ result' = WellResult
           \/ inContinuation /\ Fatal(contStartLine, "csv parse error")
    BY <1>1 DEF EndOfFile, WellResult
  <2>2. Turn({"EOF", "error"}) /\ ~result.given /\ nextRow = "EOF"
    BY <2>1 DEF Turn
  <2> QED BY <2>1, <2>2
<1>2. CASE StreamError
  <2>1. /\ Turn({"error"}) /\ UNCHANGED <<cont, validationErrors, rowsScanned, judged, handled>>
        /\ \E code \in {"csv parse error", "field too large"} : Fatal(rowStartLine, code)
    BY <1>2 DEF StreamError
  <2>2. Turn({"EOF", "error"}) /\ ~result.given /\ nextRow = "error"
    BY <2>1 DEF Turn
  <2> QED BY <2>1, <2>2
<1> QED BY <1>1, <1>2 DEF Ending

LEMMA WellResultType ==
  ASSUME TypeInv
  PROVE  WellResult \in Results
BY DEF TypeInv, WellResult, Results

-----------------------------------------------------------------------------
(* Each part of the invariant is kept.                                     *)

LEMMA JudgedType ==
  ASSUME TypeInv, NEW fs, NEW line, NEW limitLine \in Nat, Judged(fs, line, limitLine)
  PROVE  /\ validationErrors' \in Seq(ErrorRecs) /\ judged' \in Seq(Seq(FieldRecs))
         /\ rowsScanned' \in Nat
         /\ result' = result \/ (result' \in Results /\ result'.given)
<1>1. validationErrors' \in Seq(ErrorRecs) /\ judged' \in Seq(Seq(FieldRecs))
  BY DEF Judged
<1>2. rowsScanned \in Nat
  BY DEF TypeInv
<1>3. CASE result' = StoppedAt(limitLine, validationErrors') /\ UNCHANGED rowsScanned
  BY <1>1, <1>2, <1>3, StoppedResult
<1>4. CASE rowsScanned' = rowsScanned + 1 /\ UNCHANGED result
  BY <1>1, <1>2, <1>4
<1> QED BY <1>3, <1>4 DEF Judged

LEMMA TypeStep ==
  ASSUME TypeInv, ~result.given => Below, Next
  PROVE  TypeInv'
<1>1. /\ contFields \in Seq(FieldRecs) /\ contStartLine \in Nat /\ inContinuation \in BOOLEAN
      /\ validationErrors \in Seq(ErrorRecs) /\ rowsScanned \in Nat
      /\ judged \in Seq(Seq(FieldRecs)) /\ handled \in Seq(RowRecs)
      /\ result \in Results /\ (~result.given => result = NoResult)
      /\ ~headerMode /\ read.version = 0 /\ rowStartLine \in Nat
  BY LinesReadType DEF TypeInv, LineInv, LinesTypeOK
<1>2. CASE ReadLine
  <2>1. NextLine /\ UNCHANGED <<cont, validationErrors, rowsScanned, result, judged, handled>>
    BY <1>2 DEF ReadLine
  <2>2. LineInv' /\ headerMode' = headerMode /\ (~headerMode => read.version' = read.version)
    BY <2>1, NextLineStep DEF TypeInv
  <2> QED BY <1>1, <2>1, <2>2 DEF TypeInv, cont
<1>3. ASSUME RowTurn, Below PROVE /\ LineInv' /\ UNCHANGED <<read, headerMode>> /\ handled' \in Seq(RowRecs)
                           /\ Collected \in Seq(ErrorRecs) /\ Gathered \in Seq(FieldRecs)
                           /\ rawRow.line \in Nat
  <2>1. RowIsOut
    BY <1>3, RowTurnStep
  <2> QED BY <1>3, <2>1, RowTurnStep, CollectedStep, NewFields, SingleRowFields
<1>4. CASE StopAtAnnotation
  <2>1. ~result.given /\ RowTurn /\ Below
    BY <1>4, TurnStep DEF StopAtAnnotation, RowTurn
  <2>2. /\ validationErrors' = Collected /\ rawRow.line \in Nat
        /\ result' = StoppedAt(rawRow.line, validationErrors')
        /\ UNCHANGED <<cont, rowsScanned, judged>>
    BY <1>4, <2>1, StopAtAnnotationEffect
  <2>3. validationErrors' \in Seq(ErrorRecs)
    BY <1>3, <2>1, <2>2
  <2>4. result' \in Results /\ result'.given
    BY <1>1, <2>2, <2>3, StoppedResult
  <2> QED BY <1>1, <1>3, <2>1, <2>2, <2>3, <2>4 DEF TypeInv, cont
<1>5. CASE SingleRow
  <2>1. ~result.given /\ RowTurn /\ Below
    BY <1>5, TurnStep DEF SingleRow, RowTurn
  <2>2. Judged(FieldsOf(rawRow, 0), rawRow.line, 0) /\ UNCHANGED cont
    BY <1>5, <2>1, SingleRowEffect
  <2>3. /\ validationErrors' \in Seq(ErrorRecs) /\ judged' \in Seq(Seq(FieldRecs))
        /\ rowsScanned' \in Nat
        /\ result' = result \/ (result' \in Results /\ result'.given)
    BY <2>2, JudgedType
  <2> QED BY <1>1, <1>3, <2>1, <2>2, <2>3 DEF TypeInv, cont
<1>6. CASE CommentInRow
  <2>1. ~result.given /\ RowTurn /\ Below
    BY <1>6, TurnStep DEF CommentInRow, RowTurn
  <2>2. /\ validationErrors' = Collected /\ Fatal(contStartLine, "csv parse error")
        /\ UNCHANGED <<cont, rowsScanned, judged>>
    BY <1>6, <2>1, CommentInRowEffect
  <2>3. "csv parse error" \in ErrorCodes
    BY DEF ErrorCodes
  <2>4. result' \in Results /\ result'.given
    BY <1>1, <2>2, <2>3, FatalResult
  <2>5. validationErrors' \in Seq(ErrorRecs) /\ UNCHANGED <<cont, rowsScanned, judged>>
    BY <1>3, <2>1, <2>2
  <2>6. LineInv' /\ ~headerMode' /\ read.version' = 0 /\ handled' \in Seq(RowRecs)
    BY <1>1, <1>3, <2>1
  <2> QED BY <1>1, <2>4, <2>5, <2>6 DEF TypeInv, cont
<1>7. CASE ExtendRow
  <2>1. ~result.given /\ RowTurn /\ Below
    BY <1>7, TurnStep DEF ExtendRow, RowTurn
  <2>2. /\ validationErrors' = Collected /\ contFields' = Gathered
        /\ contStartLine' = StartLine /\ UNCHANGED <<rowsScanned, result, judged>>
        /\ inContinuation' = TRUE
    BY <1>7 DEF ExtendRow
  <2>3. StartLine \in Nat
    BY <1>1, <1>3, <2>1 DEF StartLine
  <2> QED BY <1>1, <1>3, <2>1, <2>2, <2>3 DEF TypeInv
<1>8. CASE LastLineOfRow
  <2>1. ~result.given /\ RowTurn /\ Below
    BY <1>8, TurnStep DEF LastLineOfRow, RowTurn
  <2>2. /\ Judged(Gathered, contStartLine, contStartLine)
        /\ contFields' = <<>> /\ inContinuation' = FALSE /\ UNCHANGED contStartLine
    BY <1>8, <2>1, LastLineOfRowEffect
  <2>3. /\ validationErrors' \in Seq(ErrorRecs) /\ judged' \in Seq(Seq(FieldRecs))
        /\ rowsScanned' \in Nat
        /\ result' = result \/ (result' \in Results /\ result'.given)
    BY <1>1, <2>2, JudgedType
  <2>4. <<>> \in Seq(FieldRecs)
    OBVIOUS
  <2>5. contFields' \in Seq(FieldRecs) /\ contStartLine' \in Nat /\ inContinuation' \in BOOLEAN
    BY <1>1, <2>2, <2>4
  <2>6. LineInv' /\ ~headerMode' /\ read.version' = 0 /\ handled' \in Seq(RowRecs)
    BY <1>1, <1>3, <2>1
  <2> QED BY <1>1, <2>1, <2>3, <2>5, <2>6 DEF TypeInv
<1>9. CASE Ending
  <2>1. /\ Turn({"EOF", "error"})
        /\ UNCHANGED <<cont, validationErrors, rowsScanned, judged, handled>>
        /\ \/ result' = WellResult
           \/ Fatal(contStartLine, "csv parse error")
           \/ \E code \in {"csv parse error", "field too large"} : Fatal(rowStartLine, code)
    BY <1>9, EndingEffect
  <2>2. LineInv' /\ UNCHANGED <<read, headerMode>>
    BY <2>1, TurnStep
  <2>3. {"csv parse error", "field too large"} \subseteq ErrorCodes
    BY DEF ErrorCodes
  <2>4. result' \in Results /\ result'.given
    <3>1. CASE result' = WellResult
      BY <3>1, WellResultType DEF WellResult
    <3>2. CASE Fatal(contStartLine, "csv parse error")
      BY <1>1, <2>3, <3>2, FatalResult
    <3>3. CASE \E code \in {"csv parse error", "field too large"} : Fatal(rowStartLine, code)
      BY <1>1, <2>3, <3>3, FatalResult
    <3> QED BY <2>1, <3>1, <3>2, <3>3
  <2> QED BY <1>1, <2>1, <2>2, <2>4 DEF TypeInv, cont
<1> QED BY <1>2, <1>4, <1>5, <1>6, <1>7, <1>8, <1>9 DEF Next, Ending

\* The numbers the positions are compared by.
LEMMA Numbers ==
  ASSUME TypeInv
  PROVE  /\ LinesRead \in Nat /\ read.row \in Nat /\ rowStartLine \in Nat
         /\ contStartLine \in Nat /\ rowsScanned \in Nat /\ Len(handled) \in Nat
         /\ \A h \in 1..Len(handled) : handled[h] \in RowRecs /\ handled[h].line \in Nat
<1>1. /\ LinesRead \in Nat /\ read.row \in Nat /\ rowStartLine \in 0..(LinesRead + 1)
      /\ contStartLine \in Nat /\ rowsScanned \in Nat /\ Len(handled) \in Nat
  BY LinesReadType DEF TypeInv, LineInv, LinesTypeOK
<1>2. \A h \in 1..Len(handled) : handled[h] \in RowRecs
  BY ElementOfSeq DEF TypeInv
<1> QED BY <1>1, <1>2 DEF RowRecs, RowTypes

LEMMA RowPosition ==
  ASSUME TypeInv, PositionInv, RowTurn,
         contStartLine' \in {contStartLine, rawRow.line},
         rowsScanned' \in {rowsScanned, rowsScanned + 1}
  PROVE  PositionInv'
<1>1. /\ nextRow = "row" /\ RowIsOut
      /\ nextRow' = "reading" /\ Counted' /\ NotBegun'
      /\ UNCHANGED <<read, rowStartLine>> /\ LinesRead' = LinesRead
      /\ handled' \in Seq(RowRecs) /\ Continues(handled', handled)
      /\ Len(handled') = Len(handled) + 1 /\ handled'[Len(handled) + 1] = rawRow
  BY RowTurnStep
<1>2. /\ rawRow.line = LinesRead /\ rowStartLine = LinesRead
      /\ contStartLine < rawRow.line /\ rowsScanned + 1 < read.row /\ rowsScanned < read.row
      /\ \A h \in 1..Len(handled) : handled[h].line < rawRow.line
      /\ \A g, h \in 1..Len(handled) : g < h => handled[g].line < handled[h].line
  BY <1>1 DEF RowIsOut, PositionInv
<1>3. \A h \in 1..Len(handled) : handled'[h] = handled[h]
  BY <1>1 DEF Continues
<1>4. /\ LinesRead \in Nat /\ Len(handled) \in Nat /\ read.row \in Nat /\ rowsScanned \in Nat
      /\ \A h \in 1..Len(handled) : handled[h].line \in Nat
  BY Numbers
<1>5. ASSUME NEW h \in 1..Len(handled')
      PROVE  handled'[h].line <= rowStartLine' /\ handled'[h].line <= LinesRead'
  <2>1. h \in 1..Len(handled) \/ h = Len(handled) + 1
    BY <1>1, <1>4
  <2> QED BY <1>1, <1>2, <1>3, <1>4, <2>1
<1>6. ASSUME NEW g \in 1..Len(handled'), NEW h \in 1..Len(handled'), g < h
      PROVE  handled'[g].line < handled'[h].line
  <2>1. g \in 1..Len(handled) /\ (h \in 1..Len(handled) \/ h = Len(handled) + 1)
    BY <1>1, <1>4, <1>6
  <2> QED BY <1>1, <1>2, <1>3, <1>6, <2>1
<1>7. /\ contStartLine' <= rowStartLine' /\ contStartLine' <= LinesRead'
      /\ rowsScanned' < read.row'
  <2>1. contStartLine' <= LinesRead
    BY <1>2, <1>4, Numbers
  <2>2. rowsScanned' < read.row
    BY <1>2
  <2> QED BY <1>1, <1>2, <2>1, <2>2
<1> QED BY <1>1, <1>5, <1>6, <1>7 DEF PositionInv

\* The file is given up, or at its end.
LEMMA Given ==
  ASSUME TypeInv, \/ Below /\ StopAtAnnotation
                  \/ CommentInRow \/ Ending
  PROVE  result'.given
<1>1. CASE Below /\ StopAtAnnotation
  <2>1. result' = StoppedAt(rawRow.line, validationErrors')
    BY <1>1, StopAtAnnotationEffect
  <2> QED BY <2>1 DEF StoppedAt
<1>2. CASE CommentInRow
  <2>1. Fatal(contStartLine, "csv parse error")
    BY <1>2 DEF CommentInRow
  <2> QED BY <2>1 DEF Fatal
<1>3. CASE Ending
  <2>1. \/ result' = WellResult
        \/ Fatal(contStartLine, "csv parse error")
        \/ \E code \in {"csv parse error", "field too large"} : Fatal(rowStartLine, code)
    BY <1>3, EndingEffect
  <2>2. CASE result' = WellResult
    BY <2>2 DEF WellResult
  <2>3. CASE Fatal(contStartLine, "csv parse error")
    BY <2>3 DEF Fatal
  <2>4. CASE \E code \in {"csv parse error", "field too large"} : Fatal(rowStartLine, code)
    <3>1. PICK code \in {"csv parse error", "field too large"} : Fatal(rowStartLine, code)
      BY <2>4
    <3> QED BY <3>1 DEF Fatal
  <2> QED BY <2>1, <2>2, <2>3, <2>4
<1> QED BY <1>1, <1>2, <1>3

LEMMA PositionStep ==
  ASSUME TypeInv, ~result.given => Below, PositionInv, Next
  PROVE  PositionInv'
<1>1. CASE ReadLine
  <2>1. /\ NextLine /\ ~result.given
        /\ UNCHANGED <<contStartLine, rowsScanned, result, handled>>
    BY <1>1 DEF ReadLine, cont
  <2>2. /\ LineInv' /\ nextRow = "reading"
        /\ Counted' /\ NotBegun' /\ rowStartLine <= rowStartLine'
        /\ LinesRead \in Nat /\ LinesRead' \in Nat /\ LinesRead <= LinesRead'
        /\ rowStartLine \in Nat /\ rowStartLine' \in Nat
        /\ read.row \in Nat
        /\ nextRow' = "row" => read.row' = read.row + 1 /\ LinesRead' = LinesRead + 1
        /\ nextRow' # "row" => read.row' = read.row
    BY <2>1, NextLineStep DEF TypeInv, PositionInv
  <2>3. nextRow' = "row" => rawRow'.line = LinesRead + 1
    BY <2>2 DEF LineInv, RowIsOut
  <2>4. /\ rowsScanned < read.row /\ contStartLine <= rowStartLine /\ contStartLine <= LinesRead
        /\ \A h \in 1..Len(handled) : handled[h].line <= rowStartLine /\ handled[h].line <= LinesRead
        /\ \A g, h \in 1..Len(handled) : g < h => handled[g].line < handled[h].line
    BY DEF PositionInv
  <2>5. /\ contStartLine \in Nat /\ rowsScanned \in Nat
        /\ \A h \in 1..Len(handled) : handled[h].line \in Nat
    BY Numbers
  <2>6. /\ rowsScanned < read.row' /\ (nextRow' = "row" => rowsScanned + 1 < read.row')
        /\ contStartLine <= rowStartLine' /\ contStartLine <= LinesRead'
        /\ nextRow' = "row" => contStartLine < rawRow'.line
    BY <2>2, <2>3, <2>4, <2>5
  <2>7. ASSUME NEW h \in 1..Len(handled)
        PROVE  /\ handled[h].line <= rowStartLine' /\ handled[h].line <= LinesRead'
               /\ nextRow' = "row" => handled[h].line < rawRow'.line
    BY <2>2, <2>3, <2>4, <2>5
  <2> QED BY <2>1, <2>2, <2>4, <2>6, <2>7 DEF PositionInv
<1>2. CASE StopAtAnnotation \/ CommentInRow
  <2>1. RowTurn /\ UNCHANGED <<contStartLine, rowsScanned>>
    BY <1>2 DEF StopAtAnnotation, CommentInRow, cont
  <2> QED BY <2>1, RowPosition
<1>3. CASE SingleRow \/ LastLineOfRow
  <2>1. RowTurn /\ UNCHANGED contStartLine
    BY <1>3 DEF SingleRow, LastLineOfRow, cont
  <2>2. Below
    BY <2>1, RowTurnStep
  <2>3. rowsScanned' \in {rowsScanned, rowsScanned + 1}
    BY <1>3, <2>2, SingleRowEffect, LastLineOfRowEffect DEF Judged
  <2> QED BY <2>1, <2>3, RowPosition
<1>4. CASE ExtendRow
  <2>1. RowTurn /\ contStartLine' = StartLine /\ UNCHANGED rowsScanned
    BY <1>4 DEF ExtendRow
  <2>2. StartLine \in {contStartLine, rawRow.line}
    BY DEF StartLine
  <2> QED BY <2>1, <2>2, RowPosition
<1>5. CASE Ending
  <2>1. /\ ~result.given /\ Turn({"EOF", "error"})
        /\ UNCHANGED <<cont, rowsScanned, handled>>
        /\ result'.given
    BY <1>5, EndingEffect, Given
  <2>2. nextRow' = "reading" /\ UNCHANGED <<read, rowStartLine>> /\ LinesRead' = LinesRead
    BY <2>1, TurnStep
  <2> QED BY <2>1, <2>2 DEF PositionInv, cont
<1> QED BY <1>1, <1>2, <1>3, <1>4, <1>5 DEF Next, Ending

LEMMA ContStep ==
  ASSUME TypeInv, ~result.given => Below, ContInv, Next
  PROVE  ContInv'
<1>0. handled \in Seq(RowRecs) /\ Len(handled) \in Nat /\ inContinuation \in BOOLEAN
  BY DEF TypeInv
<1>1. CASE ReadLine
  <2>1. UNCHANGED <<contFields, contStartLine, inContinuation, result, handled>>
    BY <1>1 DEF ReadLine, cont
  <2> QED BY <2>1 DEF ContInv
<1>2. CASE StopAtAnnotation \/ CommentInRow \/ Ending
  <2>1. ~result.given /\ UNCHANGED <<contFields, contStartLine, inContinuation>>
    BY <1>2, EndingEffect DEF StopAtAnnotation, CommentInRow, RowTurn, Turn, cont
  <2>2. result'.given
    BY <1>2, <2>1, Given
  <2> QED BY <2>1, <2>2 DEF ContInv
<1>3. ASSUME RowTurn, Below PROVE handled'[Len(handled')] = rawRow
  BY <1>3, RowTurnStep
<1>4. CASE SingleRow
  <2>1. RowTurn /\ Below
    BY <1>4, TurnStep DEF SingleRow, RowTurn
  <2>2. ~inContinuation /\ ~rawRow.trailing
        /\ UNCHANGED <<contFields, contStartLine, inContinuation>>
    BY <1>4 DEF SingleRow, cont
  <2> QED BY <1>3, <2>1, <2>2 DEF ContInv
<1>5. CASE LastLineOfRow
  <2>1. RowTurn /\ Below
    BY <1>5, TurnStep DEF LastLineOfRow, RowTurn
  <2>2. ~rawRow.trailing /\ contFields' = <<>> /\ ~inContinuation'
    BY <1>5 DEF LastLineOfRow
  <2> QED BY <1>3, <2>1, <2>2 DEF ContInv
<1>6. CASE ExtendRow
  <2>1. RowTurn /\ Below
    BY <1>6, TurnStep DEF ExtendRow, RowTurn
  <2>2. /\ rawRow.trailing /\ contFields' = Gathered /\ contStartLine' = StartLine
        /\ inContinuation'
    BY <1>6 DEF ExtendRow
  <2>3. Len(Gathered) > 0 /\ Gathered[1].line = StartLine
    <3>1. /\ Len(Gathered) = Len(contFields) + rawRow.width
          /\ rawRow.width \in Nat /\ rawRow.width >= 1 /\ Len(contFields) \in Nat
          /\ \A i \in 1..Len(contFields) : Gathered[i] = contFields[i]
          /\ \A i \in 1..Len(Gathered) : i > Len(contFields) => Gathered[i].line = rawRow.line
      BY <2>1, RowTurnStep, NewFields DEF TypeInv
    <3>2. Len(Gathered) > 0 /\ 1 \in 1..Len(Gathered)
      BY <3>1
    <3>3. CASE inContinuation
      <4>1. 1 \in 1..Len(contFields) /\ contFields[1].line = contStartLine
        BY <3>1, <3>3 DEF ContInv
      <4> QED BY <3>1, <3>2, <3>3, <4>1 DEF StartLine
    <3>4. CASE ~inContinuation
      <4>1. Len(contFields) = 0
        BY <3>4 DEF ContInv
      <4>2. 1 > Len(contFields)
        BY <4>1
      <4> QED BY <3>1, <3>2, <3>4, <4>2 DEF StartLine
    <3> QED BY <3>3, <3>4
  <2> QED BY <1>3, <2>1, <2>2, <2>3 DEF ContInv
<1> QED BY <1>1, <1>2, <1>4, <1>5, <1>6 DEF Next, Ending

\* What every action starts from.
LEMMA NotGiven ==
  ASSUME TypeInv, Next
  PROVE  ~result.given /\ result = NoResult /\ Len(result.errors) = 0
<1>1. ~result.given
  BY EndingEffect DEF Next, Ending, ReadLine, StopAtAnnotation, SingleRow, CommentInRow,
                      ExtendRow, LastLineOfRow, RowTurn, Turn
<1>2. result = NoResult
  BY <1>1 DEF TypeInv
<1> QED BY <1>1, <1>2 DEF NoResult

-----------------------------------------------------------------------------
LEMMA KeptMore ==
  ASSUME NEW fs, NEW rows, NEW rows2, Len(rows) \in Nat, Len(rows2) \in Nat,
         Continues(rows2, rows), Kept(fs, rows)
  PROVE  Kept(fs, rows2)
<1> SUFFICES ASSUME NEW i \in 1..Len(fs)
             PROVE  \E h \in 1..Len(rows2) :
                      /\ rows2[h].line = fs[i].line
                      /\ fs[i].comments = IF fs[i].col > 1 THEN 0
                           ELSE Int8(rows2[h].inline + IF i = 1 THEN 0 ELSE rows2[h].above.note)
                      /\ fs[i].line # fs[1].line => rows2[h].above.hash \notin 1..MaxInt8
  BY DEF Kept
<1>1. PICK h \in 1..Len(rows) :
        /\ rows[h].line = fs[i].line
        /\ fs[i].comments = IF fs[i].col > 1 THEN 0
             ELSE Int8(rows[h].inline + IF i = 1 THEN 0 ELSE rows[h].above.note)
        /\ fs[i].line # fs[1].line => rows[h].above.hash \notin 1..MaxInt8
  BY DEF Kept
<1>2. h \in 1..Len(rows2) /\ rows2[h] = rows[h]
  BY DEF Continues
<1> QED BY <1>1, <1>2

LEMMA SingleKept ==
  ASSUME TypeInv, RowTurn
  PROVE  Len(FieldsOf(rawRow, 0)) > 0 /\ Kept(FieldsOf(rawRow, 0), handled')
<1> DEFINE F == FieldsOf(rawRow, 0)
<1>1. /\ RowIsOut /\ Len(handled') = Len(handled) + 1 /\ handled'[Len(handled) + 1] = rawRow
      /\ Len(handled) \in Nat
  BY RowTurnStep, Numbers
<1>2. /\ Len(F) = rawRow.width /\ rawRow.width \in Nat /\ rawRow.width >= 1
      /\ \A i \in 1..rawRow.width :
           /\ F[i].line = rawRow.line /\ F[i].col = i
           /\ F[i].comments = IF i = 1 THEN Int8(rawRow.inline + 0) ELSE 0
  BY <1>1, SingleRowFields
<1> HIDE DEF F
<1>3. ASSUME NEW i \in 1..Len(F)
      PROVE  /\ F[i].line = rawRow.line /\ F[i].line = F[1].line
             /\ F[i].comments = IF F[i].col > 1 THEN 0
                  ELSE Int8(rawRow.inline + IF i = 1 THEN 0 ELSE rawRow.above.note)
  <2>1. i \in 1..rawRow.width /\ 1 \in 1..rawRow.width /\ (i = 1 \/ i > 1)
    BY <1>2
  <2> QED BY <1>2, <2>1
<1>4. Len(handled) + 1 \in 1..Len(handled') /\ Len(F) > 0
  BY <1>1, <1>2
<1>5. Kept(F, handled')
  BY <1>1, <1>3, <1>4 DEF Kept
<1> QED BY <1>4, <1>5 DEF F

\* The last or a further line of a row: its ( ) lines are those the counter
\* holds, and no '#' line stands before it, as far as the other one tells.
LEMMA GatheredKept ==
  ASSUME TypeInv, PositionInv, ContInv, FieldInv, RowTurn, ~CommentSeen
  PROVE  Len(Gathered) > 0 /\ Kept(Gathered, handled')
<1> DEFINE n == Len(contFields)
<1>1. /\ ~result.given /\ nextRow = "row" /\ RowIsOut
      /\ handled' \in Seq(RowRecs) /\ Continues(handled', handled)
      /\ Len(handled') = Len(handled) + 1 /\ handled'[Len(handled) + 1] = rawRow
  BY RowTurnStep
<1>2. /\ Len(Gathered) = n + rawRow.width
      /\ NotesAbove \in Int /\ rawRow \in RowRecs
      /\ rawRow.width \in Nat /\ rawRow.width >= 1
      /\ \A i \in 1..n : Gathered[i] = contFields[i]
      /\ \A i \in 1..Len(Gathered) : i > n =>
           LET k == i - n
           IN  /\ k \in 1..rawRow.width
               /\ Gathered[i].line = rawRow.line /\ Gathered[i].col = k
               /\ Gathered[i].comments = IF k = 1 THEN Int8(rawRow.inline + NotesAbove) ELSE 0
  BY <1>1, NewFields
<1>3. n \in Nat /\ Len(handled) \in Nat
  BY Numbers DEF TypeInv
<1>4. /\ rawRow.inline \in Int /\ rawRow.above.note \in Int /\ rawRow.above.hash \in Int
      /\ skippedStandaloneComments = Int8(rawRow.above.note)
      /\ skippedCommentLines = Int8(rawRow.above.hash)
  <2>1. /\ rawRow.inline \in Int /\ rawRow.above.note \in Nat
        /\ rawRow.above.hash \in Nat
    BY <1>2, LineAssumption DEF RowRecs, RowTypes, Int8s
  <2> QED BY <1>1, <2>1, LineAssumption DEF PositionInv, Counted, Passed
<1>5. inContinuation => n > 0
  BY DEF ContInv
<1>6. ~inContinuation => n = 0
  BY DEF ContInv
<1> HIDE DEF n
<1>7. Len(Gathered) > 0 /\ 1 \in 1..Len(Gathered) /\ Len(Gathered) \in Nat
  BY <1>2, <1>3
<1>8. ASSUME NEW i \in 1..Len(Gathered), i <= n
      PROVE  \E h \in 1..Len(handled') :
               /\ handled'[h].line = Gathered[i].line
               /\ Gathered[i].comments = IF Gathered[i].col > 1 THEN 0
                    ELSE Int8(handled'[h].inline + IF i = 1 THEN 0 ELSE handled'[h].above.note)
               /\ Gathered[i].line # Gathered[1].line => handled'[h].above.hash \notin 1..MaxInt8
  <2>1. i \in 1..n /\ 1 \in 1..n
    BY <1>3, <1>8
  <2>2. Gathered[i] = contFields[i] /\ Gathered[1] = contFields[1]
    BY <1>2, <2>1
  <2>3. Kept(contFields, handled')
    BY <1>1, <1>3, KeptMore DEF FieldInv
  <2> QED BY <2>1, <2>2, <2>3 DEF Kept, n
<1>9. ASSUME NEW i \in 1..Len(Gathered), i > n
      PROVE  /\ rawRow.line = Gathered[i].line
             /\ Gathered[i].comments = IF Gathered[i].col > 1 THEN 0
                  ELSE Int8(rawRow.inline + IF i = 1 THEN 0 ELSE rawRow.above.note)
             /\ Gathered[i].line # Gathered[1].line => rawRow.above.hash \notin 1..MaxInt8
  <2> DEFINE k == i - n
  <2>1. /\ k \in 1..rawRow.width /\ Gathered[i].line = rawRow.line /\ Gathered[i].col = k
        /\ Gathered[i].comments = IF k = 1 THEN Int8(rawRow.inline + NotesAbove) ELSE 0
    BY <1>2, <1>9
  <2>2. k \in Int /\ k >= 1 /\ (k = 1 <=> i = n + 1)
    BY <1>2, <1>3, <1>9, <2>1
  <2> HIDE DEF k
  <2>3. CASE inContinuation
    <3>1. n > 0 /\ (k = 1 => i # 1) /\ NotesAbove = Int8(rawRow.above.note)
      BY <1>3, <1>4, <1>5, <2>2, <2>3 DEF NotesAbove
    <3>2. Int8(rawRow.inline + Int8(rawRow.above.note)) = Int8(rawRow.inline + rawRow.above.note)
      <4>1. Int8(rawRow.above.note) \in Int
        BY <1>2, <1>4, <2>3 DEF NotesAbove
      <4>2. rawRow.inline + Int8(rawRow.above.note) = Int8(rawRow.above.note) + rawRow.inline
            /\ rawRow.above.note + rawRow.inline = rawRow.inline + rawRow.above.note
        BY <1>4, <4>1
      <4>3. Int8(Int8(rawRow.above.note) + rawRow.inline)
              = Int8(rawRow.above.note + rawRow.inline)
        BY <1>4, Int8Sum
      <4> QED BY <4>2, <4>3
    <3>3. rawRow.above.hash \notin 1..MaxInt8
      <4>1. ~(Int8(rawRow.above.hash) > 0)
        BY <1>4, <2>3 DEF CommentSeen
      <4>2. ASSUME rawRow.above.hash \in 1..MaxInt8 PROVE FALSE
        <5>1. rawRow.above.hash \in Int8s /\ rawRow.above.hash > 0
          BY <4>2, LineAssumption DEF Int8s
        <5>2. Int8(rawRow.above.hash) = rawRow.above.hash
          BY <5>1, Int8Identity
        <5> QED BY <4>1, <5>1, <5>2
      <4> QED BY <4>2
    <3>4. CASE k = 1
      <4>1. ~(k > 1) /\ i # 1
        BY <3>1, <3>4
      <4> QED BY <2>1, <3>1, <3>2, <3>3, <3>4, <4>1
    <3>5. CASE k # 1
      <4>1. k > 1
        BY <2>2, <3>5
      <4> QED BY <2>1, <3>3, <3>5, <4>1
    <3> QED BY <3>4, <3>5
  <2>4. CASE ~inContinuation
    <3>1. n = 0 /\ (k = 1 <=> i = 1) /\ NotesAbove = 0 /\ 1 > n
      BY <1>6, <2>2, <2>4 DEF NotesAbove
    <3>2. Gathered[1].line = rawRow.line
      BY <1>2, <1>7, <3>1
    <3>3. CASE k = 1
      <4>1. ~(k > 1) /\ i = 1
        BY <3>1, <3>3
      <4> QED BY <2>1, <3>1, <3>2, <3>3, <4>1
    <3>4. CASE k # 1
      <4>1. k > 1
        BY <2>2, <3>4
      <4> QED BY <2>1, <3>2, <3>4, <4>1
    <3> QED BY <3>3, <3>4
  <2> QED BY <2>3, <2>4
<1>10. Len(handled) + 1 \in 1..Len(handled')
  BY <1>1, <1>3
<1>11. ASSUME NEW i \in 1..Len(Gathered)
       PROVE  \E h \in 1..Len(handled') :
                /\ handled'[h].line = Gathered[i].line
                /\ Gathered[i].comments = IF Gathered[i].col > 1 THEN 0
                     ELSE Int8(handled'[h].inline + IF i = 1 THEN 0 ELSE handled'[h].above.note)
                /\ Gathered[i].line # Gathered[1].line => handled'[h].above.hash \notin 1..MaxInt8
  <2>1. CASE i <= n
    BY <1>8, <2>1
  <2>2. CASE ~(i <= n)
    <3>1. i > n
      BY <1>3, <2>2
    <3> QED BY <1>1, <1>9, <1>10, <3>1
  <2> QED BY <2>1, <2>2
<1>12. Kept(Gathered, handled')
  BY <1>11 DEF Kept
<1> QED BY <1>7, <1>12

LEMMA FieldStep ==
  ASSUME TypeInv, ~result.given => Below, PositionInv, ContInv, FieldInv, Next
  PROVE  FieldInv'
<1>0. /\ Below /\ Len(handled) \in Nat /\ judged \in Seq(Seq(FieldRecs)) /\ Len(judged) \in Nat
      /\ Kept(contFields, handled)
      /\ \A r \in 1..Len(judged) : Len(judged[r]) > 0 /\ Kept(judged[r], handled)
  BY NotGiven, Numbers DEF FieldInv, TypeInv
<1>1. CASE ReadLine \/ Ending
  <2>1. UNCHANGED <<contFields, handled, judged>>
    BY <1>1, EndingEffect DEF ReadLine, cont
  <2> QED BY <1>0, <2>1 DEF FieldInv
<1>2. ASSUME RowTurn
      PROVE  /\ Kept(contFields, handled')
             /\ \A r \in 1..Len(judged) : Kept(judged[r], handled')
  <2>1. Continues(handled', handled) /\ Len(handled') \in Nat
    BY <1>2, RowTurnStep
  <2> QED BY <1>0, <2>1, KeptMore
<1>3. CASE StopAtAnnotation \/ CommentInRow
  <2>1. RowTurn /\ UNCHANGED <<contFields, judged>>
    BY <1>3 DEF StopAtAnnotation, CommentInRow, cont
  <2> QED BY <1>0, <1>2, <2>1 DEF FieldInv
<1>4. CASE ExtendRow
  <2>1. RowTurn /\ ~CommentSeen /\ contFields' = Gathered /\ UNCHANGED judged
    BY <1>4 DEF ExtendRow
  <2>2. Kept(Gathered, handled')
    BY <2>1, GatheredKept
  <2> QED BY <1>0, <1>2, <2>1, <2>2 DEF FieldInv
<1>5. ASSUME RowTurn, NEW fs, NEW line, NEW limitLine, Judged(fs, line, limitLine),
             Len(fs) > 0, Kept(fs, handled')
      PROVE  \A r \in 1..Len(judged') : Len(judged'[r]) > 0 /\ Kept(judged'[r], handled')
  <2>1. /\ Len(judged') = Len(judged) + 1 /\ judged'[Len(judged) + 1] = fs
        /\ \A r \in 1..Len(judged) : judged'[r] = judged[r]
    BY <1>5 DEF Judged, Continues
  <2>2. ASSUME NEW r \in 1..Len(judged') PROVE Len(judged'[r]) > 0 /\ Kept(judged'[r], handled')
    <3>1. r \in 1..Len(judged) \/ r = Len(judged) + 1
      BY <1>0, <2>1
    <3> QED BY <1>0, <1>2, <1>5, <2>1, <3>1
  <2> QED BY <2>2
<1>6. CASE SingleRow
  <2>1. RowTurn /\ Judged(FieldsOf(rawRow, 0), rawRow.line, 0) /\ UNCHANGED contFields
    BY <1>0, <1>6, SingleRowEffect DEF cont
  <2> QED BY <1>2, <1>5, <2>1, SingleKept DEF FieldInv
<1>7. CASE LastLineOfRow
  <2>1. /\ RowTurn /\ Judged(Gathered, contStartLine, contStartLine) /\ ~CommentSeen
        /\ contFields' = <<>>
    BY <1>0, <1>7, LastLineOfRowEffect
  <2>2. Kept(contFields', handled')
    <3>1. Len(contFields') = 0
      BY <2>1
    <3> QED BY <3>1 DEF Kept
  <2> QED BY <1>5, <2>1, <2>2, GatheredKept DEF FieldInv
<1> QED BY <1>1, <1>3, <1>4, <1>6, <1>7 DEF Next, Ending

-----------------------------------------------------------------------------
LEMMA FoundMore ==
  ASSUME NEW e, NEW rows, NEW rows2, NEW rj, NEW rj2,
         Len(rows) \in Nat, Len(rows2) \in Nat, Len(rj) \in Nat, Len(rj2) \in Nat,
         Continues(rows2, rows), Continues(rj2, rj), Found(e, rows, rj)
  PROVE  Found(e, rows2, rj2)
<1>1. /\ \A h \in 1..Len(rows) : h \in 1..Len(rows2) /\ rows2[h] = rows[h]
      /\ \A r \in 1..Len(rj) : r \in 1..Len(rj2) /\ rj2[r] = rj[r]
  BY DEF Continues
<1>2. CASE /\ ~e.fatal /\ e.code = "annotation after trailing comma"
           /\ \E h \in 1..Len(rows) : rows[h].line = e.row /\ rows[h].onlyNotes
  BY <1>1, <1>2 DEF Found
<1>3. CASE /\ ~e.fatal /\ e.code \in RowCodes
           /\ \E r \in 1..Len(rj) : /\ Len(rj[r]) > 0 /\ rj[r][1].line = e.row
                                    /\ BrokenBy(e.code, rj[r])
  BY <1>1, <1>3 DEF Found
<1> QED BY <1>2, <1>3 DEF Found

\* The errors collected in a turn that judges no row.
LEMMA CollectedErrors ==
  ASSUME TypeInv, Below, ErrorInv, RowTurn, validationErrors' = Collected, UNCHANGED judged
  PROVE  ErrorInv'
<1>1. /\ RowIsOut /\ Continues(handled', handled) /\ Len(handled') \in Nat
      /\ Len(handled') = Len(handled) + 1 /\ handled'[Len(handled) + 1] = rawRow
      /\ Len(handled) \in Nat
  BY RowTurnStep, Numbers
<1>2. /\ Continues(Collected, validationErrors)
      /\ \A i \in 1..Len(Collected) : i > Len(validationErrors) =>
           LET e == Collected[i]
           IN  /\ e.row = rawRow.line /\ ~e.fatal /\ rawRow.onlyNotes
               /\ e.code = "annotation after trailing comma"
  BY <1>1, CollectedStep
<1>3. Len(judged) \in Nat /\ Continues(judged, judged)
  BY SameContinues DEF TypeInv
<1>4. Len(Collected) \in Nat /\ Len(validationErrors) \in Nat
  <2>1. Collected \in Seq(ErrorRecs) /\ validationErrors \in Seq(ErrorRecs)
    BY <1>1, CollectedStep DEF TypeInv
  <2> QED BY <2>1
<1>5. ASSUME NEW i \in 1..Len(Collected)
      PROVE  Found(Collected[i], handled', judged)
  <2>1. CASE i <= Len(validationErrors)
    <3>1. i \in 1..Len(validationErrors)
      BY <1>4, <2>1
    <3>2. Collected[i] = validationErrors[i]
      BY <1>2, <3>1 DEF Continues
    <3>3. Found(Collected[i], handled, judged)
      BY <3>1, <3>2 DEF ErrorInv
    <3> QED BY <1>1, <1>3, <3>3, FoundMore
  <2>2. CASE ~(i <= Len(validationErrors))
    <3>1. i > Len(validationErrors)
      BY <1>4, <2>2
    <3>2. Len(handled) + 1 \in 1..Len(handled')
      BY <1>1
    <3> QED BY <1>1, <1>2, <3>1, <3>2 DEF Found
  <2> QED BY <2>1, <2>2
<1> QED BY <1>5 DEF ErrorInv

\* The errors collected in a turn that judges one.
LEMMA JudgedErrors ==
  ASSUME TypeInv, ErrorInv, RowTurn, NEW fs, NEW line, NEW limitLine,
         Judged(fs, line, limitLine), Len(fs) > 0, fs[1].line = line
  PROVE  ErrorInv'
<1>1. /\ Continues(handled', handled) /\ Len(handled') \in Nat /\ Len(handled) \in Nat
  BY RowTurnStep, Numbers
<1>2. /\ Continues(validationErrors', validationErrors)
      /\ \A i \in 1..Len(validationErrors') : i > Len(validationErrors) =>
           LET e == validationErrors'[i]
           IN  /\ e.row = line /\ ~e.fatal /\ e.code \in RowCodes /\ BrokenBy(e.code, fs)
      /\ Len(validationErrors') \in Nat /\ Len(validationErrors) \in Nat
  BY DEF Judged, TypeInv
<1>3. /\ Continues(judged', judged) /\ Len(judged) \in Nat /\ Len(judged') \in Nat
      /\ Len(judged') = Len(judged) + 1 /\ judged'[Len(judged) + 1] = fs
  BY DEF Judged, TypeInv
<1>4. ASSUME NEW i \in 1..Len(validationErrors')
      PROVE  Found(validationErrors'[i], handled', judged')
  <2>1. CASE i <= Len(validationErrors)
    <3>1. i \in 1..Len(validationErrors) /\ validationErrors'[i] = validationErrors[i]
      BY <1>2, <2>1 DEF Continues
    <3>2. Found(validationErrors'[i], handled, judged)
      BY <3>1 DEF ErrorInv
    <3> QED BY <1>1, <1>3, <3>2, FoundMore
  <2>2. CASE ~(i <= Len(validationErrors))
    <3>1. i > Len(validationErrors)
      BY <1>2, <2>2
    <3>2. Len(judged) + 1 \in 1..Len(judged')
      BY <1>3
    <3> QED BY <1>2, <1>3, <3>1, <3>2 DEF Found
  <2> QED BY <2>1, <2>2
<1> QED BY <1>4 DEF ErrorInv

\* The first field of the row a turn judges.
LEMMA FirstFields ==
  ASSUME TypeInv, ContInv, RowTurn
  PROVE  /\ Len(FieldsOf(rawRow, 0)) > 0 /\ FieldsOf(rawRow, 0)[1].line = rawRow.line
         /\ inContinuation => Len(Gathered) > 0 /\ Gathered[1].line = contStartLine
<1>1. RowIsOut
  BY RowTurnStep
<1>2. /\ Len(FieldsOf(rawRow, 0)) = rawRow.width /\ rawRow.width \in Nat /\ rawRow.width >= 1
      /\ \A i \in 1..rawRow.width : FieldsOf(rawRow, 0)[i].line = rawRow.line
  BY <1>1, SingleRowFields
<1>3. 1 \in 1..rawRow.width
  BY <1>2
<1>4. ASSUME inContinuation
      PROVE  Len(Gathered) > 0 /\ Gathered[1].line = contStartLine
  <2>1. /\ Len(Gathered) = Len(contFields) + rawRow.width /\ Len(contFields) \in Nat
        /\ \A i \in 1..Len(contFields) : Gathered[i] = contFields[i]
    BY <1>1, NewFields DEF TypeInv
  <2>2. 1 \in 1..Len(contFields) /\ contFields[1].line = contStartLine
    BY <1>4, <2>1 DEF ContInv
  <2> QED BY <1>2, <2>1, <2>2
<1> QED BY <1>2, <1>3, <1>4

LEMMA ErrorStep ==
  ASSUME TypeInv, ~result.given => Below, ContInv, ErrorInv, Next
  PROVE  ErrorInv'
<1>0. Below
  BY NotGiven
<1>1. CASE ReadLine \/ Ending
  <2>1. UNCHANGED <<validationErrors, handled, judged>>
    BY <1>1, EndingEffect DEF ReadLine
  <2> QED BY <2>1 DEF ErrorInv
<1>2. CASE StopAtAnnotation \/ CommentInRow \/ ExtendRow
  <2>1. RowTurn /\ validationErrors' = Collected /\ UNCHANGED judged
    BY <1>2 DEF StopAtAnnotation, CommentInRow, ExtendRow
  <2> QED BY <1>0, <2>1, CollectedErrors
<1>3. CASE SingleRow
  <2>1. RowTurn /\ Judged(FieldsOf(rawRow, 0), rawRow.line, 0)
    BY <1>0, <1>3, SingleRowEffect
  <2> QED BY <2>1, JudgedErrors, FirstFields
<1>4. CASE LastLineOfRow
  <2>1. RowTurn /\ Judged(Gathered, contStartLine, contStartLine) /\ inContinuation
    BY <1>0, <1>4, LastLineOfRowEffect
  <2> QED BY <2>1, JudgedErrors, FirstFields
<1> QED BY <1>1, <1>2, <1>3, <1>4 DEF Next, Ending

-----------------------------------------------------------------------------
(* What is returned.                                                       *)

\* None of the errors collected is fatal, or the one that reports the limit.
LEMMA FoundCodes ==
  ASSUME NEW e, NEW rows, NEW rj, Found(e, rows, rj)
  PROVE  ~e.fatal /\ e.code # "max errors reached"
<1>1. "max errors reached" \notin RowCodes
  BY DEF RowCodes
<1> QED BY <1>1 DEF Found

\* The file stops at the limit.
LEMMA StopAtLimit ==
  ASSUME TypeInv', ErrorInv', NEW line \in Nat, rowsScanned \in Nat,
         result' = StoppedAt(line, validationErrors'),
         MaxErrors > 0, Len(validationErrors') = MaxErrors,
         LineReleased' \/ line = LimitLine', line <= LinesRead' + 1
  PROVE  LimitIsExact' /\ ResultInv' /\ result'.given /\ Ended' = "early"
<1> DEFINE e == FatalError(line, "max errors reached")
<1>1. /\ validationErrors' \in Seq(ErrorRecs) /\ Len(validationErrors') \in Nat
      /\ MaxErrors \in Nat
  BY ValidatorAssumption DEF TypeInv
<1>2. /\ result'.given /\ Len(result'.errors) = Len(validationErrors') + 1
      /\ Continues(result'.errors, validationErrors')
      /\ result'.errors[Len(validationErrors') + 1] = e
  BY <1>1, StoppedResult
<1>3. \A i \in 1..Len(validationErrors') :
        /\ ~validationErrors'[i].fatal /\ validationErrors'[i].code # "max errors reached"
        /\ result'.errors[i] = validationErrors'[i]
  BY <1>2, FoundCodes DEF ErrorInv, Continues
<1>4. e.fatal /\ e.row = line /\ e.code = "max errors reached"
  BY DEF FatalError
<1> HIDE DEF e
<1>5. \A i \in 1..Len(result'.errors) : i \in 1..Len(validationErrors') \/ i = MaxErrors + 1
  BY <1>1, <1>2
<1>6. /\ Len(result'.errors) = MaxErrors + 1 /\ MaxErrors + 1 \in 1..Len(result'.errors)
      /\ result'.errors[MaxErrors + 1] = e
  BY <1>1, <1>2
<1>7. LimitIsExact'
  <2>1. ASSUME NEW i \in 1..Len(result'.errors), result'.errors[i].code = "max errors reached"
        PROVE  i = MaxErrors + 1
    BY <1>3, <1>5, <2>1
  <2>2. Len(validationErrors') <= MaxErrors
    BY <1>1
  <2> QED BY <1>2, <1>6, <2>1, <2>2 DEF LimitIsExact
<1>8. ASSUME NEW x, x = e PROVE FatalHere(x)'
  BY <1>4, <1>8 DEF FatalHere
<1>9. ASSUME NEW i \in 1..Len(result'.errors)
      PROVE  \/ \E j \in 1..Len(validationErrors') : result'.errors[i] = validationErrors'[j]
             \/ FatalHere(result.errors[i])'
  <2>1. CASE i \in 1..Len(validationErrors')
    BY <1>3, <2>1
  <2>2. CASE i = MaxErrors + 1
    BY <1>6, <1>8, <2>2
  <2> QED BY <1>5, <2>1, <2>2
<1>10. ResultInv'
  BY <1>9 DEF ResultInv
<1>11. Ended' = "early"
  BY <1>2, <1>4, <1>6 DEF Ended
<1> QED BY <1>2, <1>7, <1>10, <1>11

StreamCodes == {"csv parse error", "field too large"}

\* The file is given up with an error of its own.
LEMMA GivenUp ==
  ASSUME TypeInv, TypeInv', ErrorInv', NEW line \in Nat,
         NEW code \in StreamCodes, Fatal(line, code), Below',
         line <= LinesRead' + 1,
         Len(handled') > 0 => line >= IF inContinuation' THEN contStartLine'
                                      ELSE handled'[Len(handled')].line
  PROVE  LimitIsExact' /\ ResultInv' /\ result'.given /\ Ended' = "early"
<1> DEFINE e == FatalError(line, code)
<1>1. code \in ErrorCodes /\ code # "max errors reached"
  BY DEF ErrorCodes, StreamCodes
<1>2. result'.given /\ Len(result'.errors) = 1 /\ result'.errors[1] = e
  BY <1>1, FatalResult
<1>3. e.fatal /\ e.row = line /\ e.code = code
  BY DEF FatalError
<1> HIDE DEF e
<1>4. ASSUME NEW i \in 1..Len(result'.errors) PROVE result'.errors[i] = e
  <2>1. i = 1
    BY <1>2
  <2> QED BY <1>2, <2>1
<1>5. LimitIsExact'
  <2>1. Len(validationErrors') \in Nat /\ MaxErrors \in Nat
    BY ValidatorAssumption DEF TypeInv
  <2>2. MaxErrors > 0 => Len(validationErrors') <= MaxErrors
    BY <2>1 DEF Below
  <2> QED BY <1>1, <1>2, <1>3, <1>4, <2>2 DEF LimitIsExact
<1>6. ASSUME NEW x, x = e PROVE FatalHere(x)'
  BY <1>1, <1>3, <1>6 DEF FatalHere
<1>7. ResultInv'
  BY <1>4, <1>6 DEF ResultInv
<1>8. Ended' = "early"
  <2>1. 1 \in 1..Len(result'.errors)
    BY <1>2
  <2> QED BY <1>2, <1>3, <2>1 DEF Ended
<1> QED BY <1>2, <1>5, <1>7, <1>8

\* The file goes on.
LEMMA GoesOn ==
  ASSUME TypeInv, Next, UNCHANGED result, Below', Len(validationErrors') \in Nat
  PROVE  LimitIsExact' /\ ResultInv' /\ ~result'.given /\ Ended' = "no"
<1>1. ~result'.given /\ Len(result'.errors) = 0
  BY NotGiven
<1>2. LimitIsExact'
  BY <1>1, ValidatorAssumption DEF LimitIsExact, Below
<1> QED BY <1>1, <1>2 DEF ResultInv, Ended

\* A turn that judges a row.
LEMMA JudgedResult ==
  ASSUME TypeInv, TypeInv', ErrorInv', CountInv, Next, NEW fs, NEW line, NEW limitLine \in Nat,
         Judged(fs, line, limitLine), LineReleased' \/ limitLine = LimitLine',
         limitLine <= LinesRead' + 1
  PROVE  LimitIsExact' /\ ResultInv' /\ CountInv'
<1>1. /\ Len(judged') = Len(judged) + 1 /\ Len(validationErrors') \in Nat
      /\ \/ /\ result' = StoppedAt(limitLine, validationErrors') /\ UNCHANGED rowsScanned
            /\ MaxErrors > 0 /\ Len(validationErrors') = MaxErrors
         \/ /\ rowsScanned' = rowsScanned + 1 /\ UNCHANGED result
            /\ Below'
  BY DEF Judged, TypeInv
<1>2. rowsScanned \in Nat /\ rowsScanned = Len(judged)
  BY NotGiven DEF TypeInv, CountInv
<1>3. CASE /\ result' = StoppedAt(limitLine, validationErrors')
           /\ MaxErrors > 0 /\ Len(validationErrors') = MaxErrors
  <2>1. LimitIsExact' /\ ResultInv' /\ result'.given /\ Ended' = "early"
    BY <1>2, <1>3, StopAtLimit
  <2> QED BY <2>1 DEF CountInv
<1>4. CASE rowsScanned' = rowsScanned + 1 /\ UNCHANGED result /\ Below'
  <2>1. LimitIsExact' /\ ResultInv' /\ ~result'.given /\ Ended' = "no"
    BY <1>1, <1>4, GoesOn
  <2> QED BY <1>1, <1>2, <1>4, <2>1 DEF CountInv
<1> QED BY <1>1, <1>3, <1>4

\* The line the limit is reported for, unless it is released.
LEMMA LimitLines ==
  ASSUME TypeInv, TypeInv', PositionInv, ContInv, RowTurn
  PROVE  /\ rawRow.onlyNotes => LimitLine' = rawRow.line
         /\ ~rawRow.trailing =>
              \A fs : judged'[Len(judged')] = fs =>
                LimitLine' = fs[1].line /\ (fs[1].line = rawRow.line => LineReleased')
<1>1. /\ nextRow = "row" /\ RowIsOut /\ handled'[Len(handled')] = rawRow
  BY RowTurnStep
<1>2. rawRow.onlyNotes => rawRow.trailing
  BY <1>1 DEF RowIsOut
<1> QED BY <1>1, <1>2 DEF LimitLine, LineReleased, Last

LEMMA ResultStep ==
  ASSUME TypeInv, TypeInv', ~result.given => Below, PositionInv, ContInv, ContInv',
         ErrorInv, ErrorInv', CountInv, Next
  PROVE  LimitIsExact' /\ ResultInv' /\ CountInv'
<1>0. /\ Below /\ ~result.given /\ rowsScanned = Len(judged) /\ Len(validationErrors') \in Nat
      /\ LinesRead \in Nat /\ rowStartLine \in Nat /\ contStartLine \in Nat
      /\ rowsScanned \in Nat /\ Len(handled) \in Nat
  BY NotGiven, Numbers DEF CountInv, TypeInv
<1> DEFINE Fits(n) == n <= LinesRead' + 1
           AtLeast(n) == n >= IF inContinuation' THEN contStartLine'
                              ELSE handled'[Len(handled')].line
<1>00. ASSUME LinesRead' = LinesRead PROVE Fits(contStartLine) /\ Fits(rowStartLine)
  <2>1. rowStartLine \in 0..(LinesRead + 1) /\ contStartLine \in Nat /\ LinesRead \in Nat
    BY <1>0 DEF TypeInv, LineInv, LinesTypeOK
  <2>2. contStartLine <= LinesRead
    BY DEF PositionInv
  <2> QED BY <1>00, <2>1, <2>2
<1>01. ASSUME inContinuation, UNCHANGED <<contStartLine, inContinuation>>
       PROVE  AtLeast(contStartLine)
  <2>1. contStartLine >= contStartLine
    BY <1>0
  <2> QED BY <1>01, <2>1
<1>1. CASE ReadLine
  <2>1. UNCHANGED <<result, validationErrors, rowsScanned, judged>>
    BY <1>1 DEF ReadLine
  <2>2. Below'
    BY <1>0, <2>1 DEF Below
  <2>3. LimitIsExact' /\ ResultInv' /\ ~result'.given /\ Ended' = "no"
    BY <1>0, <2>1, <2>2, GoesOn
  <2> QED BY <1>0, <2>1, <2>3 DEF CountInv
<1>2. ASSUME RowTurn
      PROVE  /\ nextRow = "row" /\ RowIsOut /\ rawRow.line = LinesRead
             /\ LinesRead' = LinesRead /\ contStartLine < rawRow.line
             /\ handled'[Len(handled')] = rawRow
  BY <1>2, RowTurnStep DEF RowIsOut, PositionInv
<1>3. CASE StopAtAnnotation
  <2>1. /\ RowTurn /\ rawRow.onlyNotes /\ MaxErrors > 0 /\ Len(validationErrors') = MaxErrors
        /\ result' = StoppedAt(rawRow.line, validationErrors') /\ rawRow.line \in Nat
    BY <1>0, <1>3, StopAtAnnotationEffect
  <2>2. rawRow.line = LimitLine' /\ rawRow.line <= LinesRead' + 1
    BY <1>0, <1>2, <2>1, LimitLines
  <2>3. LimitIsExact' /\ ResultInv' /\ result'.given /\ Ended' = "early"
    BY <1>0, <2>1, <2>2, StopAtLimit
  <2> QED BY <2>3 DEF CountInv
<1>4. CASE CommentInRow
  <2>1. /\ RowTurn /\ inContinuation /\ Below' /\ Fatal(contStartLine, "csv parse error")
        /\ UNCHANGED <<contStartLine, inContinuation>>
    BY <1>0, <1>4, CommentInRowEffect DEF cont
  <2>2. Fits(contStartLine)
    BY <1>00, <1>2, <2>1
  <2>3. AtLeast(contStartLine)
    BY <1>01, <2>1
  <2>4. LimitIsExact' /\ ResultInv' /\ result'.given /\ Ended' = "early"
    BY <1>0, <2>1, <2>2, <2>3, GivenUp DEF StreamCodes
  <2> QED BY <2>4 DEF CountInv
<1>5. CASE ExtendRow
  <2>1. UNCHANGED <<result, rowsScanned, judged>> /\ Below'
    BY <1>0, <1>5, ExtendRowEffect
  <2>2. LimitIsExact' /\ ResultInv' /\ ~result'.given /\ Ended' = "no"
    BY <1>0, <2>1, GoesOn
  <2> QED BY <1>0, <2>1, <2>2 DEF CountInv
<1>6. CASE SingleRow
  <2>1. RowTurn /\ ~rawRow.trailing /\ Judged(FieldsOf(rawRow, 0), rawRow.line, 0)
    BY <1>0, <1>6, SingleRowEffect
  <2>2. Len(judged') \in Nat /\ Len(judged') > 0 /\ judged'[Len(judged')] = FieldsOf(rawRow, 0)
    BY <1>0, <2>1 DEF Judged
  <2>3. LineReleased'
    BY <2>1, <2>2, LimitLines, FirstFields
  <2>4. Fits(0)
    BY <1>0, <1>2, <2>1
  <2> QED BY <2>1, <2>3, <2>4, JudgedResult
<1>7. CASE LastLineOfRow
  <2>1. /\ RowTurn /\ ~rawRow.trailing /\ inContinuation
        /\ Judged(Gathered, contStartLine, contStartLine)
    BY <1>0, <1>7, LastLineOfRowEffect
  <2>2. Len(judged') \in Nat /\ Len(judged') > 0 /\ judged'[Len(judged')] = Gathered
    BY <1>0, <2>1 DEF Judged
  <2>3. contStartLine # rawRow.line
    BY <1>0, <1>2, <2>1
  <2>4. LimitLine' = contStartLine
    BY <2>1, <2>2, <2>3, LimitLines, FirstFields
  <2>5. Fits(contStartLine)
    BY <1>00, <1>2, <2>1
  <2> QED BY <1>0, <2>1, <2>4, <2>5, JudgedResult
<1>8. CASE Ending
  <2>1. /\ Turn({"EOF", "error"})
        /\ UNCHANGED <<contFields, contStartLine, inContinuation, validationErrors, rowsScanned,
                       judged, handled>>
        /\ \/ ~inContinuation /\ result' = WellResult
           \/ inContinuation /\ Fatal(contStartLine, "csv parse error")
           \/ \E code \in {"csv parse error", "field too large"} : Fatal(rowStartLine, code)
    BY <1>8, EndingEffect DEF cont
  <2>2. LinesRead' = LinesRead
    BY <2>1, TurnStep
  <2>3. Below'
    BY <1>0, <2>1 DEF Below
  <2>4. CASE ~inContinuation /\ result' = WellResult
    <3>1. /\ result'.given /\ result'.errors = validationErrors'
          /\ (result'.valid <=> validationErrors' = <<>>) /\ result'.rowsScanned = rowsScanned'
      BY <2>1, <2>4 DEF WellResult
    <3>2. \A i \in 1..Len(validationErrors') :
            ~validationErrors'[i].fatal /\ validationErrors'[i].code # "max errors reached"
      BY FoundCodes DEF ErrorInv
    <3>3. LimitIsExact'
      <4>1. MaxErrors > 0 => Len(validationErrors') <= MaxErrors
        BY <1>0, <2>3, ValidatorAssumption DEF Below
      <4> QED BY <3>1, <3>2, <4>1 DEF LimitIsExact
    <3>4. ResultInv'
      BY <3>1 DEF ResultInv
    <3>5. Ended' = "well"
      BY <3>1, <3>2 DEF Ended
    <3>6. handled' # <<>> => ~handled'[Len(handled')].trailing
      <4>1. ASSUME handled # <<>> PROVE ~handled[Len(handled)].trailing
        <5>1. Len(handled) > 0
          BY <4>1 DEF TypeInv
        <5> QED BY <1>0, <2>4, <5>1 DEF ContInv
      <4> QED BY <2>1, <4>1
    <3>7. CountInv'
      BY <1>0, <2>1, <3>1, <3>6 DEF CountInv
    <3> QED BY <3>3, <3>4, <3>7
  <2>5. CASE inContinuation /\ Fatal(contStartLine, "csv parse error")
    <3>1. Fits(contStartLine)
      BY <1>00, <2>2
    <3>2. AtLeast(contStartLine)
      BY <1>01, <2>1, <2>5
    <3>3. LimitIsExact' /\ ResultInv' /\ result'.given /\ Ended' = "early"
      BY <1>0, <2>3, <2>5, <3>1, <3>2, GivenUp DEF StreamCodes
    <3> QED BY <3>3 DEF CountInv
  <2>6. CASE \E code \in {"csv parse error", "field too large"} : Fatal(rowStartLine, code)
    <3>1. PICK code \in StreamCodes : Fatal(rowStartLine, code)
      BY <2>6 DEF StreamCodes
    <3>2. Fits(rowStartLine)
      BY <1>00, <2>2
    <3>3. Len(handled') > 0 => AtLeast(rowStartLine)
      <4>1. ASSUME Len(handled) > 0 PROVE rowStartLine >= handled[Len(handled)].line
        <5>1. Len(handled) \in 1..Len(handled)
          <6>1. Len(handled) \in Nat
            BY <1>0
          <6> QED BY <4>1, <6>1
        <5>2. handled[Len(handled)].line <= rowStartLine /\ handled[Len(handled)].line \in Nat
          BY <5>1, Numbers DEF PositionInv
        <5> QED BY <1>0, <5>2
      <4>2. rowStartLine >= contStartLine
        BY <1>0 DEF PositionInv
      <4> QED BY <2>1, <4>1, <4>2
    <3>4. LimitIsExact' /\ ResultInv' /\ result'.given /\ Ended' = "early"
      BY <1>0, <2>3, <3>1, <3>2, <3>3, GivenUp
    <3> QED BY <3>4 DEF CountInv
  <2> QED BY <2>1, <2>4, <2>5, <2>6
<1> QED BY <1>1, <1>3, <1>4, <1>5, <1>6, <1>7, <1>8 DEF Next, Ending

-----------------------------------------------------------------------------
(* The invariant.                                                          *)

LEMMA InitInv == Init => IInv
<1> SUFFICES ASSUME Init PROVE IInv
  OBVIOUS
<1>1. /\ LinesInit(1) /\ headerMode = FALSE /\ contFields = <<>> /\ contStartLine = 0
      /\ inContinuation = FALSE /\ validationErrors = <<>> /\ rowsScanned = 0
      /\ result = NoResult /\ judged = <<>> /\ handled = <<>>
  BY DEF Init
<1>2. /\ read = [k \in Kinds |-> IF k = "row" THEN 1 ELSE 0] /\ rowStartLine = 1
      /\ skippedCommentLines = 0 /\ headerCommentAttachWindow = FALSE
      /\ headerAttachableCommentLines = 0 /\ skippedStandaloneComments = 0
      /\ fieldCommentBlocks = 0
      /\ nextRow = "reading" /\ rawRow = NoRow /\ above = NothingAbove
  BY <1>1 DEF LinesInit
<1>3. /\ read \in [Kinds -> Nat] /\ read.row = 1 /\ read.version = 0
      /\ read.blank = 0 /\ read.hash = 0 /\ read.note = 0 /\ read.cut = 0
  BY <1>2 DEF Kinds
<1>4. LinesRead = 1
  BY <1>3 DEF LinesRead
<1>5. 0 \in Int8s /\ Int8(0) = 0
  <2>1. 0 \in Int8s
    BY LineAssumption DEF Int8s
  <2> QED BY <2>1, Int8Identity
<1>6. /\ rawRow.line = 0 /\ above \in [hash : Nat, note : Nat, cut : Nat]
      /\ above.hash = 0 /\ above.note = 0 /\ above.cut = 0
  BY <1>2 DEF NoRow, NothingAbove
<1>7. LineInv
  <2>1. LinesTypeOK
    <3>1. {skippedCommentLines, headerAttachableCommentLines, skippedStandaloneComments,
           fieldCommentBlocks}
            \subseteq (-(MaxInt8 + 1))..MaxInt8
      BY <1>2, <1>5 DEF Int8s
    <3>2. rowStartLine \in 0..(LinesRead + 1) /\ rawRow.line \in 0..LinesRead
      BY <1>2, <1>4, <1>6
    <3>3. headerMode \in BOOLEAN /\ headerCommentAttachWindow \in BOOLEAN
          /\ nextRow \in NextRowResults
      BY <1>1, <1>2 DEF NextRowResults
    <3> QED BY <1>3, <1>6, <3>1, <3>2, <3>3 DEF LinesTypeOK
  <2>2. LinesRead <= MaxLines
    BY <1>4, LineAssumption
  <2>3. fieldCommentBlocks = Int8(above.cut)
    BY <1>2, <1>5, <1>6
  <2> QED BY <1>2, <2>1, <2>2, <2>3 DEF LineInv
<1>8. Counted /\ NotBegun
  BY <1>2, <1>4, <1>5, <1>6 DEF Counted, NotBegun, Passed
<1>9. TypeInv
  <2>1. /\ <<>> \in Seq(FieldRecs) /\ <<>> \in Seq(ErrorRecs) /\ <<>> \in Seq(RowRecs)
        /\ <<>> \in Seq(Seq(FieldRecs))
    OBVIOUS
  <2>2. NoResult \in Results
    BY <2>1 DEF NoResult, Results
  <2> QED BY <1>1, <1>3, <1>7, <2>1, <2>2 DEF TypeInv
<1>10. /\ Len(contFields) = 0 /\ Len(handled) = 0 /\ Len(judged) = 0
       /\ Len(validationErrors) = 0 /\ Len(result.errors) = 0
  BY <1>1 DEF NoResult
<1>11. PositionInv
  BY <1>1, <1>2, <1>3, <1>4, <1>8, <1>10 DEF PositionInv
<1>12. ContInv /\ FieldInv /\ ErrorInv
  BY <1>1, <1>10 DEF ContInv, FieldInv, ErrorInv, Kept
<1>13. LimitIsExact /\ ResultInv
  BY <1>10, ValidatorAssumption DEF LimitIsExact, ResultInv
<1>14. CountInv
  <2>1. ~result.given
    BY <1>1 DEF NoResult
  <2> QED BY <1>1, <1>10, <2>1 DEF CountInv, Ended
<1> QED BY <1>9, <1>11, <1>12, <1>13, <1>14 DEF IInv

LEMMA StepInv == IInv /\ [Next]_vars => IInv'
<1> SUFFICES ASSUME IInv, [Next]_vars PROVE IInv'
  OBVIOUS
<1>1. CASE Next
  <2>1. TypeInv /\ (~result.given => Below)
    BY BelowLimit DEF IInv
  <2>2. TypeInv'
    BY <1>1, <2>1, TypeStep
  <2>3. PositionInv'
    BY <1>1, <2>1, PositionStep DEF IInv
  <2>4. ContInv'
    BY <1>1, <2>1, ContStep DEF IInv
  <2>5. FieldInv'
    BY <1>1, <2>1, FieldStep DEF IInv
  <2>6. ErrorInv'
    BY <1>1, <2>1, ErrorStep DEF IInv
  <2>7. LimitIsExact' /\ ResultInv' /\ CountInv'
    BY <1>1, <2>1, <2>2, <2>4, <2>6, ResultStep DEF IInv
  <2> QED BY <2>2, <2>3, <2>4, <2>5, <2>6, <2>7 DEF IInv
<1>2. CASE UNCHANGED vars
  <2>1. /\ UNCHANGED <<read, rowStartLine, headerMode, skippedCommentLines,
                       headerCommentAttachWindow, headerAttachableCommentLines,
                       skippedStandaloneComments, fieldCommentBlocks, nextRow, rawRow, above>>
        /\ UNCHANGED <<contFields, contStartLine, inContinuation, validationErrors,
                       rowsScanned, result, judged, handled>>
    BY <1>2 DEF vars, lineVars, counters, cont
  <2>2. LinesRead' = LinesRead /\ Passed' = Passed /\ Ended' = Ended /\ LimitLine' = LimitLine
        /\ LineReleased' = LineReleased
    BY <2>1 DEF LinesRead, Passed, Ended, LimitLine, LineReleased, Last
  <2>3. LineInv' <=> LineInv
    BY <2>1, <2>2 DEF LineInv, LinesTypeOK, RowIsOut
  <2>4. (Counted' <=> Counted) /\ (NotBegun' <=> NotBegun)
    BY <2>1, <2>2 DEF Counted, NotBegun
  <2>5. TypeInv' /\ PositionInv'
    BY <2>1, <2>2, <2>3, <2>4 DEF IInv, TypeInv, PositionInv
  <2>6. ContInv' /\ FieldInv' /\ ErrorInv' /\ LimitIsExact' /\ CountInv'
    BY <2>1, <2>2 DEF IInv, ContInv, FieldInv, ErrorInv, LimitIsExact, CountInv
  <2>7. ResultInv'
    BY <2>1, <2>2 DEF IInv, ResultInv, FatalHere
  <2> QED BY <2>5, <2>6, <2>7 DEF IInv
<1> QED BY <1>1, <1>2

\* The invariant holds in every state the loop reaches.
THEOREM ValidatorInvariant == Spec => []IInv
<1>1. Init => IInv
  BY InitInv
<1>2. IInv /\ [Next]_vars => IInv'
  BY StepInv
<1> QED BY <1>1, <1>2, PTL DEF Spec

-----------------------------------------------------------------------------
(* What it says of the rows.                                               *)

\* No two rows handled stand on the same line.
LEMMA HandledOnce ==
  ASSUME IInv, NEW h \in 1..Len(handled)
  PROVE  HandledAt(handled[h].line) = handled[h]
<1>1. ASSUME NEW g \in 1..Len(handled), handled[g].line = handled[h].line
      PROVE  handled[g] = handled[h]
  <2>1. Len(handled) \in Nat /\ \A k \in 1..Len(handled) : handled[k].line \in Nat
    BY Numbers DEF IInv
  <2>2. (g < h => handled[g].line < handled[h].line) /\ (h < g => handled[h].line < handled[g].line)
    BY DEF IInv, PositionInv
  <2>3. g = h
    BY <1>1, <2>1, <2>2
  <2> QED BY <2>3
<1> DEFINE S == {handled[i] : i \in 1..Len(handled)}
<1>2. handled[h] \in S /\ \A r \in S : r.line = handled[h].line => r = handled[h]
  BY <1>1
<1>3. HandledAt(handled[h].line) = CHOOSE r \in S : r.line = handled[h].line
  BY DEF HandledAt
<1> HIDE DEF S
<1> QED BY <1>2, <1>3

\* The line of a field that is kept is the line of a row handled.
LEMMA KeptLines ==
  ASSUME IInv, NEW fs, Kept(fs, handled), NEW i \in 1..Len(fs)
  PROVE  /\ fs[i].line \in 1..LinesRead /\ HandledAt(fs[i].line) \in RowRecs
         /\ fs[i].comments = IF fs[i].col > 1 THEN 0
              ELSE Int8(HandledAt(fs[i].line).inline
                        + IF i = 1 THEN 0 ELSE HandledAt(fs[i].line).above.note)
         /\ fs[i].line # fs[1].line => HandledAt(fs[i].line).above.hash \notin 1..MaxInt8
<1>1. PICK h \in 1..Len(handled) :
        /\ handled[h].line = fs[i].line
        /\ fs[i].comments = IF fs[i].col > 1 THEN 0
             ELSE Int8(handled[h].inline + IF i = 1 THEN 0 ELSE handled[h].above.note)
        /\ fs[i].line # fs[1].line => handled[h].above.hash \notin 1..MaxInt8
  BY DEF Kept
<1>2. HandledAt(fs[i].line) = handled[h]
  BY <1>1, HandledOnce
<1>3. handled[h].line \in 1..LinesRead /\ handled[h] \in RowRecs
  <2>1. handled[h] \in RowRecs /\ LinesRead \in Nat
    BY Numbers DEF IInv
  <2>2. handled[h].line \in Nat \ {0}
    BY <2>1 DEF RowRecs, RowTypes
  <2>3. handled[h].line <= LinesRead
    BY DEF IInv, PositionInv
  <2> QED BY <2>1, <2>2, <2>3
<1> QED BY <1>1, <1>2, <1>3

LEMMA ErrorTypes ==
  ASSUME IInv
  PROVE  /\ \A i \in 1..Len(validationErrors) : validationErrors[i] \in Errors
         /\ \A i \in 1..Len(result.errors) : result.errors[i] \in Errors
<1>1. LinesRead \in Nat /\ validationErrors \in Seq(ErrorRecs) /\ result.errors \in Seq(ErrorRecs)
  BY Numbers DEF IInv, TypeInv, Results
<1>2. ASSUME NEW e \in ErrorRecs, e.row <= LinesRead + 1 PROVE e \in Errors
  <2>1. e = [row |-> e.row, code |-> e.code, fatal |-> e.fatal]
    BY DEF ErrorRecs
  <2>2. e.row \in 0..(LinesRead + 1)
    BY <1>1, <1>2 DEF ErrorRecs
  <2>3. e.fatal \in BOOLEAN /\
        e.code \in {"annotation after trailing comma", "column count mismatch",
                    "duplicate annotation", "invalid value", "csv parse error",
                    "field too large", "max errors reached"}
    BY DEF ErrorRecs, ErrorCodes, RowCodes
  <2> HIDE DEF ErrorRecs
  <2> QED BY <2>1, <2>2, <2>3 DEF Errors
<1>3. ASSUME NEW i \in 1..Len(validationErrors)
      PROVE  validationErrors[i] \in Errors
  <2> DEFINE e == validationErrors[i]
  <2>1. e \in ErrorRecs
    BY <1>1, ElementOfSeq
  <2>2. Found(e, handled, judged)
    BY DEF IInv, ErrorInv
  <2> HIDE DEF e
  <2>3. e.row <= LinesRead + 1
    <3>1. CASE \E h \in 1..Len(handled) : handled[h].line = e.row
      <4>1. PICK h \in 1..Len(handled) : handled[h].line = e.row
        BY <3>1
      <4>2. handled[h].line <= LinesRead /\ handled[h].line \in Nat
        BY Numbers DEF IInv, PositionInv
      <4> QED BY <1>1, <4>1, <4>2
    <3>2. CASE \E r \in 1..Len(judged) : Len(judged[r]) > 0 /\ judged[r][1].line = e.row
      <4>1. PICK r \in 1..Len(judged) : Len(judged[r]) > 0 /\ judged[r][1].line = e.row
        BY <3>2
      <4>2. judged[r] \in Seq(FieldRecs) /\ Kept(judged[r], handled)
        BY ElementOfSeq DEF IInv, TypeInv, FieldInv
      <4>3. 1 \in 1..Len(judged[r])
        <5>1. Len(judged[r]) \in Nat
          BY <4>2
        <5> QED BY <4>1, <5>1
      <4>4. judged[r][1].line \in 1..LinesRead
        BY <4>2, <4>3, KeptLines
      <4> QED BY <1>1, <4>1, <4>4
    <3> QED BY <2>2, <3>1, <3>2 DEF Found
  <2>4. e \in Errors
    BY <1>2, <2>1, <2>3
  <2> QED BY <2>4 DEF e
<1>4. ASSUME NEW i \in 1..Len(result.errors)
      PROVE  result.errors[i] \in Errors
  <2>1. CASE \E j \in 1..Len(validationErrors) : result.errors[i] = validationErrors[j]
    BY <1>3, <2>1
  <2>2. CASE FatalHere(result.errors[i])
    <3>1. result.errors[i] \in ErrorRecs
      BY <1>1, ElementOfSeq
    <3> QED BY <1>2, <2>2, <3>1 DEF FatalHere
  <2> QED BY <2>1, <2>2 DEF IInv, ResultInv
<1> QED BY <1>3, <1>4

LEMMA InvImpliesType == IInv => TypeOK
<1> SUFFICES ASSUME IInv PROVE TypeOK
  OBVIOUS
<1>1. /\ LinesRead \in Nat /\ read.row \in Nat /\ contStartLine \in Nat /\ rowsScanned \in Nat
  BY Numbers DEF IInv
<1>2. /\ LinesTypeOK /\ ~headerMode /\ inContinuation \in BOOLEAN
      /\ contFields \in Seq(FieldRecs) /\ result \in Results
  BY DEF IInv, TypeInv, LineInv
<1>3. ASSUME NEW i \in 1..Len(contFields)
      PROVE  contFields[i] \in [line : 1..LinesRead, col : 1..MaxWidth,
                                comments : (-(MaxInt8 + 1))..MaxInt8]
  <2>1. contFields[i] \in FieldRecs
    BY <1>2, ElementOfSeq
  <2>2. contFields[i].line \in 1..LinesRead
    BY KeptLines DEF IInv, FieldInv
  <2> QED BY <2>1, <2>2 DEF FieldRecs, Int8s
<1>4. contStartLine \in 0..LinesRead /\ rowsScanned \in 0..read.row
  BY <1>1 DEF IInv, PositionInv
<1>5. result.given \in BOOLEAN /\ result.valid \in BOOLEAN
  BY <1>2 DEF Results
<1> QED BY <1>2, <1>3, <1>4, <1>5, ErrorTypes DEF TypeOK

\* The state of the loop has its type at all times, and no error names a line
\* beyond the one being read.
THEOREM ValidatorTypeCorrect == Spec => []TypeOK
<1>1. IInv => TypeOK
  BY InvImpliesType
<1> QED BY <1>1, ValidatorInvariant, PTL

\* Comments are counted for the field they belong to, in every row judged.
THEOREM CommentsReachTheirField == Spec => []CommentsOfTheirField
<1>1. IInv => CommentsOfTheirField
  <2> SUFFICES ASSUME IInv, NEW r \in 1..Len(judged), NEW i \in 1..Len(judged[r])
               PROVE  LET f == judged[r][i]
                          row == HandledAt(f.line)
                      IN  IF f.col > 1 THEN f.comments = 0
                          ELSE \E more \in LeftOver(row) :
                                 f.comments = Int8(row.own + more
                                                   + IF i = 1 THEN 0 ELSE row.above.note)
    BY DEF CommentsOfTheirField
  <2> DEFINE f == judged[r][i]
             row == HandledAt(f.line)
             notes == IF i = 1 THEN 0 ELSE row.above.note
  <2>1. Kept(judged[r], handled)
    BY DEF IInv, FieldInv
  <2>2. /\ f.comments = IF f.col > 1 THEN 0 ELSE Int8(row.inline + notes)
        /\ row \in RowRecs
    BY <2>1, KeptLines
  <2>3. row.inline = Int8(row.above.cut + row.own)
    BY <2>2 DEF RowRecs
  <2>4. row.above.cut \in Nat /\ row.above.note \in Nat /\ row.own \in Nat
    BY <2>2, LineAssumption DEF RowRecs, RowTypes
  <2>5. notes \in Nat
    BY <2>4
  <2> HIDE DEF f, row, notes
  <2>6. Int8(Int8(row.above.cut + row.own) + notes) = Int8((row.above.cut + row.own) + notes)
    <3>1. row.above.cut + row.own \in Int /\ notes \in Int
      BY <2>4, <2>5
    <3> QED BY <3>1, Int8Sum
  <2>7. (row.above.cut + row.own) + notes = row.own + row.above.cut + notes
    BY <2>4, <2>5
  <2>8. f.col > 1 \/ f.comments = Int8(row.own + row.above.cut + notes)
    BY <2>2, <2>3, <2>6, <2>7
  <2>9. row.above.cut \in LeftOver(row)
    BY DEF LeftOver
  <2> QED BY <2>2, <2>8, <2>9 DEF f, row, notes
<1> QED BY <1>1, ValidatorInvariant, PTL

LEMMA InvImpliesNoHash == IInv => CommentedRowNotJudged
<1> SUFFICES ASSUME IInv, NEW n \in HashesInside, n \in 1..MaxInt8 PROVE FALSE
  BY DEF CommentedRowNotJudged
<1>1. PICK r \in 1..Len(judged) : n \in HashesWithin(judged[r])
  BY DEF HashesInside
<1>2. PICK i \in 1..Len(judged[r]) : /\ judged[r][i].line # judged[r][1].line
                                     /\ n = HandledAt(judged[r][i].line).above.hash
  BY <1>1 DEF HashesWithin
<1>3. Kept(judged[r], handled)
  BY DEF IInv, FieldInv
<1> QED BY <1>2, <1>3, KeptLines

\* Every row judged is counted, a verdict of "valid" means that no error was
\* found and no row was left gathered, and no row judged is one that '#' lines
\* interrupt.
THEOREM RowsAreAccountedFor == Spec => []RowsAccountedFor
<1>1. IInv => RowsAccountedFor
  BY InvImpliesNoHash DEF IInv, CountInv, RowsAccountedFor
<1> QED BY <1>1, ValidatorInvariant, PTL

\* The limit on errors is exact: reached, never passed, and reported last.
THEOREM LimitStaysExact == Spec => []LimitIsExact
<1>1. IInv => LimitIsExact
  BY DEF IInv
<1> QED BY <1>1, ValidatorInvariant, PTL

LEMMA InvImpliesErrors == IInv => ErrorsNameTheirRow
<1> SUFFICES ASSUME IInv PROVE ErrorsNameTheirRow
  OBVIOUS
<1>1. ASSUME NEW i \in 1..Len(validationErrors)
      PROVE  LET e == validationErrors[i]
             IN IF e.code = "annotation after trailing comma" THEN HandledAt(e.row).onlyNotes
                ELSE \E r \in 1..Len(judged) :
                       judged[r][1].line = e.row /\ BrokenBy(e.code, judged[r])
  <2> DEFINE e == validationErrors[i]
  <2>1. Found(e, handled, judged)
    BY DEF IInv, ErrorInv
  <2> HIDE DEF e
  <2>2. CASE /\ e.code = "annotation after trailing comma"
             /\ \E h \in 1..Len(handled) : handled[h].line = e.row /\ handled[h].onlyNotes
    BY <2>2, HandledOnce DEF e
  <2>3. CASE /\ e.code \in RowCodes
             /\ \E r \in 1..Len(judged) : /\ judged[r][1].line = e.row
                                          /\ BrokenBy(e.code, judged[r])
    <3>1. e.code # "annotation after trailing comma"
      BY <2>3 DEF RowCodes
    <3> QED BY <2>3, <3>1 DEF e
  <2> QED BY <2>1, <2>2, <2>3 DEF Found
<1>2. ASSUME NEW i \in 1..Len(result.errors)
      PROVE  LET e == result.errors[i]
             IN e.fatal => IF e.code = "max errors reached" THEN LineReleased \/ e.row = LimitLine
                           ELSE handled # <<>> => e.row >= IF inContinuation THEN contStartLine
                                                           ELSE Last(handled).line
  <2>1. CASE \E j \in 1..Len(validationErrors) : result.errors[i] = validationErrors[j]
    BY <2>1, FoundCodes DEF IInv, ErrorInv
  <2>2. CASE FatalHere(result.errors[i])
    <3>1. handled # <<>> => Len(handled) > 0
      BY DEF IInv, TypeInv
    <3> QED BY <2>2, <3>1 DEF FatalHere, Last
  <2> QED BY <2>1, <2>2 DEF IInv, ResultInv
<1> QED BY <1>1, <1>2 DEF ErrorsNameTheirRow

\* Errors name the row they are about, on however many lines it stands.
THEOREM ErrorsAreNamed == Spec => []ErrorsNameTheirRow
<1>1. IInv => ErrorsNameTheirRow
  BY InvImpliesErrors
<1> QED BY <1>1, ValidatorInvariant, PTL

\* The file is given up for a '#' line only if one stands inside a row.
THEOREM OnlyInsideIsFatal == Spec => CommentFatalOnlyInside
<1>1. IInv /\ [Next]_vars =>
        [CommentInRow => inContinuation /\ rawRow.above.hash > 0]_vars
  <2> SUFFICES ASSUME IInv, CommentInRow
               PROVE  inContinuation /\ rawRow.above.hash > 0
    OBVIOUS
  <2>1. RowTurn /\ inContinuation /\ skippedCommentLines > 0 /\ TypeInv
    BY DEF CommentInRow, CommentSeen, IInv
  <2>2. RowIsOut /\ ~result.given /\ nextRow = "row"
    BY <2>1, RowTurnStep
  <2>3. skippedCommentLines = Int8(rawRow.above.hash)
    BY <2>2 DEF IInv, PositionInv, Counted, Passed
  <2>4. rawRow.above.hash \in Nat
    BY <2>2 DEF RowIsOut, RowRecs, RowTypes
  <2>5. rawRow.above.hash # 0
    <3>1. 0 \in Int8s
      BY LineAssumption DEF Int8s
    <3>2. Int8(0) = 0
      BY <3>1, Int8Identity
    <3> QED BY <2>1, <2>3, <3>2
  <2> QED BY <2>1, <2>4, <2>5
<1> QED BY <1>1, ValidatorInvariant, PTL DEF Spec, CommentFatalOnlyInside

-----------------------------------------------------------------------------
(* Continuation.                                                           *)

Rows(rows) == [r \in 1..Len(rows) |-> Ids(rows[r])]

LEMMA FieldPlaces == \A f \in FieldRecs : f.line \in Nat /\ f.col \in Nat
BY LineAssumption DEF FieldRecs

LEMMA NoIds == Ids(<<>>) = <<>> /\ Rows(<<>>) = <<>>
BY DEF Ids, Rows

LEMMA RowsType ==
  ASSUME NEW rows \in Seq(Seq(FieldRecs))
  PROVE  /\ Rows(rows) \in Seq(Seq(Places)) /\ Len(Rows(rows)) = Len(rows)
         /\ \A r \in 1..Len(rows) : Rows(rows)[r] = Ids(rows[r])
<1>1. Len(rows) \in Nat
  OBVIOUS
<1>2. ASSUME NEW r \in 1..Len(rows) PROVE Ids(rows[r]) \in Seq(Places)
  <2>1. rows[r] \in Seq(FieldRecs)
    BY ElementOfSeq
  <2> QED BY <2>1, IdsType, FieldPlaces
<1>3. Rows(rows) \in [1..Len(rows) -> Seq(Places)]
  BY <1>2 DEF Rows
<1>4. Rows(rows) \in Seq(Seq(Places)) /\ Len(Rows(rows)) = Len(rows)
  BY <1>1, <1>3, FunctionIsSeq
<1> QED BY <1>4 DEF Rows

\* One more row.
LEMMA RowsAppended ==
  ASSUME NEW rows \in Seq(Seq(FieldRecs)), NEW fs \in Seq(FieldRecs),
         NEW rows2 \in Seq(Seq(FieldRecs)), Continues(rows2, rows),
         Len(rows2) = Len(rows) + 1, rows2[Len(rows) + 1] = fs
  PROVE  Rows(rows2) = Append(Rows(rows), Ids(fs))
<1> DEFINE a == Rows(rows)
           b == Rows(rows2)
           x == Ids(fs)
<1>1. /\ a \in Seq(Seq(Places)) /\ Len(a) = Len(rows)
      /\ b \in Seq(Seq(Places)) /\ Len(b) = Len(rows2) /\ x \in Seq(Places)
      /\ \A r \in 1..Len(rows) : a[r] = Ids(rows[r])
      /\ \A r \in 1..Len(rows2) : b[r] = Ids(rows2[r])
  BY RowsType, IdsType, FieldPlaces
<1>2. Len(rows) \in Nat /\ \A r \in 1..Len(rows) : rows2[r] = rows[r]
  <2>1. Len(rows) \in Nat
    OBVIOUS
  <2> QED BY <2>1 DEF Continues
<1>3. /\ \A r \in 1..Len(rows) : b[r] = a[r]
      /\ b[Len(rows) + 1] = x
  <2>1. /\ \A r \in 1..Len(rows) : r \in 1..Len(rows2)
        /\ Len(rows) + 1 \in 1..Len(rows2)
    BY <1>2
  <2> QED BY <1>1, <1>2, <2>1
<1> HIDE DEF a, b, x
<1>4. /\ Append(a, x) \in Seq(Seq(Places)) /\ Len(Append(a, x)) = Len(a) + 1
      /\ \A r \in 1..Len(a) : Append(a, x)[r] = a[r]
      /\ Append(a, x)[Len(a) + 1] = x
  BY <1>1, AppendProperties
<1>5. ASSUME NEW r \in 1..Len(b) PROVE b[r] = Append(a, x)[r]
  <2>1. r \in 1..Len(rows) \/ r = Len(rows) + 1
    <3>1. Len(b) = Len(rows) + 1
      BY <1>1
    <3> QED BY <1>2, <3>1
  <2> QED BY <1>1, <1>3, <1>4, <2>1
<1>6. b = Append(a, x)
  BY <1>1, <1>4, <1>5, SeqEqual
<1> QED BY <1>6 DEF a, b, x

\* The fields of the row that is out are a run of fields.
LEMMA RowIsARun ==
  ASSUME TypeInv, nextRow = "row", NEW n \in Int
  PROVE  Ids(FieldsOf(rawRow, n)) \in LineRuns
<1>1. rawRow \in RowRecs /\ rawRow.line = LinesRead /\ LinesRead <= MaxLines
  BY DEF TypeInv, LineInv, RowIsOut
<1>2. rawRow.line \in 1..MaxLines
  <2>1. rawRow.line \in Nat \ {0}
    BY <1>1 DEF RowRecs, RowTypes
  <2> QED BY <1>1, <2>1, LineAssumption
<1>3. rawRow.width \in 1..MaxWidth
  BY <1>1 DEF RowRecs, RowTypes
<1>4. Ids(FieldsOf(rawRow, n)) = [i \in 1..rawRow.width |-> <<rawRow.line, i>>]
  <2>1. /\ Len(FieldsOf(rawRow, n)) = rawRow.width
        /\ \A i \in 1..rawRow.width : /\ FieldsOf(rawRow, n)[i].line = rawRow.line
                                      /\ FieldsOf(rawRow, n)[i].col = i
    <3>1. rawRow \in RowRecs /\ n \in Int
      BY <1>1
    <3> QED BY ONLY <3>1, FieldsOfType
  <2> QED BY <2>1 DEF Ids
<1> QED BY <1>2, <1>3, <1>4 DEF LineRuns

LEMMA FatalEnds ==
  ASSUME NEW i \in 1..Len(result'.errors), result'.given, result'.errors[i].fatal
  PROVE  Ended' = "early"
BY DEF Ended

LEMMA RefinesInit == Init => Logical!Init
<1> SUFFICES ASSUME Init PROVE Logical!Init
  OBVIOUS
<1>1. contFields = <<>> /\ judged = <<>> /\ ~result.given
  BY DEF Init, NoResult
<1>2. Ended = "no"
  BY <1>1 DEF Ended
<1> QED BY <1>1, <1>2, NoIds DEF Logical!Init, Rows

LEMMA RefinesStep == IInv /\ IInv' /\ [Next]_vars => [Logical!Next]_Logical!vars
<1> SUFFICES ASSUME IInv, IInv', [Next]_vars
             PROVE  [Logical!Next]_Logical!vars
  OBVIOUS
<1>1. /\ TypeInv /\ TypeInv' /\ contFields \in Seq(FieldRecs) /\ judged \in Seq(Seq(FieldRecs))
      /\ (~inContinuation => contFields = <<>>)
  BY DEF IInv, TypeInv, ContInv
<1> DEFINE F == FieldsOf(rawRow, NotesAbove)
<1>2. ASSUME Next PROVE ~result.given /\ Below /\ Ended = "no"
  <2>1. ~result.given
    BY <1>1, <1>2, NotGiven
  <2> QED BY <2>1, BelowLimit DEF IInv, Ended
<1>3. CASE UNCHANGED <<contFields, judged, result>>
  <2>1. Ended' = Ended
    BY <1>3 DEF Ended
  <2> QED BY <1>3, <2>1 DEF Logical!vars
<1>4. CASE UNCHANGED vars
  BY <1>3, <1>4 DEF vars, cont
<1>5. CASE ReadLine
  BY <1>3, <1>5 DEF ReadLine, cont
<1>6. ASSUME Ended = "no", Ended' = "early", UNCHANGED <<contFields, judged>>
      PROVE  Logical!Next
  BY <1>6 DEF Logical!Next, Logical!EndEarly
<1>7. ASSUME NEW line \in Nat, NEW code \in ErrorCodes, Fatal(line, code)
      PROVE  Ended' = "early"
  <2>1. /\ result'.given /\ Len(result'.errors) = 1
        /\ result'.errors[1] = FatalError(line, code)
    BY <1>1, <1>7, FatalResult
  <2>2. 1 \in 1..Len(result'.errors) /\ result'.errors[1].fatal
    BY <2>1 DEF FatalError
  <2> QED BY <2>1, <2>2, FatalEnds
<1>8. ASSUME NEW line \in Nat, result' = StoppedAt(line, validationErrors')
      PROVE  Ended' = "early"
  <2>1. validationErrors' \in Seq(ErrorRecs) /\ rowsScanned \in Nat
    BY <1>1 DEF TypeInv
  <2>2. /\ result'.given /\ Len(result'.errors) = Len(validationErrors') + 1
        /\ result'.errors[Len(validationErrors') + 1] = FatalError(line, "max errors reached")
    BY <1>8, <2>1, StoppedResult
  <2>3. Len(validationErrors') + 1 \in 1..Len(result'.errors)
    <3>1. Len(validationErrors') \in Nat
      BY <2>1
    <3>2. Len(result'.errors) = Len(validationErrors') + 1
      BY <2>2
    <3> QED BY <3>1, <3>2
  <2>4. result'.errors[Len(validationErrors') + 1].fatal
    <3>1. FatalError(line, "max errors reached").fatal
      BY DEF FatalError
    <3> QED BY <2>2, <3>1
  <2> QED BY <2>2, <2>3, <2>4, FatalEnds
<1>9. {"csv parse error", "field too large"} \subseteq ErrorCodes
  BY DEF ErrorCodes
<1>10. CASE StopAtAnnotation
  <2>1. Next
    BY <1>10 DEF Next
  <2>2. /\ rawRow.line \in Nat /\ result' = StoppedAt(rawRow.line, validationErrors')
        /\ UNCHANGED <<contFields, judged>>
    BY <1>1, <1>2, <1>10, <2>1, StopAtAnnotationEffect DEF cont
  <2> QED BY <1>2, <1>6, <1>8, <2>1, <2>2
<1>11. CASE CommentInRow
  <2>1. Next
    BY <1>11 DEF Next
  <2>2. Fatal(contStartLine, "csv parse error") /\ UNCHANGED <<contFields, judged>>
    BY <1>11 DEF CommentInRow, cont
  <2> QED BY <1>1, <1>2, <1>6, <1>7, <1>9, <2>1, <2>2 DEF TypeInv
<1>12. ASSUME RowTurn
       PROVE  /\ NotesAbove \in Int /\ F \in Seq(FieldRecs) /\ Ids(F) \in LineRuns
              /\ Gathered \in Seq(FieldRecs) /\ Ids(Gathered) = Ids(contFields) \o Ids(F)
  <2>1. RowIsOut /\ nextRow = "row"
    BY <1>1, <1>12, RowTurnStep
  <2>2. /\ NotesAbove \in Int /\ F \in Seq(FieldRecs) /\ Gathered = contFields \o F
        /\ Gathered \in Seq(FieldRecs)
    BY <1>1, <2>1, NewFields
  <2>3. Ids(F) \in LineRuns
    BY <1>1, <2>1, <2>2, RowIsARun
  <2> HIDE DEF F
  <2> QED BY <1>1, <2>2, <2>3, IdsOfConcat, FieldPlaces
<1>13. CASE ExtendRow
  <2>1. Next
    BY <1>13 DEF Next
  <2>2. RowTurn /\ contFields' = Gathered /\ UNCHANGED <<result, judged>>
    BY <1>13 DEF ExtendRow
  <2>3. Ended' = Ended
    BY <2>2 DEF Ended
  <2>4. Logical!Gather(Ids(F))
    BY <1>2, <1>12, <2>1, <2>2, <2>3 DEF Logical!Gather
  <2> QED BY <1>12, <2>2, <2>4 DEF Logical!Next
<1>14. ASSUME NEW fs \in Seq(FieldRecs), NEW line, NEW limitLine \in Nat,
              Judged(fs, line, limitLine), Next
       PROVE  Rows(judged') = Append(Rows(judged), Ids(fs)) /\ Ended' \in {"no", "early"}
  <2>1. /\ judged' \in Seq(Seq(FieldRecs)) /\ Continues(judged', judged)
        /\ Len(judged') = Len(judged) + 1 /\ judged'[Len(judged) + 1] = fs
        /\ result' = StoppedAt(limitLine, validationErrors') \/ UNCHANGED result
    BY <1>14 DEF Judged
  <2>2. Rows(judged') = Append(Rows(judged), Ids(fs))
    BY <1>1, <2>1, RowsAppended
  <2>3. CASE UNCHANGED result
    BY <1>2, <1>14, <2>2, <2>3 DEF Ended
  <2> QED BY <1>8, <2>1, <2>2, <2>3
<1>15. CASE SingleRow
  <2> DEFINE G == FieldsOf(rawRow, 0)
  <2>1. Next
    BY <1>15 DEF Next
  <2>2. /\ RowTurn /\ RowIsOut /\ contFields = <<>> /\ contFields' = <<>>
        /\ Judged(G, rawRow.line, 0)
    BY <1>1, <1>2, <1>15, <2>1, SingleRowEffect DEF cont
  <2>3. G \in Seq(FieldRecs) /\ nextRow = "row"
    BY <1>1, <2>2, RowTurnStep, SingleRowFields
  <2>4. Ids(G) \in LineRuns /\ Ids(G) \in Seq(Places)
    BY <1>1, <2>3, RowIsARun, IdsType, FieldPlaces
  <2> HIDE DEF G
  <2>5. Rows(judged') = Append(Rows(judged), Ids(G)) /\ Ended' \in {"no", "early"}
    BY <1>14, <2>1, <2>2, <2>3
  <2>6. Ids(contFields) \o Ids(G) = Ids(G) /\ Ids(contFields') = <<>>
    <3> DEFINE g == Ids(G)
    <3>1. g \in Seq(Places)
      BY <2>4
    <3> HIDE DEF g
    <3>2. <<>> \o g = g
      BY <3>1, ConcatEmptySeq
    <3> QED BY <2>2, <3>2, NoIds DEF g
  <2>7. Logical!Judge(Ids(G))
    BY <1>2, <2>1, <2>5, <2>6 DEF Logical!Judge, Rows
  <2> QED BY <2>4, <2>7 DEF Logical!Next
<1>16. CASE LastLineOfRow
  <2>1. Next
    BY <1>16 DEF Next
  <2>2. /\ RowTurn /\ contFields' = <<>> /\ Judged(Gathered, contStartLine, contStartLine)
        /\ contStartLine \in Nat
    BY <1>1, <1>2, <1>16, <2>1, LastLineOfRowEffect DEF TypeInv
  <2>3. Rows(judged') = Append(Rows(judged), Ids(Gathered)) /\ Ended' \in {"no", "early"}
    BY <1>12, <1>14, <2>1, <2>2
  <2>4. Ids(contFields') = <<>>
    BY <2>2, NoIds
  <2>5. Logical!Judge(Ids(F))
    BY <1>2, <1>12, <2>1, <2>2, <2>3, <2>4 DEF Logical!Judge, Rows
  <2> QED BY <1>12, <2>2, <2>5 DEF Logical!Next
<1>17. CASE Ending
  <2>1. Next
    BY <1>17 DEF Next, Ending
  <2>2. /\ UNCHANGED <<contFields, judged>>
        /\ \/ ~inContinuation /\ result' = WellResult
           \/ inContinuation /\ Fatal(contStartLine, "csv parse error")
           \/ \E code \in {"csv parse error", "field too large"} : Fatal(rowStartLine, code)
    BY <1>1, <1>17, EndingEffect DEF cont
  <2>3. contStartLine \in Nat /\ rowStartLine \in Nat
    BY <1>1, Numbers
  <2>4. CASE ~inContinuation /\ result' = WellResult
    <3>1. \A i \in 1..Len(validationErrors) : ~validationErrors[i].fatal
      BY FoundCodes DEF IInv, ErrorInv
    <3>2. Ended' = "well"
      BY <2>4, <3>1 DEF Ended, WellResult
    <3>3. Ids(contFields) = <<>>
      BY <1>1, <2>4, NoIds
    <3>4. Logical!EndWell
      BY <1>2, <2>1, <2>2, <3>2, <3>3 DEF Logical!EndWell
    <3> QED BY <3>4 DEF Logical!Next
  <2>5. CASE Fatal(contStartLine, "csv parse error")
    BY <1>2, <1>6, <1>7, <1>9, <2>1, <2>2, <2>3, <2>5
  <2>6. CASE \E code \in {"csv parse error", "field too large"} : Fatal(rowStartLine, code)
    <3>1. PICK code \in ErrorCodes : Fatal(rowStartLine, code)
      BY <1>9, <2>6
    <3> QED BY <1>2, <1>6, <1>7, <2>1, <2>2, <2>3, <3>1
  <2> QED BY <2>2, <2>4, <2>5, <2>6
<1> QED BY <1>4, <1>5, <1>10, <1>11, <1>13, <1>15, <1>16, <1>17 DEF Next, Ending

\* The loop implements continuation as it is promised: no field is lost,
\* repeated or out of its order, no two rows are joined that a line without a
\* trailing comma separates, and nothing is left gathered at a good end.
THEOREM ValidatorRefinesRows == Spec => RefinesLogicalRows
<1>1. IInv /\ IInv' /\ [Next]_vars => [Logical!Next]_Logical!vars
  BY RefinesStep
<1> QED BY <1>1, RefinesInit, ValidatorInvariant, PTL
        DEF Spec, RefinesLogicalRows, Logical!Spec
=============================================================================
