---------------------------- MODULE FileValidator ---------------------------
(***************************************************************************)
(* validate/file_validator.go, ValidateFile: the loop over the data rows.  *)
(* It reads a physical row at a time, gathers the rows that a trailing     *)
(* comma continues into one logical row, has the row validator judge it,   *)
(* and collects errors up to a limit.                                      *)
(*                                                                         *)
(* The loop starts where the header's reader stops, behind a header of one *)
(* line: header mode off and the counters cleared.  What the row validator *)
(* makes of the values is left open: any number of errors up to MaxInvalid.*)
(***************************************************************************)
EXTENDS PhysicalLines, FiniteSets

CONSTANTS Columns,     \* the columns of the header
          MaxErrors,   \* the limit on collected errors; 0 for none
          MaxInvalid   \* bound: errors of one row beyond those of its shape

ASSUME ValidatorAssumption == Columns \in Nat \ {0} /\ MaxErrors \in Nat /\ MaxInvalid \in Nat

VARIABLES
  contFields,         \* the logical row under way: its fields and their comments
  contStartLine, inContinuation,
  validationErrors, rowsScanned,
  result,             \* what ValidateFile returned, once "given"
  judged,             \* history: the logical rows validated
  handled             \* history: the physical rows handled

cont  == <<contFields, contStartLine, inContinuation>>
vars  == <<lineVars, cont, validationErrors, rowsScanned, result, judged, handled>>

NoResult == [given |-> FALSE, valid |-> FALSE, errors |-> <<>>, rowsScanned |-> 0]

Init == /\ LinesInit(1) /\ headerMode = FALSE
        /\ contFields = <<>> /\ contStartLine = 0 /\ inContinuation = FALSE
        /\ validationErrors = <<>> /\ rowsScanned = 0
        /\ result = NoResult
        /\ judged = <<>> /\ handled = <<>>

ReadLine == /\ ~result.given /\ NextLine
            /\ UNCHANGED <<cont, validationErrors, rowsScanned, result, judged, handled>>

-----------------------------------------------------------------------------
(* Errors and the limit on them.                                           *)

Error(line, code) == [row |-> line, code |-> code, fatal |-> FALSE]
FatalError(line, code) == [row |-> line, code |-> code, fatal |-> TRUE]

\* fatalError: of the errors collected so far none is returned.
Fatal(line, code) ==
  result' = [given |-> TRUE, valid |-> FALSE, errors |-> <<FatalError(line, code)>>,
             rowsScanned |-> rowsScanned]

\* Mutant of Stops: the limit may be reached, not passed.
StopsBeyond(collected, errs) ==
  MaxErrors > 0 /\ errs # <<>> /\ Len(collected) + Len(errs) > MaxErrors

\* appendErrorsOrStop, on the errors collected so far.
Stops(collected, errs) ==
  MaxErrors > 0 /\ errs # <<>> /\ Len(collected) + Len(errs) >= MaxErrors
Appended(collected, errs) ==
  collected \o IF Stops(collected, errs)
               THEN SubSeq(errs, 1, MaxErrors - Len(collected)) ELSE errs
StoppedAt(line, collected) ==
  [given |-> TRUE, valid |-> FALSE,
   errors |-> Append(collected, FatalError(line, "max errors reached")),
   rowsScanned |-> rowsScanned + 1]

\* The fields of a row with the comments counted for them.
FieldsOf(row, standalone) ==
  [i \in 1..row.width |->
     [line |-> row.line, col |-> i,
      comments |-> IF i = 1 THEN Int8(row.inline + standalone) ELSE 0]]

\* NewRowValidator's ValidateRow: the error sequences it may return.
TooManyComments(fs) == {i \in 1..Len(fs) : fs[i].comments > 1}
ValidateRow(fs, line) ==
  IF Len(fs) # Columns THEN {<<Error(line, "column count mismatch")>>}
  ELSE {[i \in 1..Cardinality(TooManyComments(fs)) |-> Error(line, "duplicate annotation")]
          \o [i \in 1..n |-> Error(line, "invalid value")] : n \in 0..MaxInvalid}

\* A logical row is judged; errors at the limit are reported for line
\* "limitLine".
Judge(collected, fs, line, limitLine) ==
  \E errs \in ValidateRow(fs, line) :
    /\ validationErrors' = Appended(collected, errs)
    /\ IF Stops(collected, errs)
       THEN result' = StoppedAt(limitLine, validationErrors') /\ UNCHANGED rowsScanned
       ELSE rowsScanned' = rowsScanned + 1 /\ UNCHANGED result
    /\ judged' = Append(judged, fs)

-----------------------------------------------------------------------------
(* One turn of the loop.                                                   *)

\* CommentLineSkipped and StandaloneAnnotationsSkipped: the counters are
\* read, and so cleared, at once.
\* Mutants: each leaves one for later.
KeepCommentLines == UNCHANGED skippedCommentLines /\ skippedStandaloneComments' = 0
KeepStandalone   == skippedCommentLines' = 0 /\ UNCHANGED skippedStandaloneComments
ReadCounters     == skippedCommentLines' = 0 /\ skippedStandaloneComments' = 0

Turn(kinds) == /\ ~result.given /\ nextRow \in kinds
               /\ ReadCounters
               /\ UNCHANGED <<read, rowStartLine, headerMode, headerCommentAttachWindow,
                              headerAttachableCommentLines, fieldCommentBlocks, above>>
               /\ ReleaseRow
RowTurn == Turn({"row"}) /\ handled' = Append(handled, rawRow)

\* An annotation behind the trailing comma is an error of its own.
AfterComma == IF rawRow.onlyNotes
              THEN <<Error(rawRow.line, "annotation after trailing comma")>> ELSE <<>>
Collected  == validationErrors \o AfterComma

StopAtAnnotation ==
  /\ RowTurn
  /\ Stops(validationErrors, AfterComma)
  /\ validationErrors' = Collected
  /\ result' = StoppedAt(rawRow.line, Collected)
  /\ UNCHANGED <<cont, rowsScanned, judged>>

\* The common path.  Release has set the row's Line to 0 by the time the
\* limit's error is made.
SingleRow ==
  /\ RowTurn
  /\ ~inContinuation /\ ~rawRow.trailing
  /\ Judge(validationErrors, FieldsOf(rawRow, 0), rawRow.line, 0)
  /\ UNCHANGED cont

\* A '#' line between the lines of a row.
\* Mutant: the first '#' line goes unnoticed.
SecondCommentSeen == inContinuation /\ skippedCommentLines > 1
CommentSeen == inContinuation /\ skippedCommentLines > 0
CommentInRow ==
  /\ RowTurn
  /\ ~Stops(validationErrors, AfterComma) /\ CommentSeen
  /\ validationErrors' = Collected
  /\ Fatal(contStartLine, "csv parse error")
  /\ UNCHANGED <<cont, rowsScanned, judged>>

\* The first line of a continued row, or a further one, is copied.
Gathered == contFields \o FieldsOf(rawRow, IF inContinuation THEN skippedStandaloneComments
                                           ELSE 0)
\* Mutant: the line just read.
LatestLine == rawRow.line
StartLine == IF inContinuation THEN contStartLine ELSE rawRow.line

ExtendRow ==
  /\ RowTurn
  /\ ~Stops(validationErrors, AfterComma) /\ ~CommentSeen /\ rawRow.trailing
  /\ validationErrors' = Collected
  /\ contFields' = Gathered /\ contStartLine' = StartLine /\ inContinuation' = TRUE
  /\ UNCHANGED <<rowsScanned, result, judged>>

\* Mutant: the gathered fields are not cleared for the next row.
LastLineKept ==
  /\ RowTurn
  /\ ~CommentSeen /\ inContinuation /\ ~rawRow.trailing
  /\ Judge(validationErrors, Gathered, contStartLine, contStartLine)
  /\ contFields' = Gathered /\ inContinuation' = FALSE
  /\ UNCHANGED contStartLine

LastLineOfRow ==
  /\ RowTurn
  /\ ~CommentSeen /\ inContinuation /\ ~rawRow.trailing
  /\ Judge(validationErrors, Gathered, contStartLine, contStartLine)
  /\ contFields' = <<>> /\ inContinuation' = FALSE
  /\ UNCHANGED contStartLine

\* Mutant: a row that still waits for its next line is let go.
EndOfFileAnywhere ==
  /\ Turn({"EOF"})
  /\ result' = [given |-> TRUE, valid |-> validationErrors = <<>>,
                errors |-> validationErrors, rowsScanned |-> rowsScanned]
  /\ UNCHANGED <<cont, validationErrors, rowsScanned, judged, handled>>

EndOfFile ==
  /\ Turn({"EOF"})
  /\ IF inContinuation THEN Fatal(contStartLine, "csv parse error")
     ELSE result' = [given |-> TRUE, valid |-> validationErrors = <<>>,
                     errors |-> validationErrors, rowsScanned |-> rowsScanned]
  /\ UNCHANGED <<cont, validationErrors, rowsScanned, judged, handled>>

StreamError ==
  /\ Turn({"error"})
  /\ \E code \in {"csv parse error", "field too large"} : Fatal(rowStartLine, code)
  /\ UNCHANGED <<cont, validationErrors, rowsScanned, judged, handled>>

Next == \/ ReadLine
        \/ StopAtAnnotation \/ SingleRow \/ CommentInRow \/ ExtendRow \/ LastLineOfRow
        \/ EndOfFile \/ StreamError

Spec == Init /\ [][Next]_vars

-----------------------------------------------------------------------------
Errors == [row : 0..(LinesRead + 1), fatal : BOOLEAN,
           code : {"annotation after trailing comma", "column count mismatch",
                   "duplicate annotation", "invalid value", "csv parse error",
                   "field too large", "max errors reached"}]

TypeOK ==
  /\ LinesTypeOK /\ ~headerMode
  /\ \A i \in 1..Len(contFields) :
       contFields[i] \in [line : 1..LinesRead, col : 1..MaxWidth,
                          comments : (-(MaxInt8 + 1))..MaxInt8]
  /\ contStartLine \in 0..LinesRead /\ inContinuation \in BOOLEAN
  /\ \A i \in 1..Len(validationErrors) : validationErrors[i] \in Errors
  /\ rowsScanned \in 0..read.row
  /\ result.given \in BOOLEAN /\ result.valid \in BOOLEAN
  /\ \A i \in 1..Len(result.errors) : result.errors[i] \in Errors

(* The rows the history "handled" leaves: what the specification of the    *)
(* format (9.1) makes of them.                                             *)
Ended == IF ~result.given THEN "no"
         ELSE IF \E i \in 1..Len(result.errors) : result.errors[i].fatal THEN "early" ELSE "well"

LineRuns == {[i \in 1..w |-> <<l, i>>] : w \in 1..MaxWidth, l \in 1..MaxLines}
Logical == INSTANCE LogicalRows WITH
             FieldsOfLine <- LineRuns,
             gathered <- Ids(contFields),
             judged <- [r \in 1..Len(judged) |-> Ids(judged[r])],
             ended <- Ended

\* Continuation loses, repeats and reorders no field, joins no two rows that
\* a line without a trailing comma separates, and a file that ends well has
\* no row left gathered (ValidateFile's continuation path).
RefinesLogicalRows == Logical!Spec

-----------------------------------------------------------------------------
HandledAt(line) == CHOOSE r \in {handled[i] : i \in 1..Len(handled)} : r.line = line

\* What may come on top: the blocks of lines cut short above a row are left over
\* for its first field (stream.go:403).
LeftOver(row) == {0, row.above.cut}

\* Every judged field carries the comments of its own line and, where its
\* line continues a row, of the ( ) lines right before it, as far as an int8
\* can count them: none is counted twice, and none is left over for a later
\* row but those of LeftOver (StandaloneAnnotationsSkipped, fieldCommentBlocks).
CommentsOfTheirField ==
  \A r \in 1..Len(judged) : \A i \in 1..Len(judged[r]) :
    LET f == judged[r][i]
        row == HandledAt(f.line)
    IN  IF f.col > 1 THEN f.comments = 0
        ELSE \E more \in LeftOver(row) :
               f.comments = Int8(row.own + more + IF i = 1 THEN 0 ELSE row.above.note)

\* The numbers of '#' lines that stand inside the judged rows.
HashesWithin(fs) ==
  {HandledAt(fs[i].line).above.hash : i \in {k \in 1..Len(fs) : fs[k].line # fs[1].line}}
HashesInside == UNION {HashesWithin(judged[r]) : r \in 1..Len(judged)}

\* No row is judged that '#' lines interrupt, as far as their counter, an
\* int8, can tell their number from none.
CommentedRowNotJudged == HashesInside \cap (1..MaxInt8) = {}

\* No row is judged that a '#' line interrupts (file_validator.go:214, "Reject
\* # comments mid-data-continuation").
NoCommentInsideRow == HashesInside \subseteq {0}

\* Only a '#' line inside a row stops the file for it: those between rows,
\* however many there are, are never held against the row that follows.
CommentFatalOnlyInside ==
  [][CommentInRow => inContinuation /\ rawRow.above.hash > 0]_vars

\* The limit on errors is exact: it is never passed, the file stops with the
\* error that reaches it, and that stop is the last error reported.
LimitIsExact ==
  /\ MaxErrors > 0 =>
       /\ Len(validationErrors) <= MaxErrors
       /\ Len(validationErrors) = MaxErrors => result.given
  /\ \A i \in 1..Len(result.errors) :
       result.errors[i].code = "max errors reached" => /\ i = Len(result.errors)
                                                       /\ i = MaxErrors + 1

BrokenBy(code, fs) == CASE code = "column count mismatch" -> Len(fs) # Columns
                        [] code = "duplicate annotation" -> TooManyComments(fs) # {}
                        [] code = "invalid value" -> Len(fs) = Columns
Last(s) == s[Len(s)]

\* The line of the error that reports the limit: that of the row at which the limit is
\* reached.  Not where that row is one line: it is released before its line is asked for
\* (file_validator.go:202-204), and which line the error then names is left open.
LimitLine == IF Last(handled).trailing THEN Last(handled).line ELSE Last(judged)[1].line
LineReleased == ~Last(handled).trailing /\ Last(judged)[1].line = Last(handled).line

\* An error found in a row names the line on which that row begins, on however many lines it
\* goes on; an error about a line names that line, and a fatal one never a line before the
\* row that was last begun (appendErrorsOrStop, fatalError, CurrentLine).
ErrorsNameTheirRow ==
  /\ \A i \in 1..Len(validationErrors) :
       LET e == validationErrors[i]
       IN IF e.code = "annotation after trailing comma" THEN HandledAt(e.row).onlyNotes
          ELSE \E r \in 1..Len(judged) : judged[r][1].line = e.row /\ BrokenBy(e.code, judged[r])
  /\ \A i \in 1..Len(result.errors) :
       LET e == result.errors[i]
       IN e.fatal => IF e.code = "max errors reached" THEN LineReleased \/ e.row = LimitLine
                     ELSE handled # <<>> => e.row >= IF inContinuation THEN contStartLine
                                                     ELSE Last(handled).line

\* Every row judged is counted, and a file that ends well is valid exactly if
\* no error was found; it does not end in the middle of a row, and no row is judged that
\* '#' lines interrupt.
RowsAccountedFor ==
  /\ ~result.given => rowsScanned = Len(judged)
  /\ Ended = "well" => /\ result.rowsScanned = Len(judged)
                       /\ result.valid <=> validationErrors = <<>>
                       /\ handled # <<>> => ~handled[Len(handled)].trailing
  /\ CommentedRowNotJudged
=============================================================================
