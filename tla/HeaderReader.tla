---------------------------- MODULE HeaderReader ----------------------------
(***************************************************************************)
(* headerdefreader/header_reader.go, ReadHeaderWithContinuation: the       *)
(* header, read as one logical row from the first physical rows of the     *)
(* stream, each field with the comments that ParseHeader will count.       *)
(***************************************************************************)
EXTENDS PhysicalLines

VARIABLES
  accumulatedFields,   \* the header's fields and their comments
  inContinuation,
  annotationAfterTrailingComma,
  outcome,             \* "reading", "read", or "failed"
  handled              \* history: the physical rows taken into the header

reader == <<accumulatedFields, inContinuation, annotationAfterTrailingComma, outcome>>
vars   == <<lineVars, reader, handled>>

Init == /\ LinesInit(0) /\ headerMode = TRUE
        /\ accumulatedFields = <<>> /\ inContinuation = FALSE
        /\ annotationAfterTrailingComma = FALSE
        /\ outcome = "reading"
        /\ handled = <<>>

ReadLine == outcome = "reading" /\ NextLine /\ UNCHANGED <<reader, handled>>

\* Every counter is read, and so cleared, right after NextRow.
\* Mutant: but for the ( ) lines.
KeepStandalone == /\ skippedCommentLines' = 0 /\ UNCHANGED skippedStandaloneComments
                  /\ headerAttachableCommentLines' = 0
                  /\ headerCommentAttachWindow' = FALSE
ReadCounters == /\ skippedCommentLines' = 0 /\ skippedStandaloneComments' = 0
                /\ headerAttachableCommentLines' = 0
                /\ headerCommentAttachWindow' = FALSE

Turn(kinds) == /\ outcome = "reading" /\ nextRow \in kinds
               /\ ReadCounters
               /\ UNCHANGED <<read, rowStartLine, fieldCommentBlocks, above>>
               /\ ReleaseRow

\* The file ends before the header does, or NextRow fails.
HeaderMissing == /\ Turn({"EOF", "error"})
                 /\ outcome' = "failed"
                 /\ UNCHANGED <<headerMode, accumulatedFields, inContinuation,
                                annotationAfterTrailingComma, handled>>

\* The line before was cut inside the < > of a type.
\* Mutant: never noticed.
NoSplit == FALSE
SplitType == inContinuation /\ accumulatedFields[Len(accumulatedFields)].openType
TypeSplit == /\ Turn({"row"}) /\ SplitType
             /\ outcome' = "failed"
             /\ UNCHANGED <<headerMode, accumulatedFields, inContinuation,
                            annotationAfterTrailingComma, handled>>

\* The '#' lines counted for the first field of a line: on the header's first
\* line those in the window that a blank line opened, else those before it.
\* Mutant: the header's first line and the others alike.
AttachableOnly == headerAttachableCommentLines
HashesCounted == IF inContinuation THEN skippedCommentLines
                 ELSE headerAttachableCommentLines
FieldsOf(row) ==
  [i \in 1..row.width |->
     [line |-> row.line, col |-> i, openType |-> row.openType /\ i = row.width,
      comments |-> IF i = 1
                   THEN Int8(Int8(row.inline + HashesCounted) + skippedStandaloneComments)
                   ELSE 0]]

\* Mutant: a continuation line replaces what was read.
LastHeaderLine ==
  /\ Turn({"row"}) /\ ~SplitType
  /\ accumulatedFields' = FieldsOf(rawRow)
  /\ annotationAfterTrailingComma' = (annotationAfterTrailingComma \/ rawRow.onlyNotes)
  /\ IF rawRow.trailing
     THEN inContinuation' = TRUE /\ UNCHANGED <<outcome, headerMode>>
     ELSE outcome' = "read" /\ headerMode' = FALSE /\ UNCHANGED inContinuation
  /\ handled' = Append(handled, rawRow)

HeaderLine ==
  /\ Turn({"row"}) /\ ~SplitType
  /\ accumulatedFields' = accumulatedFields \o FieldsOf(rawRow)
  /\ annotationAfterTrailingComma' = (annotationAfterTrailingComma \/ rawRow.onlyNotes)
  /\ IF rawRow.trailing
     THEN inContinuation' = TRUE /\ UNCHANGED <<outcome, headerMode>>
     ELSE /\ outcome' = "read" /\ headerMode' = FALSE   \* SetHeaderMode(false)
          /\ UNCHANGED inContinuation
  /\ handled' = Append(handled, rawRow)

Next == ReadLine \/ HeaderMissing \/ TypeSplit \/ HeaderLine

Spec == Init /\ [][Next]_vars

-----------------------------------------------------------------------------
TypeOK ==
  /\ LinesTypeOK
  /\ \A i \in 1..Len(accumulatedFields) :
       accumulatedFields[i] \in [line : 1..LinesRead, col : 1..MaxWidth,
                                 openType : BOOLEAN,
                                 comments : (-(MaxInt8 + 1))..MaxInt8]
  /\ inContinuation \in BOOLEAN /\ annotationAfterTrailingComma \in BOOLEAN
  /\ outcome \in {"reading", "read", "failed"}

LineRuns == {[i \in 1..w |-> <<l, i>>] : w \in 1..MaxWidth, l \in 1..MaxLines}
Logical == INSTANCE LogicalRows WITH
             FieldsOfLine <- LineRuns,
             gathered <- IF outcome = "read" THEN <<>> ELSE Ids(accumulatedFields),
             judged <- IF outcome = "read" THEN <<Ids(accumulatedFields)>> ELSE <<>>,
             ended <- IF outcome = "failed" THEN "early" ELSE "no"

\* The header is the first logical row of the file, whole and in order.
HeaderIsALogicalRow == Logical!Spec

HandledAt(line) == CHOOSE r \in {handled[i] : i \in 1..Len(handled)} : r.line = line
LinesAbove(row) == row.own + row.above.hash + row.above.note

\* What may come on top: the blocks of lines cut short above a row are left over
\* for its first field (stream.go:403).
LeftOver(row) == {0, row.above.cut}

\* The first field of every line but the header's first carries the '#' and
\* ( ) lines between it and the line, or the blank line, before, as far as an
\* int8 can count them, and beyond them only what LeftOver names: the counters
\* of skipLeadingBlanks are never read late, twice, or for another line.
ContinuationComments ==
  \A i \in 2..Len(accumulatedFields) :
    LET f == accumulatedFields[i]
        row == HandledAt(f.line)
    IN  IF f.col > 1 THEN f.comments = 0
        ELSE \E more \in LeftOver(row) : f.comments = Int8(LinesAbove(row) + more)

\* A header whose type was split by a line break is never handed on.
NoSplitType == outcome = "read" =>
  \A i \in 1..(Len(accumulatedFields) - 1) :
    accumulatedFields[i].openType => accumulatedFields[i].line = accumulatedFields[i + 1].line

\* What the loop over the data rows starts from (FileValidator's Init): no
\* comment of the header is left to count for a data row, no row is out, and
\* the header that is handed on was not split inside a type.
CleanHandOver ==
  outcome = "read" => /\ skippedCommentLines = 0 /\ skippedStandaloneComments = 0
                      /\ fieldCommentBlocks = 0
                      /\ ~headerMode /\ ~headerCommentAttachWindow
                      /\ nextRow = "reading" /\ rawRow = NoRow
                      /\ NoSplitType

=============================================================================
