---------------------------- MODULE PhysicalLines ---------------------------
(***************************************************************************)
(* csvstream as its readers see it, a line at a time: skipLeadingBlanks    *)
(* passes over blank lines, '#' lines, lines of nothing but ( ) blocks,    *)
(* lines whose last ( ) block the line break cuts short, and the version   *)
(* directive, counting comments as it goes, and NextRow hands out the      *)
(* physical row it then finds.  The counters are read, and so cleared, by  *)
(* the reader; the blocks of a line cut short are counted for a field      *)
(* instead, and the field they reach is the first of the next row.         *)
(*                                                                         *)
(* Metadata blocks (( )) are counted exactly as ( ) blocks are, in         *)
(* counters of their own; only the comment counters are kept here, and a   *)
(* line of metadata has no comments to count.  A row stands on one line.   *)
(***************************************************************************)
EXTENDS Integers, Sequences

CONSTANTS MaxInt8,      \* the largest int8: 127 in the program
          MaxWidth,     \* bound: value fields of a physical row
          MaxBlocks,    \* bound: ( ) blocks on a line
          MaxRows, MaxBlanks, MaxHashes, MaxNotes, MaxCuts,  \* bounds: lines of each kind
          MaxLines      \* bound: lines of any kind

ASSUME LineAssumption == /\ MaxInt8 \in Nat \ {0} /\ MaxWidth \in Nat \ {0}
                         /\ MaxBlocks \in Nat
                         /\ MaxRows \in Nat /\ MaxBlanks \in Nat
                         /\ MaxHashes \in Nat /\ MaxNotes \in Nat /\ MaxCuts \in Nat
                         /\ MaxLines \in Nat \ {0}

VARIABLES
  read,           \* the lines read, by kind
  rowStartLine,   \* the line the last row begun starts on
  headerMode,
  skippedCommentLines,                                  \* int8
  headerCommentAttachWindow,
  headerAttachableCommentLines,                         \* int8
  skippedStandaloneComments,                            \* int8
  fieldCommentBlocks,                                   \* int8
  nextRow,        \* what NextRow returned: see NextRowResults
  rawRow,         \* the row it handed out
  above           \* history: what was passed over since the last row: '#' lines
                  \* and ( ) comments (in the header: since the last row or blank
                  \* line), and the comments of lines cut short

counters  == <<skippedCommentLines, headerCommentAttachWindow,
               headerAttachableCommentLines, skippedStandaloneComments>>
lineVars  == <<read, rowStartLine, headerMode, counters, fieldCommentBlocks, nextRow,
               rawRow, above>>

Kinds == {"row", "blank", "hash", "note", "cut", "version"}
Limit == [row |-> MaxRows, blank |-> MaxBlanks, hash |-> MaxHashes,
          note |-> MaxNotes, cut |-> MaxCuts, version |-> 1]
NextRowResults == {"reading", "row", "EOF", "error"}

\* The number of the line last read.
LinesRead == read.row + read.blank + read.hash + read.note + read.cut + read.version

\* int8 arithmetic.
Int8(n) == ((n + MaxInt8 + 1) % (2 * (MaxInt8 + 1))) - (MaxInt8 + 1)

(* A physical row: its value fields, whether a trailing comma follows      *)
(* them, whether annotations stand behind that comma, the ( ) blocks       *)
(* counted for the first field and the field's own among them, and whether *)
(* the last value leaves a '<' open.  "above" is the history the row came  *)
(* with.                                                                   *)
NothingAbove == [hash |-> 0, note |-> 0, cut |-> 0]
NoRow == [line |-> 0, width |-> 0, trailing |-> FALSE, onlyNotes |-> FALSE,
          inline |-> 0, own |-> 0, openType |-> FALSE, above |-> NothingAbove]
RowShapes == {r \in [width : 1..MaxWidth, trailing : BOOLEAN, onlyNotes : BOOLEAN,
                     own : 0..MaxBlocks, openType : BOOLEAN] :
                /\ r.onlyNotes => r.trailing
                /\ r.openType  => headerMode}

\* At the start of the file, or behind "rows" rows that were one line each.
LinesInit(rows) ==
             /\ read = [k \in Kinds |-> IF k = "row" THEN rows ELSE 0]
             /\ rowStartLine = rows
             /\ skippedCommentLines = 0
             /\ headerCommentAttachWindow = FALSE
             /\ headerAttachableCommentLines = 0
             /\ skippedStandaloneComments = 0
             /\ fieldCommentBlocks = 0
             /\ nextRow = "reading" /\ rawRow = NoRow
             /\ above = NothingAbove

Line(kind) == /\ nextRow = "reading"
              /\ read[kind] < Limit[kind] /\ LinesRead < MaxLines
              /\ read' = [read EXCEPT ![kind] = @ + 1]

SkipBlank ==
  /\ Line("blank")
  /\ IF headerMode
     THEN /\ skippedCommentLines' = 0 /\ skippedStandaloneComments' = 0
          /\ headerCommentAttachWindow' = TRUE
          /\ headerAttachableCommentLines' = 0
          /\ above' = [above EXCEPT !.hash = 0, !.note = 0]
     ELSE UNCHANGED <<counters, above>>
  /\ UNCHANGED <<rowStartLine, headerMode, fieldCommentBlocks, nextRow, rawRow>>

SkipHash ==
  /\ Line("hash")
  /\ skippedCommentLines' = Int8(skippedCommentLines + 1)
  /\ headerAttachableCommentLines' =
       IF headerMode /\ headerCommentAttachWindow
       THEN Int8(headerAttachableCommentLines + 1) ELSE headerAttachableCommentLines
  /\ above' = [above EXCEPT !.hash = @ + 1]
  /\ UNCHANGED <<rowStartLine, headerMode, headerCommentAttachWindow, skippedStandaloneComments,
                 fieldCommentBlocks, nextRow, rawRow>>

\* In the header a ( ) line closes the window of the '#' lines before it.
CloseWindow == IF headerMode
               THEN headerCommentAttachWindow' = FALSE /\ headerAttachableCommentLines' = 0
               ELSE UNCHANGED <<headerCommentAttachWindow, headerAttachableCommentLines>>

SkipNote ==
  /\ Line("note")
  /\ \E comments \in 0..MaxBlocks :
       /\ skippedStandaloneComments' = Int8(skippedStandaloneComments + comments)
       /\ above' = [above EXCEPT !.note = @ + comments]
  /\ CloseWindow
  /\ UNCHANGED <<rowStartLine, headerMode, skippedCommentLines, fieldCommentBlocks, nextRow,
                 rawRow>>

\* Prefix annotations with no data behind them, the last of which the line
\* break cuts short: the scan goes on with the next line, and the blocks stay
\* counted for the field to come.
SkipCut ==
  /\ Line("cut")
  /\ \E comments \in 0..MaxBlocks :
       /\ fieldCommentBlocks' = Int8(fieldCommentBlocks + comments)
       /\ above' = [above EXCEPT !.cut = @ + comments]
  /\ UNCHANGED <<rowStartLine, headerMode, counters, nextRow, rawRow>>

SkipVersion ==
  /\ headerMode /\ Line("version")
  /\ CloseWindow
  /\ UNCHANGED <<rowStartLine, headerMode, skippedCommentLines, skippedStandaloneComments,
                 fieldCommentBlocks, nextRow, rawRow, above>>

\* Mutant: the line is counted twice.
LineCountedTwice == LinesRead + 2
RowLine == LinesRead + 1

\* The first field takes what is counted (emitField), and the count starts
\* afresh.
HandOutRow ==
  /\ Line("row")
  /\ \E r \in RowShapes :
       rawRow' = [line |-> RowLine, width |-> r.width, trailing |-> r.trailing,
                  onlyNotes |-> r.onlyNotes, own |-> r.own,
                  inline |-> Int8(fieldCommentBlocks + r.own),
                  openType |-> r.openType, above |-> above]
  /\ rowStartLine' = RowLine
  /\ nextRow' = "row"
  /\ fieldCommentBlocks' = 0 /\ above' = NothingAbove
  /\ UNCHANGED <<headerMode, counters>>

\* The end of the input, or any error of NextRow: between two rows, where
\* rowStartLine is still the last row's, or within a row.
NoMoreRows == /\ nextRow = "reading"
              /\ \/ nextRow' \in {"EOF", "error"} /\ UNCHANGED rowStartLine
                 \/ nextRow' = "error" /\ rowStartLine' = RowLine
              /\ UNCHANGED <<read, headerMode, counters, fieldCommentBlocks, rawRow, above>>

NextLine == \/ SkipBlank \/ SkipHash \/ SkipNote \/ SkipCut \/ SkipVersion
            \/ HandOutRow \/ NoMoreRows

\* Fields by the places they come from.
Ids(fs) == [i \in 1..Len(fs) |-> <<fs[i].line, fs[i].col>>]

\* What a reader does with a row: Release, and ask for the next.
ReleaseRow == nextRow' = "reading" /\ rawRow' = NoRow

LinesTypeOK ==
  /\ read \in [Kinds -> Nat]
  /\ rowStartLine \in 0..(LinesRead + 1)
  /\ headerMode \in BOOLEAN /\ headerCommentAttachWindow \in BOOLEAN
  /\ {skippedCommentLines, headerAttachableCommentLines, skippedStandaloneComments,
      fieldCommentBlocks}
       \subseteq (-(MaxInt8 + 1))..MaxInt8
  /\ nextRow \in NextRowResults
  /\ rawRow.line \in 0..LinesRead
  /\ above \in [hash : Nat, note : Nat, cut : Nat]
=============================================================================
