---------------------------- MODULE ScannerHistory --------------------------
(***************************************************************************)
(* RecordScanner with the history needed to say where the format's         *)
(* specification (supercsv-spec-v1.0.md, "Multi-Line Container Values" and *)
(* "Multi-Line Rows") lets a line break stand.  The history is kept from   *)
(* the meaning of the bytes; it never looks at the scanner's own           *)
(* line-break flags.                                                       *)
(*                                                                         *)
(* The format decides on a break by what stands behind it as well as by    *)
(* what stands before it: a break behind an element goes on if a ']'       *)
(* follows.  The scanner decides on the spot, so lastBreak keeps what it   *)
(* did until the next byte, of the same row or of the next, comes.         *)
(***************************************************************************)
EXTENDS RecordScanner

VARIABLES
  did,        \* the byte the last step consumed, or "none"
  at,         \* the current field's last token inside a container:
              \* "open" its '[', "comma" between elements, "close" the ']' of
              \* an inner row; "rowOpen" and "rowComma" the '[' and the commas
              \* of an inner row; "element" anything else
  innerRow,   \* the open inner bracket began an inner row, not element text
  broke,      \* a line break has been taken since that token
  lastBreak,  \* the last line break inside a container, outside its quotes,
              \* that only blanks have followed: where it stood, and whether
              \* the row went on
  balanced,   \* the last row ended outside containers and annotation blocks,
              \* and no line was skipped since
  inBlock,    \* in an annotation block behind an unquoted header field
  typeDepth   \* depth of < > in the header, outside annotation blocks

tokens   == <<at, innerRow, broke>>
history  == <<did, tokens, lastBreak, balanced, inBlock, typeDepth>>
histVars == <<vars, history>>

NoBreak == [stood |-> "nowhere", wentOn |-> FALSE]

HistInit == /\ Init
            /\ did = "none"
            /\ at = "element" /\ innerRow = FALSE /\ broke = FALSE
            /\ lastBreak = NoBreak
            /\ balanced = FALSE /\ inBlock = FALSE /\ typeDepth = 0

-----------------------------------------------------------------------------
Points    == {"open", "comma", "close"}
RowPoints == {"rowOpen", "rowComma"}

\* The token that byte b is where it stands.
Token(b) ==
  CASE ~Literal /\ b = "[" /\ containerDepth = 0             -> "open"
    [] ~Literal /\ b = "," /\ containerDepth = 1             -> "comma"
    [] ~Literal /\ b = "]" /\ containerDepth = 2 /\ innerRow -> "close"
    [] ~Literal /\ b = "[" /\ containerDepth = 1 /\ at \in Points -> "rowOpen"
    [] ~Literal /\ b = "," /\ containerDepth = 2 /\ innerRow -> "rowComma"
    [] OTHER                                                 -> "element"

InnerRowAfter(b) ==
  CASE ~Literal /\ b = "[" /\ containerDepth = 1 -> at \in Points
    [] ~Literal /\ b = "]" /\ containerDepth = 2 -> FALSE
    [] OTHER                                     -> innerRow

\* Tokens of the field: they start afresh with every row.
TrackTokens(b) ==
  IF state' \notin Scanning THEN at' = "element" /\ innerRow' = FALSE /\ broke' = FALSE
  ELSE IF b = " " THEN UNCHANGED tokens
  ELSE IF b = "\n" /\ state = "InUnquoted" THEN broke' = TRUE /\ UNCHANGED <<at, innerRow>>
  ELSE at' = Token(b) /\ innerRow' = InnerRowAfter(b) /\ broke' = FALSE

\* A line break in an unquoted field.
LineBreak(b) == b = "\n" /\ state = "InUnquoted"

\* The places inside a container where the scanner lets a line break stand.
ScannerAllows == containerDepth = 1 /\ at \in Points /\ ~broke

\* Where a line break inside a container stands; "again" makes a blank line.
Stood == IF ScannerAllows THEN "point"
         ELSE IF broke THEN "again" ELSE IF at \in RowPoints THEN "inner" ELSE "element"

TrackBreaks(b) ==
  lastBreak' = IF LineBreak(b) /\ containerDepth > 0 /\ ~inContainerQuote
               THEN [stood |-> Stood, wentOn |-> state' = "InUnquoted"]
               ELSE IF b = " " THEN lastBreak ELSE NoBreak

TrackRowEnd ==
  balanced' = IF state' = "RowInUse" THEN containerDepth = 0 /\ ~inBlock ELSE balanced

TrackAngles(b) ==
  /\ inBlock' = /\ state' = "InUnquoted" /\ b # ")"
                /\ inBlock \/ (state = "InUnquoted" /\ b = "(")
  /\ typeDepth' = IF inBlock THEN typeDepth
                  ELSE typeDepth + (genericDepth' - genericDepth)
  /\ typeDepth' \in (-MaxGeneric)..MaxGeneric

HistCall    == /\ Call
               /\ did' = "none"
               /\ UNCHANGED <<tokens, lastBreak, balanced, inBlock, typeDepth>>
HistComment == /\ Comment
               /\ did' = "none" /\ balanced' = FALSE /\ lastBreak' = NoBreak
               /\ UNCHANGED <<tokens, inBlock, typeDepth>>
HistStop    == /\ Stop
               /\ did' = "none" /\ balanced' = FALSE /\ lastBreak' = NoBreak
               /\ TrackTokens("none") /\ TrackAngles("none")
HistConsume(b) == /\ Consume(b)
                  /\ did' = b
                  /\ TrackTokens(b) /\ TrackBreaks(b) /\ TrackRowEnd /\ TrackAngles(b)

HistNext == HistCall \/ HistComment \/ HistStop \/ \E b \in Bytes : HistConsume(b)

HistSpec == HistInit /\ [][HistNext]_histVars

-----------------------------------------------------------------------------
\* What the format says of a break, by where it stood and the byte b behind
\* it: the row goes on behind a '[' and a comma inside a container, behind the
\* ']' of an inner row, and between an element and a ']'; behind anything else
\* it ends, and so it does at a second break, for a blank line is not permitted.
FormatGoesOn(stood, b) == stood \in {"point", "inner"} \/ (stood = "element" /\ b = "]")

\* Where the scanner is stricter than the format: it ends the row before a
\* closing ']', and everywhere in an inner row.
EndsEarly(stood, b) == stood = "inner" \/ (stood = "element" /\ b = "]")

\* Of the line breaks inside a container the scanner takes only those for
\* text that the format lets the row go on at, so an unclosed bracket cannot
\* take in the rows that follow it; and the row goes on at all of those, but
\* for the ones EndsEarly names.
LineBreakRule ==
  [][lastBreak # NoBreak /\ did' \in Bytes \ {" ", "\n"}
       => IF lastBreak.wentOn THEN FormatGoesOn(lastBreak.stood, did')
          ELSE ~FormatGoesOn(lastBreak.stood, did') \/ EndsEarly(lastBreak.stood, did')]_histVars

\* What the scanner's flags mean, in terms of the bytes read: the reason why
\* LineBreakRule holds.
FlagsFollowTokens ==
  state = "InUnquoted" =>
    /\ containerDepth > 1 => containerInnerRowOpen = innerRow
    /\ ~inContainerQuote =>
         /\ containerNewlineOK = (containerDepth = 1 /\ at \in Points)
         /\ containerNewlineOK => containerSawNewline = broke

\* A line break inside a quoted element of a container is part of it.
\* (supercsv-spec-v1.0.md: "Newline inside a quoted string, is always part of
\* that string and allowed and preserved.")
QuotedBreakKept ==
  [][LineBreak(did') /\ inContainerQuote => state' = "InUnquoted"]_histVars

\* Angle brackets matter in the header only (stream.go: "Track angle brackets
\* for type parameters in header mode only"): once a header is read whose
\* types, containers and annotations are balanced, the depth they left behind
\* is 0 and has no say in whether the commas of the data rows split fields.
AnglesOnlyInHeader ==
  [][headerMode /\ ~headerMode' /\ balanced /\ typeDepth = 0
       => genericDepth = 0]_histVars
=============================================================================
