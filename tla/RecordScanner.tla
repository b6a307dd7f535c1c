---------------------------- MODULE RecordScanner ---------------------------
(***************************************************************************)
(* csvstream/stream.go, NextRow: the state machine that cuts the           *)
(* normalised byte stream into rows and fields.  A comma or a line break   *)
(* is structure or content depending on quoting, on the nesting of [ ] and *)
(* (in the header) < >, and on whether a line break is welcome where it    *)
(* stands inside a container.                                              *)
(*                                                                         *)
(* The input is whatever the environment supplies: each step consumes any  *)
(* byte of Bytes, or finds the end.  Where the bytes lie in memory is      *)
(* CsvRows' subject; the counters skipLeadingBlanks keeps of the lines it  *)
(* skips, which nothing here reads, are left out.                          *)
(***************************************************************************)
EXTENDS Integers, Sequences

CONSTANTS MaxDepth,     \* bound: nesting of [ ]
          MaxGeneric,   \* bound: genericDepth, in both directions
          MaxBlocks,    \* bound: annotation blocks of a field
          MaxFields     \* bound: fields of a row

ASSUME BoundAssumption == /\ MaxDepth \in Nat /\ MaxGeneric \in Nat
                          /\ MaxBlocks \in Nat /\ MaxFields \in Nat

VARIABLES
  state,                  \* where NextRow stands, see States
  containerDepth, genericDepth,
  inContainerQuote, containerNewlineOK, containerSawNewline, containerInnerRowOpen,
  fieldQuoted, fieldCommentBlocks, fieldMetaBlocks,
  headerMode,
  fields,                 \* row.Fields: quoted flag and block counts
  err                     \* the error NextRow returned, or "none"

nesting == <<containerDepth, genericDepth, inContainerQuote, containerNewlineOK,
             containerSawNewline, containerInnerRowOpen>>
blocks  == <<fieldCommentBlocks, fieldMetaBlocks>>
vars    == <<state, nesting, fieldQuoted, blocks, headerMode, fields, err>>

\* Classes of bytes: "x" stands for every byte NextRow does not look at.
Bytes == {",", "\n", " ", "\"", "[", "]", "<", ">", "#", "(", ")", "NUL", "x"}

\* The parser states of the main loop.
Scanning == {"Outside", "InUnquoted", "InQuoted", "Quote"}
\* Around it: no row asked for; in skipLeadingBlanks, at a line's start or
\* behind the prefix annotations of a data line; a row handed out; stopped.
States == Scanning \cup {"Idle", "Leading", "Prefix", "RowInUse", "Error", "EOF"}

Errors == {"none", "unclosed quoted field", "stray quote", "inline comment",
           "unexpected char after quote", "NUL byte", "field too large",
           "read error"}

Init == /\ state = "Idle"
        /\ containerDepth = 0 /\ genericDepth = 0
        /\ inContainerQuote = FALSE
        /\ containerNewlineOK = FALSE /\ containerSawNewline = FALSE
        /\ containerInnerRowOpen = FALSE
        /\ fieldQuoted = FALSE
        /\ fieldCommentBlocks = 0 /\ fieldMetaBlocks = 0
        /\ headerMode = TRUE
        /\ fields = <<>> /\ err = "none"

Fail(e) == /\ state' = "Error" /\ err' = e
           /\ UNCHANGED <<nesting, fieldQuoted, blocks, headerMode, fields>>

-----------------------------------------------------------------------------
(* The caller.                                                             *)

\* Mutant: the reset leaves out containerNewlineOK.
StartRowWelcoming ==
  /\ state = "Idle"
  /\ state' = "Leading"
  /\ containerDepth' = 0 /\ inContainerQuote' = FALSE
  /\ containerSawNewline' = FALSE /\ containerInnerRowOpen' = FALSE
  /\ fieldCommentBlocks' = 0 /\ fieldMetaBlocks' = 0
  /\ fields' = <<>>
  /\ UNCHANGED <<genericDepth, containerNewlineOK, fieldQuoted, headerMode, err>>

\* NextRow's reset.  genericDepth is not among what it resets.
StartRow == /\ state = "Idle"
            /\ state' = "Leading"
            /\ containerDepth' = 0
            /\ inContainerQuote' = FALSE
            /\ containerNewlineOK' = FALSE /\ containerSawNewline' = FALSE
            /\ containerInnerRowOpen' = FALSE
            /\ fieldCommentBlocks' = 0 /\ fieldMetaBlocks' = 0
            /\ fields' = <<>>
            /\ UNCHANGED <<genericDepth, fieldQuoted, headerMode, err>>

ReleaseRow == /\ state = "RowInUse"
              /\ state' = "Idle"
              /\ fields' = <<>>
              /\ UNCHANGED <<nesting, fieldQuoted, blocks, headerMode, err>>

\* SetHeaderMode(false), once the header is read.
LeaveHeader == /\ state = "Idle" /\ headerMode
               /\ headerMode' = FALSE
               /\ UNCHANGED <<state, nesting, fieldQuoted, blocks, fields, err>>

-----------------------------------------------------------------------------
(* Annotation blocks: skipAnnotationBlockStream consumes a block to its    *)
(* end or to a line break that cuts it short.  At the end of the input it  *)
(* returns as if the block were closed, and the next read finds the end.   *)

Ends == {"closed", "newline"}

CountBlock ==
  \/ /\ fieldCommentBlocks < MaxBlocks
     /\ fieldCommentBlocks' = fieldCommentBlocks + 1
     /\ UNCHANGED fieldMetaBlocks
  \/ /\ fieldMetaBlocks < MaxBlocks
     /\ fieldMetaBlocks' = fieldMetaBlocks + 1
     /\ UNCHANGED fieldCommentBlocks

(* skipLeadingBlanks.  Blank, comment and annotation lines are passed      *)
(* over; on a data line that starts with annotations the blocks are        *)
(* counted for the first field, and a block cut short by a line break      *)
(* sends it on to the next line.                                           *)
SkipLine == state = "Leading" /\ UNCHANGED vars

PrefixBlock(end) ==
  /\ state \in {"Leading", "Prefix"}
  /\ CountBlock
  /\ state' = IF end = "newline" THEN "Leading" ELSE "Prefix"
  /\ UNCHANGED <<nesting, fieldQuoted, headerMode, fields, err>>

LeadingNUL == state = "Leading" /\ Fail("NUL byte")

LeadingEOF == /\ state \in {"Leading", "Prefix"}
              /\ state' = "EOF"
              /\ UNCHANGED <<nesting, fieldQuoted, blocks, headerMode, fields, err>>

-----------------------------------------------------------------------------
(* Fields and rows.                                                        *)

\* The field with the annotation blocks counted for it.
FieldRecord == [quoted : BOOLEAN, comments : Nat, meta : Nat]
Field(q, comments, meta) == [quoted |-> q, comments |-> comments, meta |-> meta]

\* emitField, on the way to state s: it fails on a field above MaxFieldSize.
Emitted(f, s) ==
  /\ Len(fields) < MaxFields
  /\ fields' = Append(fields, f)
  /\ fieldQuoted' = FALSE
  /\ fieldCommentBlocks' = 0 /\ fieldMetaBlocks' = 0
  /\ state' = s
  /\ UNCHANGED <<nesting, headerMode, err>>
EmitField(f, s) == Emitted(f, s) \/ Fail("field too large")

CurrentField == Field(fieldQuoted, fieldCommentBlocks, fieldMetaBlocks)
FinishRow    == EmitField(CurrentField, "RowInUse")

\* The first data byte of a row.  Behind a prefix annotation it may also be
\* a line break, a '#' or a NUL, which are taken as text.
StartsData(b) == \/ state = "Leading" /\ b \notin {"\n", " ", "#", "(", "NUL"}
                 \/ state = "Prefix" /\ b \notin {" ", "("}

FirstByte(b) ==
  /\ StartsData(b)
  /\ \/ /\ b = ","    \* an empty field, which is never too large
        /\ Emitted(Field(FALSE, fieldCommentBlocks, fieldMetaBlocks), "Outside")
     \/ /\ b = "["
        /\ containerDepth < MaxDepth
        /\ containerDepth' = containerDepth + 1
        /\ containerNewlineOK' = TRUE
        /\ state' = "InUnquoted" /\ fieldQuoted' = FALSE
        /\ UNCHANGED <<genericDepth, inContainerQuote, containerSawNewline,
                       containerInnerRowOpen, blocks, fields, headerMode, err>>
     \/ /\ b \notin {",", "["}
        /\ state' = IF b = "\"" THEN "InQuoted" ELSE "InUnquoted"
        /\ fieldQuoted' = (b = "\"")
        /\ containerDepth' = IF b = "]" /\ containerDepth > 0
                             THEN containerDepth - 1 ELSE containerDepth
        /\ UNCHANGED <<genericDepth, inContainerQuote, containerNewlineOK,
                       containerSawNewline, containerInnerRowOpen, blocks, fields,
                       headerMode, err>>

-----------------------------------------------------------------------------
(* The main loop.  Between fields and in an unquoted field (Plain) the     *)
(* handlers agree but for what they do to the line-break flags.            *)

Plain == {"Outside", "InUnquoted"}

\* Inside quotes within a container brackets are text.
Literal == containerDepth > 0 /\ inContainerQuote
Splits  == containerDepth = 0 /\ genericDepth = 0

\* An element starts: no line break is welcome from here on.
\* Mutant: a blank counts as an element.
ElementOrBlankStarts(b) == /\ state = "InUnquoted"
                           /\ containerNewlineOK /\ containerDepth = 1
                           /\ b \notin {",", "[", "\n"}
ElementStarts(b) == /\ state = "InUnquoted"
                    /\ containerNewlineOK /\ containerDepth = 1
                    /\ b \notin {",", "[", "\n", " "}
ClearOnElement(b) ==
  /\ containerNewlineOK' = (containerNewlineOK /\ ~ElementStarts(b))
  /\ containerSawNewline' = (containerSawNewline /\ ~ElementStarts(b))

\* A field that begins here is unquoted; one under way stays what it is.
IntoUnquoted == /\ state' = "InUnquoted"
                /\ fieldQuoted' = IF state = "Outside" THEN FALSE ELSE fieldQuoted
                /\ UNCHANGED <<blocks, headerMode, fields, err>>

Delimiter == /\ \/ state \in Plain /\ Splits
                \/ state = "Quote"
             /\ EmitField(CurrentField, "Outside")

\* A comma inside a container or a generic type.
InnerComma ==
  /\ state \in Plain /\ ~Splits
  /\ IF state = "InUnquoted" /\ containerDepth = 1
     THEN containerNewlineOK' = TRUE /\ containerSawNewline' = FALSE
     ELSE UNCHANGED <<containerNewlineOK, containerSawNewline>>
  /\ IntoUnquoted
  /\ UNCHANGED <<containerDepth, genericDepth, inContainerQuote, containerInnerRowOpen>>

\* The line breaks that stay inside the field.
\* Mutant: no guard against blank lines inside a container.
SwallowsBlankLines == containerNewlineOK \/ inContainerQuote
Swallows == \/ containerNewlineOK /\ ~containerSawNewline
            \/ ~containerNewlineOK /\ inContainerQuote

EndRow == /\ \/ state \in {"Outside", "Quote"}
             \/ state = "InUnquoted" /\ ~Swallows
          /\ FinishRow

InnerNewline ==
  /\ state = "InUnquoted" /\ Swallows
  /\ containerSawNewline' = containerNewlineOK
  /\ UNCHANGED <<state, containerDepth, genericDepth, inContainerQuote,
                 containerNewlineOK, containerInnerRowOpen, fieldQuoted, blocks,
                 headerMode, fields, err>>

\* actionIncrementBracket
OpenBracket ==
  /\ state \in Plain /\ ~Literal
  /\ containerDepth < MaxDepth
  /\ containerDepth' = containerDepth + 1
  /\ CASE state = "Outside" ->
            containerNewlineOK' = TRUE
            /\ UNCHANGED <<containerSawNewline, containerInnerRowOpen>>
       [] state = "InUnquoted" /\ containerDepth = 0 ->
            containerNewlineOK' = TRUE /\ containerSawNewline' = FALSE
            /\ UNCHANGED containerInnerRowOpen
       [] state = "InUnquoted" /\ containerDepth = 1 ->
            containerInnerRowOpen' = (containerNewlineOK \/ containerInnerRowOpen)
            /\ containerNewlineOK' = FALSE /\ containerSawNewline' = FALSE
       [] OTHER ->
            UNCHANGED <<containerNewlineOK, containerSawNewline, containerInnerRowOpen>>
  /\ IntoUnquoted
  /\ UNCHANGED <<genericDepth, inContainerQuote>>

\* actionDecrementBracket.
\* Mutant of Closed: the depth is lowered whatever it is.
LoweredAlways == containerDepth - 1
Closed == IF containerDepth > 0 THEN containerDepth - 1 ELSE 0

CloseBracket ==
  /\ state \in Plain /\ ~Literal
  /\ containerDepth' = Closed
  /\ IF containerDepth' = 1 /\ containerInnerRowOpen
     THEN /\ containerNewlineOK' = TRUE /\ containerSawNewline' = FALSE
          /\ containerInnerRowOpen' = FALSE
     ELSE ClearOnElement("]") /\ UNCHANGED containerInnerRowOpen
  /\ IntoUnquoted
  /\ UNCHANGED <<genericDepth, inContainerQuote>>

\* actionIncrementGeneric, actionDecrementGeneric
Angle(b) ==
  /\ state \in Plain /\ ~Literal /\ headerMode
  /\ genericDepth' = IF b = "<" THEN genericDepth + 1 ELSE genericDepth - 1
  /\ genericDepth' \in (-MaxGeneric)..MaxGeneric
  /\ ClearOnElement(b)
  /\ IntoUnquoted
  /\ UNCHANGED <<containerDepth, inContainerQuote, containerInnerRowOpen>>

\* actionToggleContainerQuote
ToggleQuote == /\ state \in Plain /\ containerDepth > 0
               /\ inContainerQuote' = ~inContainerQuote
               /\ ClearOnElement("\"")
               /\ IntoUnquoted
               /\ UNCHANGED <<containerDepth, genericDepth, containerInnerRowOpen>>

\* A byte that is text where it stands.
IsText(b) == CASE b \in {"x", ")"}   -> TRUE
               [] b \in {"[", "]"}  -> Literal
               [] b \in {"<", ">"}  -> Literal \/ ~headerMode
               [] b \in {"#", "(", " "} -> state = "InUnquoted"
               [] OTHER             -> FALSE
Text(b) == /\ state \in Plain /\ IsText(b)
           /\ ClearOnElement(b)
           /\ IntoUnquoted
           /\ UNCHANGED <<containerDepth, genericDepth, inContainerQuote,
                          containerInnerRowOpen>>

\* Whitespace between fields and behind a closing quote.
Blank == state \in {"Outside", "Quote"} /\ UNCHANGED vars

OpenQuoted == /\ state = "Outside" /\ containerDepth = 0
              /\ state' = "InQuoted" /\ fieldQuoted' = TRUE
              /\ UNCHANGED <<nesting, blocks, headerMode, fields, err>>

\* Any byte of a quoted field; a quote may close it or be the first of two.
QuotedByte(b) == /\ \/ state = "InQuoted" /\ state' = IF b = "\"" THEN "Quote" ELSE "InQuoted"
                    \/ state = "Quote" /\ b = "\"" /\ state' = "InQuoted"
                 /\ UNCHANGED <<nesting, fieldQuoted, blocks, headerMode, fields, err>>

\* actionSkipAnnotation: between fields or behind a closing quote.  A block
\* that a line break cuts short ends the row.
Annotation(end) ==
  /\ state \in {"Outside", "Quote"}
  /\ IF end = "newline"
     THEN \E c, m \in {0, 1} :
            /\ c + m = 1
            /\ fieldCommentBlocks + c <= MaxBlocks /\ fieldMetaBlocks + m <= MaxBlocks
            /\ EmitField(Field(fieldQuoted, fieldCommentBlocks + c, fieldMetaBlocks + m),
                         "RowInUse")
     ELSE /\ CountBlock
          /\ UNCHANGED <<state, nesting, fieldQuoted, headerMode, fields, err>>

EndOfInput == /\ state \in Scanning
              /\ IF state \in {"InQuoted", "Quote"} THEN Fail("unclosed quoted field")
                 ELSE FinishRow

\* NextRow's errors, by the byte that causes them.
BadByte(b) ==
  \/ b = "NUL" /\ state \in Scanning /\ Fail("NUL byte")
  \/ b = "#" /\ state = "Outside" /\ Fail("inline comment")
  \/ b = "\"" /\ state = "InUnquoted" /\ containerDepth = 0 /\ Fail("stray quote")
  \/ /\ state = "Quote" /\ b \notin {"\"", ",", "\n", " ", "(", "NUL"}
     /\ Fail("unexpected char after quote")

ReadError == /\ state \in Scanning \cup {"Leading", "Prefix"}
             /\ Fail("read error")

-----------------------------------------------------------------------------
\* One byte of the input; an annotation block and a skipped line count as one.
Consume(b) ==
  \/ FirstByte(b)
  \/ b = "NUL" /\ LeadingNUL
  \/ b = ","  /\ (Delimiter \/ InnerComma)
  \/ b = "\n" /\ (EndRow \/ InnerNewline)
  \/ b = "["  /\ OpenBracket
  \/ b = "]"  /\ CloseBracket
  \/ b \in {"<", ">"} /\ Angle(b)
  \/ b = "\"" /\ (ToggleQuote \/ OpenQuoted)
  \/ b = " "  /\ Blank
  \/ Text(b)
  \/ b # "NUL" /\ QuotedByte(b)
  \/ BadByte(b)

Call    == StartRow \/ ReleaseRow \/ LeaveHeader
Comment == SkipLine \/ (\E end \in Ends : PrefixBlock(end) \/ Annotation(end))
Stop    == LeadingEOF \/ EndOfInput \/ ReadError

Next == Call \/ Comment \/ Stop \/ (\E b \in Bytes : Consume(b))

Spec == Init /\ [][Next]_vars

-----------------------------------------------------------------------------
TypeOK ==
  /\ state \in States
  /\ containerDepth \in 0..MaxDepth
  /\ genericDepth \in (-MaxGeneric)..MaxGeneric
  /\ inContainerQuote \in BOOLEAN
  /\ containerNewlineOK \in BOOLEAN /\ containerSawNewline \in BOOLEAN
  /\ containerInnerRowOpen \in BOOLEAN
  /\ fieldQuoted \in BOOLEAN
  /\ fieldCommentBlocks \in 0..MaxBlocks /\ fieldMetaBlocks \in 0..MaxBlocks
  /\ headerMode \in BOOLEAN
  /\ fields \in Seq(FieldRecord)
  /\ err \in Errors

\* Except in an unquoted field no bracket is open, whatever the row before it
\* left open: a row can never inherit the nesting of another.  handleOutside
\* and handleQuote end fields on this ground without looking at the depth.
TopLevelBetweenFields ==
  state \in {"Leading", "Prefix", "Outside", "InQuoted", "Quote"} =>
    containerDepth = 0 /\ ~inContainerQuote /\ ~containerNewlineOK

\* Quotes are tracked only inside brackets, so that a bracket that closes
\* the container is never mistaken for text.
QuoteOnlyInContainer == inContainerQuote => containerDepth > 0

\* A line break is welcome only directly inside the outermost container, and
\* a line break can have been taken only where it was welcome.
NewlineOnlyAtDepthOne == containerNewlineOK => containerDepth = 1
SawOnlyWhereOK        == containerSawNewline => containerNewlineOK

\* The memory of an open inner row lives exactly as long as that row: when
\* depth 1 is reached again it is gone, and cannot make a later bracket in
\* element content look like a row.
InnerRowIsInside == containerInnerRowOpen => containerDepth >= 2

\* How the five pieces of nesting state agree, in every state.
NestingOK == /\ TopLevelBetweenFields
             /\ QuoteOnlyInContainer
             /\ NewlineOnlyAtDepthOne /\ SawOnlyWhereOK
             /\ InnerRowIsInside
=============================================================================
