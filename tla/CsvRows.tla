------------------------------ MODULE CsvRows -------------------------------
(***************************************************************************)
(* csvstream/stream.go and row.go: how a row's fields are kept.  A field   *)
(* is not copied when it ends: a rawField remembers where its bytes lie in *)
(* the chunk buffer (chunk indexes and offsets) and Bytes looks them up    *)
(* while the row is in use.  Releasing the row releases the chunks.        *)
(*                                                                         *)
(* The tokenizer's control is RecordScanner's subject; here it is reduced  *)
(* to rows of unquoted fields, where commas and line breaks are all the    *)
(* structure there is.                                                     *)
(***************************************************************************)
EXTENDS ChunkBuffer

CONSTANTS Comma,
          MaxFieldSize    \* StreamOptions.MaxFieldSize; 0: no limit

ASSUME RowAssumption == Comma \in Bytes \ {CR, LF} /\ MaxFieldSize \in Nat

VARIABLES state,          \* "leading" | "Outside" | "InUnquoted" | "error" | "EOF"
          fields,         \* row.Fields
          fieldStart,     \* cursor where the current field began
          rowInUse,
          releaseCursor

rowVars == <<state, fields, fieldStart, rowInUse, releaseCursor>>
csvVars == <<bufferVars, rowVars>>

Ended == {"error", "EOF"}

RowInit == /\ BufferInit
           /\ state = "leading" /\ fields = <<>> /\ fieldStart = Origin
           /\ rowInUse = FALSE /\ releaseCursor = Origin

-----------------------------------------------------------------------------
\* fieldLength: an error when the end lies in an earlier chunk.
ValidRange(start, end) == start.chunk <= end.chunk
\* Mutant: forgets the chunks before the last.
LengthInLastChunk(start, end) ==
  IF start.chunk = end.chunk THEN end.offset - start.offset ELSE end.offset
FieldLength(start, end) ==
  IF start.chunk = end.chunk THEN end.offset - start.offset
  ELSE LET upTo[k \in start.chunk..end.chunk] ==
             IF k = start.chunk THEN mem[chunks[k + 1]].end - start.offset
             ELSE upTo[k - 1] + (IF k = end.chunk THEN end.offset
                                 ELSE mem[chunks[k + 1]].end)
       IN  upTo[end.chunk]

\* buildExtraSegments: the parts of the field behind its first chunk.
ExtraSegments(start, end) ==
  [i \in 1..(end.chunk - start.chunk) |->
     LET k == start.chunk + i
     IN  [chunk |-> k, lo |-> 0,
          hi |-> IF k = end.chunk THEN end.offset ELSE mem[chunks[k + 1]].end]]

\* Mutant: the first part of a field that spans chunks ends where the field does.
RawFieldInOneChunk(start, end) ==
  [firstChunk |-> start.chunk, firstStart |-> start.offset, firstEnd |-> end.offset,
   extra |-> ExtraSegments(start, end)]
RawField(start, end) ==
  [firstChunk |-> start.chunk, firstStart |-> start.offset,
   firstEnd |-> IF start.chunk = end.chunk THEN end.offset
                ELSE mem[chunks[start.chunk + 1]].end,
   extra |-> ExtraSegments(start, end)]

\* Bytes and materializeSegments: the field's bytes, looked up now.
FieldCells(f) ==
  LET extra[n \in 0..Len(f.extra)] ==
        IF n = 0 THEN <<>>
        ELSE extra[n - 1] \o Cells(f.extra[n].chunk + 1, f.extra[n].lo, f.extra[n].hi)
  IN  Cells(f.firstChunk + 1, f.firstStart, f.firstEnd) \o extra[Len(f.extra)]

\* emitField: the field is checked and appended; the next one starts at the
\* cursor behind the byte that ended this one.
Fits(start, end) == /\ ValidRange(start, end)
                    /\ MaxFieldSize > 0 => FieldLength(start, end) <= MaxFieldSize

EmitThen(start, end, next) ==
  IF Fits(start, end)
  THEN /\ fields' = Append(fields, RawField(start, end))
       /\ fieldStart' = cursor'
       /\ next
  ELSE /\ state' = "error"
       /\ UNCHANGED <<fields, fieldStart, rowInUse, releaseCursor>>

\* Mutant: releases up to the row's last field instead of its end.
FinishRowEarly == /\ releaseCursor' = fieldStart
                  /\ rowInUse' = TRUE
                  /\ state' = "leading"
FinishRow == /\ releaseCursor' = cursor'
             /\ rowInUse' = TRUE
             /\ state' = "leading"

Goto(s) == state' = s /\ UNCHANGED <<rowInUse, releaseCursor>>

-----------------------------------------------------------------------------
(* NextRow, a byte at a time.  pos, where the byte stands, is Here.        *)

Scanning(s) == ~rowInUse /\ state = s

SkipBlankLine == /\ Scanning("leading")
                 /\ ReadByte /\ Value = LF
                 /\ UNCHANGED rowVars

FirstByte == /\ Scanning("leading")
             /\ ReadByte /\ Value # LF
             /\ IF Value = Comma
                THEN EmitThen(Here, Here, Goto("Outside"))
                ELSE /\ fieldStart' = Here
                     /\ Goto("InUnquoted")
                     /\ UNCHANGED fields

Delimiter == /\ Scanning("Outside") \/ Scanning("InUnquoted")
             /\ ReadByte /\ Value = Comma
             /\ EmitThen(fieldStart, Here, Goto("Outside"))

EndRow == /\ Scanning("Outside") \/ Scanning("InUnquoted")
          /\ ReadByte /\ Value = LF
          /\ EmitThen(fieldStart, Here, FinishRow)

FieldByte == /\ Scanning("Outside") \/ Scanning("InUnquoted")
             /\ ReadByte /\ Value \notin {Comma, LF}
             /\ fieldStart' = IF state = "Outside" THEN Here ELSE fieldStart
             /\ Goto("InUnquoted")
             /\ UNCHANGED fields

\* Mutant: the end of the input between rows is not reported.
EndOfRowsOnly ==
  /\ ~rowInUse /\ ReadEOF
  /\ IF state \in {"Outside", "InUnquoted"}
     THEN EmitThen(fieldStart, ClampCursor(Here), FinishRow) ELSE UNCHANGED rowVars
EndOfInput ==
  /\ ~rowInUse /\ ReadEOF
  /\ \/ /\ state = "leading"
        /\ state' = "EOF"
        /\ UNCHANGED <<fields, fieldStart, rowInUse, releaseCursor>>
     \/ /\ state \in {"Outside", "InUnquoted"}
        /\ EmitThen(fieldStart, ClampCursor(Here), FinishRow)

Fill == /\ ~rowInUse /\ state \notin Ended
        /\ FillChunk
        /\ UNCHANGED rowVars

ReaderFails == /\ ~rowInUse /\ state \notin Ended
               /\ ReadError
               /\ state' = "error"
               /\ UNCHANGED <<fields, fieldStart, rowInUse, releaseCursor>>

\* RawRow.Release and releaseRow; no other row is read before (errRowInUse).
ReleaseRow == /\ rowInUse
              /\ ReleaseUpTo(releaseCursor)
              /\ rowInUse' = FALSE
              /\ fields' = <<>>
              /\ fieldStart' = cursor'
              /\ UNCHANGED <<state, releaseCursor, saved, got>>

ScanStep == \/ SkipBlankLine \/ FirstByte \/ Delimiter \/ EndRow \/ FieldByte
            \/ EndOfInput \/ Fill

-----------------------------------------------------------------------------
\* A row in use lies wholly in chunks the buffer still owns and below the
\* fill mark of each, so that Bytes never indexes past a chunk.
FieldsInBounds ==
  \A f \in {fields[k] : k \in DOMAIN fields} :
    LET segs == {[chunk |-> f.firstChunk, lo |-> f.firstStart, hi |-> f.firstEnd]}
                  \cup {f.extra[i] : i \in DOMAIN f.extra}
    IN  \A s \in segs : /\ s.chunk < Len(chunks)
                        /\ s.lo <= s.hi
                        /\ s.hi <= mem[chunks[s.chunk + 1]].end

\* Once a row is released the buffer holds at most one chunk of input that
\* was read ahead: memory does not grow with the number of rows.
ReleasedMemoryBounded ==
  [][ReleaseRow => Len(chunks') <= 1]_csvVars

\* Every row is delivered: the input is read to its end unless the reader
\* fails or a field is too large.
EveryRowDelivered == <>(state \in Ended)

\* The rows are those of RowStream.  Between rows its position is the
\* cursor's, during a row the start of the row's first field.
RowStart == IF fields # <<>>
            THEN [chunk |-> fields[1].firstChunk, offset |-> fields[1].firstStart]
            ELSE IF state \in {"leading", "EOF"} THEN Here ELSE fieldStart
Rows == INSTANCE RowStream WITH
          pos    <- IF state = "error" THEN 0
                    ELSE IF rowInUse THEN PositionOf(Here) ELSE PositionOf(RowStart),
          row    <- IF rowInUse THEN [k \in DOMAIN fields |-> FieldCells(fields[k])]
                    ELSE <<>>,
          status <- IF rowInUse THEN "out"
                    ELSE IF state = "EOF" THEN "end"
                    ELSE IF state = "error" THEN "error" ELSE "between"
RefinesRowStream == Rows!Spec
=============================================================================
