----------------------------- MODULE SdkReaders -----------------------------
(***************************************************************************)
(* supr/validator.go and supr/decoder.go: the two readers of the SDK, each *)
(* an iterator over the physical rows of a file.  Their callers call Next  *)
(* as often as they like; DecodeFile is a caller that keeps a copy of      *)
(* every row.  And decode/file_decoder.go, which is one loop.              *)
(*                                                                         *)
(* A file is what NextRow makes of it: whether its header can be read, its *)
(* rows, and how it ends.  What is told of a field is whether its value is *)
(* of the type of its column ("good", "bad"), or may be for all that is    *)
(* left of it ("cut"); "empty" is what stands behind a trailing comma.     *)
(***************************************************************************)
EXTENDS SdkText

CONSTANT MaxErrors   \* WithMaxErrors; 0 for no limit

ASSUME ReaderAssumption == MaxErrors \in Nat

VARIABLES file,
          rowsRead,       \* rows the stream has returned
          reader,         \* "none", "Validator", "Decoder", or "FileDecoder"
          nextResult,     \* what Next returned last, or "not called"
          rowErr, fatalErr, rowNum, errorCount, anyErrors,
          decoderBuf,         \* Decoder.rowBuf
          rows            \* the two DecodeFile: what they kept of each row

readerVars == <<file, rowsRead, reader, nextResult, rowErr, fatalErr, rowNum,
                errorCount, anyErrors, decoderBuf, rows>>

NoFile == [header |-> FALSE, rows |-> <<>>, end |-> "EOF"]
FatalErrors == {"none", "header", "parse", "max errors", "decode"}

ReaderInit == /\ file = NoFile /\ rowsRead = 0
              /\ reader = "none" /\ nextResult = "not called"
              /\ rowErr = FALSE /\ fatalErr = "none"
              /\ rowNum = 0 /\ errorCount = 0 /\ anyErrors = FALSE
              /\ decoderBuf = <<>> /\ rows = <<>>

\* NewValidator, NewDecoder, and FileDecoder up to its loop: the header is read.
Open(kind, f) ==
  /\ reader = "none"
  /\ reader' = kind /\ file' = f
  /\ fatalErr' = IF f.header THEN "none" ELSE "header"
  /\ decoderBuf' = IF kind = "Decoder" /\ f.header THEN [c \in 1..Columns |-> "nil"] ELSE <<>>
  /\ UNCHANGED <<rowsRead, nextResult, rowErr, rowNum, errorCount, anyErrors, rows>>

AtEnd == rowsRead = Len(file.rows)
Row   == file.rows[rowsRead + 1]

-----------------------------------------------------------------------------
(* Validator.                                                              *)

\* Mutant: one error more is let through.
LimitPassed  == MaxErrors > 0 /\ errorCount > MaxErrors
LimitReached == MaxErrors > 0 /\ errorCount >= MaxErrors

\* ValidateRow finds no error.
RowValid(r) == Len(r) = Columns /\ \A c \in 1..Len(r) : r[c].value = "good"

\* Next returns false at once.
NextStops ==
  /\ nextResult' = "false"
  /\ UNCHANGED <<file, rowsRead, reader, rowNum, errorCount, anyErrors, decoderBuf, rows>>

\* Mutant: a row's error does not outlive the row.
ForgetsErrors(bad) == anyErrors' = bad
NotesErrors(bad)   == anyErrors' = (anyErrors \/ bad)

ValidatorNext ==
  /\ reader = "Validator"
  /\ \/ /\ fatalErr # "none"
        /\ NextStops /\ UNCHANGED <<rowErr, fatalErr>>
     \/ /\ fatalErr = "none" /\ LimitReached
        /\ fatalErr' = "max errors"
        /\ NextStops /\ UNCHANGED rowErr
     \/ /\ fatalErr = "none" /\ ~LimitReached /\ AtEnd
        /\ rowErr' = FALSE
        /\ fatalErr' = IF file.end = "EOF" THEN "none" ELSE "parse"
        /\ NextStops
     \/ /\ fatalErr = "none" /\ ~LimitReached /\ ~AtEnd
        /\ nextResult' = "true"
        /\ rowsRead' = rowsRead + 1 /\ rowNum' = rowNum + 1
        /\ rowErr' = ~RowValid(Row)
        /\ errorCount' = IF RowValid(Row) THEN errorCount ELSE errorCount + 1
        /\ NotesErrors(~RowValid(Row))
        /\ UNCHANGED <<file, reader, fatalErr, decoderBuf, rows>>

Valid == ~anyErrors /\ fatalErr = "none"

-----------------------------------------------------------------------------
(* Decoder.                                                                *)

\* DecodeRow: "empty" is a string, and an error in any other column; what is
\* left of a value that was cut may be a value still.
Decodes(r) ==
  IF Len(r) # Columns \/ \E c \in 1..Len(r) : r[c].value = "bad" THEN {FALSE}
  ELSE IF \E c \in 1..Len(r) : r[c].value \in {"empty", "cut"} THEN {TRUE, FALSE} ELSE {TRUE}

\* What DecodeFile keeps of a row.
\* Mutant: the row buffer itself, which the next row overwrites.
KeepBuffer == [shared |-> TRUE, row |-> <<>>]
RowCopy    == [shared |-> FALSE, row |-> decoderBuf']
Kept(k)    == IF k.shared THEN decoderBuf ELSE k.row

DecoderNext ==
  /\ reader = "Decoder"
  /\ \/ /\ fatalErr # "none"
        /\ NextStops /\ UNCHANGED <<rowErr, fatalErr>>
     \/ /\ fatalErr = "none" /\ AtEnd
        /\ fatalErr' = IF file.end = "EOF" THEN "none" ELSE "parse"
        /\ NextStops /\ UNCHANGED rowErr
     \/ /\ fatalErr = "none" /\ ~AtEnd
        /\ rowsRead' = rowsRead + 1 /\ rowNum' = rowNum + 1
        /\ \E decoded \in Decodes(Row) :
             IF decoded
             THEN /\ decoderBuf' = Row /\ nextResult' = "true"
                  /\ rows' = Append(rows, RowCopy)
                  /\ UNCHANGED fatalErr
             ELSE /\ fatalErr' = "decode" /\ nextResult' = "false"
                  /\ UNCHANGED <<decoderBuf, rows>>
        /\ UNCHANGED <<file, reader, rowErr, errorCount, anyErrors>>

\* The loop of FileDecoder: it ends at the end of the file, or with an error
\* and no rows.  DecodeRow makes a new row each time.
FileDecoderNext ==
  /\ reader = "FileDecoder" /\ nextResult # "false"
  /\ \/ /\ fatalErr # "none"
        /\ NextStops /\ UNCHANGED <<rowErr, fatalErr>>
     \/ /\ fatalErr = "none" /\ AtEnd
        /\ fatalErr' = IF file.end = "EOF" THEN "none" ELSE "parse"
        /\ rows' = IF file.end = "EOF" THEN rows ELSE <<>>
        /\ nextResult' = "false"
        /\ UNCHANGED <<file, rowsRead, reader, rowErr, rowNum, errorCount, anyErrors, decoderBuf>>
     \/ /\ fatalErr = "none" /\ ~AtEnd
        /\ rowsRead' = rowsRead + 1
        /\ \E decoded \in Decodes(Row) :
             IF decoded
             THEN /\ rows' = Append(rows, [shared |-> FALSE, row |-> Row]) /\ rowNum' = rowNum + 1
                  /\ nextResult' = "true" /\ UNCHANGED fatalErr
             ELSE /\ rows' = <<>> /\ fatalErr' = "decode"
                  /\ nextResult' = "false" /\ UNCHANGED rowNum
        /\ UNCHANGED <<file, reader, rowErr, errorCount, anyErrors, decoderBuf>>

ReaderNext == ValidatorNext \/ DecoderNext \/ FileDecoderNext

-----------------------------------------------------------------------------
\* The limit on errors is exact: as many rows are reported as it says, then
\* no further row is read and Err is ErrMaxErrors, which means nothing else.
MaxErrorsIsExact ==
  /\ MaxErrors > 0 => errorCount <= MaxErrors
  /\ fatalErr = "max errors" => errorCount = MaxErrors

\* After Next has returned false, Valid holds exactly if the file was read
\* to its end and every row of it is valid; the limit on errors is exact.
VerdictIsRight ==
  /\ reader = "Validator" /\ nextResult = "false" =>
       (Valid <=> /\ file.header /\ AtEnd /\ file.end = "EOF"
                  /\ \A i \in 1..Len(file.rows) : RowValid(file.rows[i]))
  /\ MaxErrorsIsExact

\* The two DecodeFile return the rows of the file, or none and an error: each
\* row is its own, whatever was read after it.
DecodedRowsAreTheFiles ==
  reader \in {"Decoder", "FileDecoder"} /\ fatalErr = "none" =>
    /\ Len(rows) = rowsRead
    /\ \A i \in 1..Len(rows) : Kept(rows[i]) = file.rows[i]

\* The logical rows of a file: a trailing comma continues a row on the next
\* line (supercsv-spec-v1.0.md, "Multi-Line Rows").
Continued(r) == r # <<>> /\ r[Len(r)].value = "empty"
Joined ==
  LET upTo[n \in 0..Len(file.rows)] ==
        IF n = 0 THEN [open |-> <<>>, whole |-> <<>>]
        ELSE LET r == file.rows[n]
                 before == upTo[n - 1]
             IN  IF Continued(r)
                 THEN [before EXCEPT !.open = @ \o SubSeq(r, 1, Len(r) - 1)]
                 ELSE [open |-> <<>>, whole |-> Append(before.whole, before.open \o r)]
  IN  upTo[Len(file.rows)]

\* A file whose logical rows are all valid is found valid.
ValidFileFoundValid ==
  /\ reader = "Validator" /\ nextResult = "false"
  /\ file.header /\ file.end = "EOF" /\ Joined.open = <<>>
  /\ \A i \in 1..Len(Joined.whole) : RowValid(Joined.whole[i])
  => Valid
=============================================================================
