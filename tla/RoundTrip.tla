------------------------------ MODULE RoundTrip -----------------------------
(***************************************************************************)
(* The SDK end to end: a file is written by the encoder, by any calls and  *)
(* over a writer that may fail at any time, and what reached the writer is *)
(* read by one of the readers; or else a reader is given a file that comes *)
(* from elsewhere.                                                         *)
(***************************************************************************)
EXTENDS Encoder, SdkReaders, SequencesExt

CONSTANT MaxRows   \* bound: rows of a file from elsewhere

ASSUME RowsAssumption == MaxRows \in Nat

vars == <<encoderVars, readerVars>>

Init == EncoderInit /\ ReaderInit

\* What the stream makes of a cell.  A string taken as it is may have commas
\* and line breaks in it.
Readings(cell) ==
  LET as(v) == [cell EXCEPT !.value = v]
  IN  CASE cell = Newline            -> {<<Newline>>}
        [] cell.value = "fits"       -> {<<as("good")>>}
        [] cell.value = "cut"        -> {<<cell>>}
        [] cell.value = "unchecked"  ->
             {<<as("good")>>, <<as("bad")>>, <<as("bad"), as("bad")>>,
              <<as("bad"), Newline, as("bad")>>}

ReadOn(texts, cell) == {t \o r : t \in texts, r \in Readings(cell)}
TextsRead(text) ==
  LET upTo[n \in 0..Len(text)] ==
        IF n = 0 THEN {<<>>} ELSE ReadOn(upTo[n - 1], text[n])
  IN  upTo[Len(text)]

\* The rows of a text; the last line may lack its line break.
Feed(split, cell) ==
  IF cell = Newline
  THEN [whole |-> Append(split.whole, split.line), line |-> <<>>]
  ELSE [split EXCEPT !.line = Append(@, cell)]
Splits(text) ==
  LET upTo[n \in 0..Len(text)] ==
        IF n = 0 THEN [whole |-> <<>>, line |-> <<>>] ELSE Feed(upTo[n - 1], text[n])
  IN  upTo
Lines(text) ==
  LET split == Splits(text)[Len(text)]
  IN  split.whole \o IF split.line = <<>> THEN <<>> ELSE <<split.line>>

\* Where a cell was cut inside quotes the last row is an error.  The version
\* line alone may have a part of the header behind it that is a header, too.
WrittenFiles ==
  LET body == SubSeq(writer.out, 4, Len(writer.out))
      cut  == body # <<>> /\ Last(body).value = "cut"
  IN  CASE writer.out = <<>>     -> {NoFile}
        [] Len(writer.out) = 1   -> {[NoFile EXCEPT !.header = h] : h \in BOOLEAN}
        [] OTHER ->
             LET whole == {[header |-> TRUE, rows |-> Lines(t), end |-> "EOF"] :
                             t \in TextsRead(body)}
             IN  whole \cup IF cut THEN {[f EXCEPT !.rows = Front(@), !.end = "error"] :
                                           f \in whole}
                            ELSE {}

\* Files from elsewhere.  A line that is empty is no row.
OtherRows == {r \in UNION {[1..n -> {Cell(0, 0, v) : v \in {"good", "bad", "empty"}}] :
                             n \in 1..Columns} : r # <<Cell(0, 0, "empty")>>}
OtherFiles == {NoFile} \cup [header : {TRUE}, rows : BoundedSeq(OtherRows, MaxRows),
                               end : {"EOF", "error"}]

Readers == {"Validator", "Decoder", "FileDecoder"}
Encode == reader = "none" /\ EncoderNext /\ UNCHANGED readerVars
ReadWritten == /\ closed \/ writer.failed
               /\ \E kind \in Readers, f \in WrittenFiles : Open(kind, f)
               /\ UNCHANGED encoderVars
ReadOther == /\ ~headerDone /\ ~closed /\ ~writer.failed /\ offered = <<>>
             /\ \E kind \in Readers, f \in OtherFiles : Open(kind, f)
             /\ UNCHANGED encoderVars
Read == ReaderNext /\ UNCHANGED encoderVars

Next == Encode \/ ReadWritten \/ ReadOther \/ Read
Spec == Init /\ [][Next]_vars

-----------------------------------------------------------------------------
SdkTypeOK ==
  /\ headerDone \in BOOLEAN /\ closed \in BOOLEAN /\ rowsWritten \in 0..MaxOffered
  /\ Len(writer.buffer) <= BufSize /\ writer.failed \in BOOLEAN
  /\ rowsRead \in 0..Len(file.rows) /\ fatalErr \in FatalErrors
  /\ reader = "Validator" => rowNum = rowsRead
  /\ errorCount \in 0..rowNum /\ anyErrors = (errorCount > 0) /\ rowErr \in BOOLEAN

\* The rows of the calls that returned nil, and of the one that failed.
WrittenRows == Lines(SubSeq(accepted \o failing, 4, Len(accepted \o failing)))
AsRead(row) == [c \in 1..Len(row) |-> [row[c] EXCEPT !.value = "good"]]
AllChecked  == \A i \in 1..Len(accepted \o failing) :
                 (accepted \o failing)[i].value # "unchecked"

\* What EncodeFile writes without error reads back: every row that WriteRow
\* took, in order, and nothing else, without an error in any reader.  Of a
\* writer that failed all rows but perhaps the last read back are among them,
\* in order from the first.  (As long as every value fits its column.)
WrittenReadsBack ==
  writer.out # <<>> /\ AllChecked /\ reader # "none" =>
    /\ \A i \in 1..Len(file.rows) :
         i < Len(file.rows) \/ ~writer.failed =>
           i <= Len(WrittenRows) /\ file.rows[i] = AsRead(WrittenRows[i])
    /\ Len(writer.out) >= 3 /\ ~writer.failed /\ nextResult = "false" =>
         rowsRead = rowsWritten /\ fatalErr = "none" /\ ~anyErrors
=============================================================================
