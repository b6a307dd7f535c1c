------------------------------- MODULE Encoder ------------------------------
(***************************************************************************)
(* supr/encoder.go: FileEncoder, which builds each row in a buffer of its  *)
(* own and hands it to a bufio.Writer in one piece; EncodeFile is a caller *)
(* that writes the header and every row, closes, and stops at the first    *)
(* error.  Callers may call in any order.                                  *)
(***************************************************************************)
EXTENDS SdkText

CONSTANTS BufSize,    \* pieces bufio.Writer holds (4096 bytes in the program)
          MaxOffered  \* bound: rows offered to WriteRow

ASSUME EncoderAssumption == BufSize \in Nat \ {0} /\ MaxOffered \in Nat

VARIABLES headerDone, closed, rowsWritten,
          rowBuf,
          writer,     \* bufio.Writer: what left it, what it holds, sticky error
          offered,    \* history: the rows offered to WriteRow
          accepted,   \* history: what the calls that returned nil were to write
          failing     \* history: what the call was to write that the writer failed in

encoderVars == <<headerDone, closed, rowsWritten, rowBuf, writer, offered,
                 accepted, failing>>

\* What AppendValue makes of a value: it fits its column; it has the wrong Go
\* type; or it is a string taken as it is for a typed column.
Values == {"fits", "mismatch", "unchecked"}
\* What a row of the wrong length holds is not looked at.
RowsToOffer == [1..Columns -> Values] \cup
               {[c \in 1..n |-> "fits"] : n \in (1..(Columns + 1)) \ {Columns}}

EncoderInit == /\ headerDone = FALSE /\ closed = FALSE /\ rowsWritten = 0
               /\ rowBuf = <<>>
               /\ writer = [out |-> <<>>, buffer |-> <<>>, failed |-> FALSE]
               /\ offered = <<>> /\ accepted = <<>> /\ failing = <<>>

-----------------------------------------------------------------------------
(* bufio.Writer and the io.Writer below it, which may fail in any write    *)
(* after taking a part of it, and once it failed is not written to again.  *)

\* Everything up to piece n leaves the buffer, or a part of it does and the
\* write fails, perhaps in the middle of a cell.
Passed(w, text, n) ==
  {[out |-> w.out \o SubSeq(text, 1, n), buffer |-> SubSeq(text, n + 1, Len(text)),
    failed |-> FALSE]}
\* What gets out of the piece behind the first k: nothing, or a part of a cell.
Torn(text, n, k) ==
  {<<>>} \cup IF k < n /\ text[k + 1].row > 0
             THEN {<<[text[k + 1] EXCEPT !.value = "cut"]>>} ELSE {}
Cut(w, text, n) ==
  UNION {{[out |-> w.out \o SubSeq(text, 1, k) \o part, buffer |-> <<>>, failed |-> TRUE] :
            part \in Torn(text, n, k)} : k \in 0..n}

\* Write copies what fits; a full buffer is flushed, and what is larger than
\* the empty buffer is written past it.
Leaving(w, p) ==
  LET size == Len(w.buffer) + Len(p)
  IN  IF size <= BufSize THEN 0
      ELSE IF w.buffer = <<>> \/ size > 2 * BufSize THEN size ELSE BufSize
Write(w, p) ==
  IF w.failed THEN {w}
  ELSE LET text == w.buffer \o p
           n == Leaving(w, p)
       IN  Passed(w, text, n) \cup IF n = 0 THEN {} ELSE Cut(w, text, n)

Flush(w) ==
  IF w.failed \/ w.buffer = <<>> THEN {w}
  ELSE Passed(w, w.buffer, Len(w.buffer)) \cup Cut(w, w.buffer, Len(w.buffer))

-----------------------------------------------------------------------------
\* The outcome of a call that is to write "text".
Settle(text) ==
  IF writer'.failed
  THEN failing' = (IF writer.failed THEN failing ELSE text) /\ UNCHANGED accepted
  ELSE accepted' = accepted \o text /\ UNCHANGED failing

WriteHeader ==
  /\ ~headerDone     \* otherwise an error that changes nothing
  /\ \E w1 \in Write(writer, <<Version>>) :
     \E w2 \in Write(w1, <<Header>>) :
     \E w3 \in Write(w2, <<Newline>>) : writer' = w3
  /\ headerDone' = ~writer'.failed
  /\ Settle(<<Version, Header, Newline>>)
  /\ UNCHANGED <<closed, rowsWritten, rowBuf, offered>>

\* The buffer a row is built in is emptied first.
\* Mutant: it is not.
RowBufKept == rowBuf
EmptyRowBuf == <<>>

Offer(row) == /\ Len(offered) < MaxOffered
              /\ offered' = Append(offered, row)
CellsUpTo(row, n) == [c \in 1..n |-> Cell(Len(offered) + 1, c, row[c])]
\* Mutant: a row may be shorter.
NoExtraColumns(row)  == Len(row) <= Columns
HasEveryColumn(row)  == Len(row) = Columns
Mismatches(row) == {c \in 1..Len(row) : row[c] = "mismatch"}

\* Refused before anything is built.
RefuseRow(row) ==
  /\ Offer(row)
  /\ closed \/ ~headerDone \/ ~HasEveryColumn(row)
  /\ UNCHANGED <<headerDone, closed, rowsWritten, rowBuf, writer, accepted, failing>>

\* AppendValue fails at a column: what was built so far stays in rowBuf.
RejectRow(row) ==
  /\ Offer(row)
  /\ ~closed /\ headerDone /\ HasEveryColumn(row)
  /\ Mismatches(row) # {}
  /\ \E c \in Mismatches(row) :
       /\ \A d \in Mismatches(row) : c <= d
       /\ rowBuf' = EmptyRowBuf \o CellsUpTo(row, c - 1)
  /\ UNCHANGED <<headerDone, closed, rowsWritten, writer, accepted, failing>>

WriteRow(row) ==
  /\ Offer(row)
  /\ ~closed /\ headerDone /\ HasEveryColumn(row)
  /\ Mismatches(row) = {}
  /\ rowBuf' = EmptyRowBuf \o CellsUpTo(row, Len(row)) \o <<Newline>>
  /\ writer' \in Write(writer, rowBuf')
  /\ rowsWritten' = IF writer'.failed THEN rowsWritten ELSE rowsWritten + 1
  /\ Settle(CellsUpTo(row, Len(row)) \o <<Newline>>)
  /\ UNCHANGED <<headerDone, closed>>

\* Mutant: the encoder is closed whether or not the flush succeeds.
CloseAnyway == /\ ~closed
               /\ writer' \in Flush(writer)
               /\ closed' = TRUE
               /\ Settle(<<>>)
               /\ UNCHANGED <<headerDone, rowsWritten, rowBuf, offered>>
Close == /\ ~closed     \* otherwise nothing happens, and nil is returned
         /\ writer' \in Flush(writer)
         /\ closed' = ~writer'.failed
         /\ Settle(<<>>)
         /\ UNCHANGED <<headerDone, rowsWritten, rowBuf, offered>>

EncoderNext == \/ WriteHeader \/ Close
               \/ \E row \in RowsToOffer : RefuseRow(row) \/ RejectRow(row) \/ WriteRow(row)

-----------------------------------------------------------------------------
IsPrefixOf(s, t) == Len(s) <= Len(t) /\ s = SubSeq(t, 1, Len(s))
\* The pieces of s that are whole: all, or all but the last.
Whole(s) == IF s # <<>> /\ s[Len(s)].value = "cut" THEN SubSeq(s, 1, Len(s) - 1) ELSE s

\* The output is what the calls that returned nil were to write, in order and
\* whole, but for what is still buffered; only where the writer failed may a
\* part of one further call follow.  Nothing of a refused or rejected row is in it.
OutputIsAccepted ==
  IF writer.failed THEN IsPrefixOf(Whole(writer.out), accepted \o failing)
  ELSE writer.out \o writer.buffer = accepted

\* When Close returns nil, every byte of every call that returned nil before
\* has reached the writer (FileEncoder.Close).
CloseMeansWritten == [][closed' /\ ~closed => writer'.out = accepted]_encoderVars
=============================================================================
