----------------------------- MODULE RowStream ------------------------------
(***************************************************************************)
(* What NextRow promises for plain rows (unquoted fields, no containers):  *)
(* the input's non-blank lines in order, each cut at its commas, every     *)
(* field byte for byte as it stands in the input.  A field is the sequence *)
(* of the input positions it covers.  One row is out at a time.            *)
(***************************************************************************)
EXTENDS Naturals, Sequences

CONSTANTS Bytes, CR, LF, Comma,
          MaxInput,       \* bound: longest input
          MaxFieldSize    \* 0: no limit

VARIABLES input,
          pos,     \* input bytes before the next row
          row,     \* the fields of the row that is out
          status   \* "between" rows, row "out", "end" of input, "error"

vars == <<input, pos, row, status>>

Breaks == {CR, LF}

Init == /\ input \in UNION {[1..n -> Bytes] : n \in 0..MaxInput}
        /\ pos = 0 /\ row = <<>> /\ status = "between"

\* The line after p runs up to its line break or the end of the input.
LineEnd(p) == CHOOSE q \in p..Len(input) :
                /\ q = Len(input) \/ input[q + 1] \in Breaks
                /\ \A r \in (p + 1)..q : input[r] \notin Breaks
AfterBreak(q) ==
  IF q = Len(input) THEN q
  ELSE IF q + 2 <= Len(input) /\ input[q + 1] = CR /\ input[q + 2] = LF THEN q + 2
  ELSE q + 1

\* The positions p+1..q cut at the commas among them: a comma starts the next
\* field, and every other byte belongs to the field that is last so far.
Cut(p, q) ==
  LET cut[r \in p..Len(input)] ==
        IF r = p THEN << <<>> >>
        ELSE IF input[r] = Comma THEN Append(cut[r - 1], <<>>)
        ELSE [cut[r - 1] EXCEPT ![Len(cut[r - 1])] = Append(@, r)]
  IN  cut[q]

SkipBreak == /\ status = "between"
             /\ pos < Len(input) /\ input[pos + 1] \in Breaks
             /\ pos' = AfterBreak(pos)
             /\ UNCHANGED <<input, row, status>>

\* After an error nothing more is read, and the position means nothing.
Error == status' = "error" /\ pos' = 0 /\ UNCHANGED row

NextRow ==
  /\ status = "between"
  /\ pos < Len(input) /\ input[pos + 1] \notin Breaks
  /\ LET fields == Cut(pos, LineEnd(pos))
         tooLong == /\ MaxFieldSize > 0
                    /\ \E k \in DOMAIN fields : Len(fields[k]) > MaxFieldSize
     IN  IF tooLong THEN Error
         ELSE /\ row' = fields
              /\ pos' = AfterBreak(LineEnd(pos))
              /\ status' = "out"
  /\ UNCHANGED input

\* The reader may fail at any time before the row is complete.
Fail == /\ status = "between"
        /\ Error
        /\ UNCHANGED input

NoMoreRows == /\ status = "between" /\ pos = Len(input)
              /\ status' = "end"
              /\ UNCHANGED <<input, pos, row>>

Release == /\ status = "out"
           /\ row' = <<>> /\ status' = "between"
           /\ UNCHANGED <<input, pos>>

Next == SkipBreak \/ NextRow \/ Fail \/ NoMoreRows \/ Release

SafeSpec == Init /\ [][Next]_vars

Spec == SafeSpec /\ WF_vars(Next)
=============================================================================
