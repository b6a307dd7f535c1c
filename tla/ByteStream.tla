----------------------------- MODULE ByteStream -----------------------------
(***************************************************************************)
(* What the chunk buffer promises to the tokenizer: the input, one         *)
(* normalised byte at a time, with the physical line and column of the     *)
(* next byte.  CR, LF and CRLF are all delivered as one LF.  Nothing here  *)
(* knows of chunks, short reads or the release of memory.                  *)
(*                                                                         *)
(* A client may save its place at the start of a line and rewind to it,    *)
(* which skipLeadingBlanks does for lines that start with '('.             *)
(***************************************************************************)
EXTENDS Naturals, Sequences

CONSTANTS Bytes,      \* the classes of bytes the input is made of
          CR, LF,     \* the two line-break bytes
          MaxInput    \* bound: longest input

VARIABLES input,      \* the whole input, fixed at the start
          pos,        \* how many input bytes have been delivered
          line, col,  \* of the next byte: line from 1, column from 0
          saved,      \* the place to rewind to
          got         \* what the last read returned

vars == <<input, pos, line, col, saved, got>>

Inputs == UNION {[1..n -> Bytes] : n \in 0..MaxInput}

Start == [pos |-> 0, line |-> 1, col |-> 0]

Init == /\ input \in Inputs
        /\ pos = 0 /\ line = 1 /\ col = 0
        /\ saved = Start
        /\ got = "nothing"

\* The byte at pos, and how many input bytes it stands for.
IsCRLF == /\ pos + 2 <= Len(input)
          /\ input[pos + 1] = CR
          /\ input[pos + 2] = LF
Byte   == IF input[pos + 1] \in {CR, LF} THEN LF ELSE input[pos + 1]
Width  == IF IsCRLF THEN 2 ELSE 1

Read == /\ got # "failed"
        /\ pos < Len(input)
        /\ got' = Byte
        /\ pos' = pos + Width
        /\ line' = IF Byte = LF THEN line + 1 ELSE line
        /\ col' = IF Byte = LF THEN 0 ELSE col + 1
        /\ UNCHANGED <<input, saved>>

ReadEnd == /\ got # "failed"
           /\ pos = Len(input)
           /\ got' = "EOF"
           /\ UNCHANGED <<input, pos, line, col, saved>>

\* The reader fails.  A CR whose successor could not be read is lost.
Fail == /\ got # "failed"
        /\ got' = "failed"
        /\ \/ pos' = pos
           \/ pos < Len(input) /\ input[pos + 1] = CR /\ pos' = pos + 1
        /\ UNCHANGED <<input, line, col, saved>>

Save == /\ got # "failed"
        /\ saved' = [pos |-> pos, line |-> line, col |-> col]
        /\ UNCHANGED <<input, pos, line, col, got>>

Rewind == /\ got # "failed"
          /\ pos' = saved.pos /\ line' = saved.line /\ col' = saved.col
          /\ got' = "nothing"
          /\ UNCHANGED <<input, saved>>

Next == Read \/ ReadEnd \/ Fail \/ Save \/ Rewind

Spec == Init /\ [][Next]_vars
=============================================================================
