------------------------------- MODULE SdkText ------------------------------
(***************************************************************************)
(* What the encoder and the readers of the SDK (supr/) have in common: a   *)
(* file, or a part of one, is a sequence of pieces: the version line, the  *)
(* header, the cells of a row with the comma before them, and the line     *)
(* break behind.  A cell knows the row it was offered to the encoder in,   *)
(* so that rows can be told apart.                                         *)
(***************************************************************************)
EXTENDS Integers, Sequences

CONSTANT Columns   \* columns of the header

ASSUME ColumnsAssumption == Columns \in Nat \ {0}

Cell(r, c, v) == [row |-> r, col |-> c, value |-> v]
Newline == Cell(0, 0, "newline")
Version == Cell(0, 0, "version")
Header  == Cell(0, 0, "header")
=============================================================================
