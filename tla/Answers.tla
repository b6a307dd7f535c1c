------------------------------ MODULE Answers ------------------------------
(***************************************************************************)
(* What the program says of a text. Of a field of a row: whether the       *)
(* validator accepts it (FieldChecks) and what the decoder makes of it     *)
(* (FieldValues), in its shallow mode too. Of a field of the header: the   *)
(* columns the parser reads, when another column stands in front of it     *)
(* (HeaderTypes).                                                          *)
(***************************************************************************)
EXTENDS HeaderTypes, Temporals

CONSTANTS MaxTimezone,    \* 64, the longest time zone name
          maxFieldSize,   \* the option of the validator, 0 for no limit
          MaxElements,    \* 2^44 on a 64-bit Linux, the greatest capacity of a []any
          MaxRows         \* 2^48 \div 24, the greatest capacity of a [][]any

ASSUME SizeAssumption == MaxTimezone \in Nat /\ maxFieldSize \in Nat
ASSUME RoomAssumption == MaxElements \in Nat /\ MaxRows \in Nat

Check == INSTANCE FieldChecks
Value == INSTANCE FieldValues

\* Mutant: the length that the header fixes is not passed on.
ValidateOpenLength(t, column) ==
  IF t = Null THEN Nil
  ELSE IF Check!StreamingValidator(t, [column EXCEPT !.length = -1]) THEN Decoded(t)
  ELSE Rejected
\* The decoder in mode DecodeShallow: a container is only checked, with the validator's code.
buildContainerValidateFn(t, column) ==
  IF t = Null THEN Nil
  ELSE IF Check!StreamingValidator(t, column) THEN Decoded(t)
  ELSE Rejected
DecodeShallow(t, column) == IF column.kind = "scalar" THEN Value!decodeScalarValue(t, column.element)
                            ELSE buildContainerValidateFn(t, column)

FirstField == <<"y", ":", "int">>

AskOfField(t, column) == [accepted |-> Check!validateCol(t, At(t, 1) = Quote, column),
                          decoded |-> Value!decodeFn(t, column)]

Ask(t, column) ==
  CASE column.kind \in {"scalar", "list", "array"} -> AskOfField(t, column)
    [] column.kind = "header" -> [header |-> ParseHeader(<<FirstField, t>>)]
    [] OTHER -> [nothing |-> TRUE]
=============================================================================
