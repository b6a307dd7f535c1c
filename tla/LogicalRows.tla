----------------------------- MODULE LogicalRows ----------------------------
(***************************************************************************)
(* What continuation promises: the value fields of the physical rows are   *)
(* gathered in order, and a logical row, all the fields gathered since the *)
(* last one, is judged when a physical row ends without a trailing comma.  *)
(* Judging may end the file early; a file that ends well leaves nothing    *)
(* gathered and unjudged.                                                  *)
(***************************************************************************)
EXTENDS Integers, Sequences

CONSTANTS FieldsOfLine   \* the runs of value fields a physical row can hold

VARIABLES gathered,   \* the fields of the logical row under way
          judged,     \* the logical rows judged
          ended       \* "no", "well", or "early"

vars == <<gathered, judged, ended>>

Init == gathered = <<>> /\ judged = <<>> /\ ended = "no"

Gather(fs) == /\ ended = "no"
              /\ gathered' = gathered \o fs
              /\ UNCHANGED <<judged, ended>>

Judge(fs) == /\ ended = "no"
             /\ judged' = Append(judged, gathered \o fs)
             /\ gathered' = <<>>
             /\ ended' \in {"no", "early"}

EndWell  == ended = "no" /\ gathered = <<>> /\ ended' = "well" /\ UNCHANGED <<gathered, judged>>
EndEarly == ended = "no" /\ ended' = "early" /\ UNCHANGED <<gathered, judged>>

Next == (\E fs \in FieldsOfLine : Gather(fs) \/ Judge(fs)) \/ EndWell \/ EndEarly

Spec == Init /\ [][Next]_vars
=============================================================================
