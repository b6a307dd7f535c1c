------------------------------- MODULE Typing -------------------------------
(***************************************************************************)
(* A text as its author types it: it starts from one of a few texts of the *)
(* right shape and is edited one character at a time, and after every edit *)
(* the program is asked about it (Answers). What the answer should be is   *)
(* in the modules that extend this one: Values (a field of a row) and      *)
(* Headers (a field of the header, an annotation, the first line).         *)
(***************************************************************************)
EXTENDS Answers

CONSTANTS Columns,     \* [name |-> column]: what the text is for
          Seeds,       \* [name |-> texts from which the editing starts]
          Alphabet,    \* [name |-> characters that are typed]
          MaxEdits     \* [name |-> how many edits]

ASSUME ColumnsAssumption == DOMAIN Columns = DOMAIN Seeds /\ DOMAIN Columns = DOMAIN Alphabet
                              /\ DOMAIN Columns = DOMAIN MaxEdits

\* A character is a string, and none is the one that stands for the end of a text (At).
Char == STRING \ {NoChar}
ASSUME TextsAssumption ==
  \A n \in DOMAIN Columns : Seeds[n] \subseteq Seq(Char) /\ Alphabet[n] \subseteq Char

\* A scalar column is one that ParseHeader makes: its kind is one of the aliases' or enum,
\* and the names and values of an enum are identifiers.
IsMember(m) == isValidIdentifier(m.name) /\ (m.value = <<>> \/ isValidIdentifier(m.value))
IsScalarType(type) == \/ type.kind \in ScalarKinds
                      \/ /\ type.kind = "enum" /\ DOMAIN type.enum \subseteq Nat
                         /\ \A i \in DOMAIN type.enum : IsMember(type.enum[i])
ASSUME TypesAssumption ==
  \A n \in DOMAIN Columns : Columns[n].kind = "scalar" => IsScalarType(Columns[n].element)

VARIABLES name,    \* the name of the column
          column,  \* what the text is for
          text,    \* the field
          edits,   \* how often it has been edited
          said     \* what the program said of it

vars == <<name, column, text, edits, said>>

Init == /\ name \in DOMAIN Columns
        /\ column = Columns[name]
        /\ text \in Seeds[name]
        /\ edits = 0
        /\ said = Ask(text, column)

Replaced == {[text EXCEPT ![i] = c] : i \in DOMAIN text, c \in Alphabet[name]} \ {text}
Dropped == {RemoveAt(text, i) : i \in DOMAIN text}
Inserted == {InsertAt(text, i, c) : i \in 1..(Len(text) + 1), c \in Alphabet[name]}

Edit == /\ edits < MaxEdits[name]
        /\ edits' = edits + 1
        /\ text' \in Replaced \cup Dropped \cup Inserted
        /\ said' = Ask(text', column)
        /\ UNCHANGED <<name, column>>

Next == Edit
Spec == Init /\ [][Next]_vars
=============================================================================
