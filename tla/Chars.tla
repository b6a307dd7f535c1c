------------------------------- MODULE Chars -------------------------------
(***************************************************************************)
(* Texts as sequences of one-character strings, and the byte classes and   *)
(* small scanners that the scalar validators, the scalar decoders, the     *)
(* container code and the header parser all use (byteclass, the lookup     *)
(* tables of validate/dfa and decode).                                     *)
(*                                                                         *)
(* "\n" is the line feed, "sp" the space, "tab" the tab, "dq" the double   *)
(* quote, "bq" the back quote, "vt" the vertical tab and the form feed,    *)
(* "nul" and "bs" the other control characters below the space and "del"   *)
(* the one at 0x7F; "ws" stands for a Unicode white space and "zw" for an  *)
(* invisible character (U+200B to U+200D, U+2060, U+FEFF), whatever its    *)
(* bytes.                                                                  *)
(***************************************************************************)
EXTENDS Integers, Sequences, FiniteSets

Digits == <<"0", "1", "2", "3", "4", "5", "6", "7", "8", "9">>
Digit == {Digits[i] : i \in DOMAIN Digits}
DigitValue == [c \in Digit |-> (CHOOSE i \in DOMAIN Digits : Digits[i] = c) - 1]

UpperLetters == <<"A", "B", "C", "D", "E", "F", "G", "H", "I", "J", "K", "L", "M",
                  "N", "O", "P", "Q", "R", "S", "T", "U", "V", "W", "X", "Y", "Z">>
LowerLetters == <<"a", "b", "c", "d", "e", "f", "g", "h", "i", "j", "k", "l", "m",
                  "n", "o", "p", "q", "r", "s", "t", "u", "v", "w", "x", "y", "z">>
LowerOf == [c \in {UpperLetters[i] : i \in 1..26} |->
              LowerLetters[CHOOSE i \in 1..26 : UpperLetters[i] = c]]

\* x|0x20 and toLowerString: ASCII upper case folded to lower case.
Lower(c) == IF c \in DOMAIN LowerOf THEN LowerOf[c] ELSE c
LowerText(t) == [i \in DOMAIN t |-> Lower(t[i])]

\* isHexChar and isBase64Char.
HexChar == Digit \cup {"a", "b", "c", "d", "e", "f", "A", "B", "C", "D", "E", "F"}
Base64Char == Digit \cup {"+", "/", "="} \cup {UpperLetters[i] : i \in 1..26}
                    \cup {LowerLetters[i] : i \in 1..26}

(***************************************************************************)
(* byteclass: IsWhitespace, IsForbiddenInString, IsUnicodeEdgeWS.          *)
(***************************************************************************)
IsWhitespace == {"sp", "tab", "\n"}
IsForbiddenInString == {",", "#", "dq", "[", "]", "(", ")", "<", ">", "{", "}", "'", "bq",
                        ";", ":", "=", "?", "/", "\\", "|", "@", "\n"}
IsUnicodeEdgeWS == {"ws", "zw", "vt"}

\* The longest text without blanks at its ends (TrimASCIISpace).
TrimASCIISpace(t) ==
  LET inked == {i \in DOMAIN t : t[i] \notin IsWhitespace}
  IN IF inked = {} THEN <<>>
     ELSE SubSeq(t, CHOOSE i \in inked : \A j \in inked : i <= j,
                    CHOOSE i \in inked : \A j \in inked : i >= j)

(***************************************************************************)
(* Scanners.                                                               *)
(***************************************************************************)
\* The character at i, or none behind the end: "i < len(b) && b[i] == c" is At(t, i) = c.
NoChar == "none"
At(t, i) == IF i \in DOMAIN t THEN t[i] ELSE NoChar

\* The first position from i on whose character is not in S ("for i < len && S[b[i]] { i++ }").
After(t, i, S) ==
  CHOOSE j \in i..(Len(t) + 1) : /\ At(t, j) \notin S
                                 /\ \A k \in i..(j - 1) : t[k] \in S

AfterDigits(t, i) == After(t, i, Digit)
From(t, i) == SubSeq(t, i, Len(t))
AllIn(t, S) == \A i \in DOMAIN t : t[i] \in S

\* The line feeds in the characters i..j-1.
Breaks(t, i, j) == Cardinality({k \in i..(j - 1) : t[k] = "\n"})

\* The number a text of digits stands for.
Number(digits) ==
  LET Value[i \in 0..Len(digits)] == IF i = 0 THEN 0 ELSE Value[i - 1] * 10 + DigitValue[digits[i]]
  IN Value[Len(digits)]

\* A power of ten, as the loops of the decoders make it ("nanos *= 10").
TenTo[n \in Nat] == IF n = 0 THEN 1 ELSE 10 * TenTo[n - 1]

\* What a decoder answers: a value, or nothing.
Rejected == [ok |-> FALSE]
Decoded(v) == [ok |-> TRUE, value |-> v]
Nil == [ok |-> TRUE]                        \* the value of the null literal
Null == <<"_">>

\* The answer of a sequence: its first item before those of the rest, if the rest has an answer.
Before(item, rest) == IF rest.ok THEN Decoded(<<item>> \o rest.value) ELSE Rejected

(***************************************************************************)
(* Quotes inside a quoted text are doubled.                                *)
(***************************************************************************)
Quote == "dq"
PairedQuotes(t) ==
  \A i, j \in DOMAIN t :
    (i <= j /\ At(t, i - 1) # Quote /\ At(t, j + 1) # Quote /\ \A k \in i..j : t[k] = Quote)
      => (j - i) % 2 = 1

unescapeDoubledQuotes(t) ==
  LET Rest[i \in 1..(Len(t) + 2)] ==
        IF i > Len(t) THEN <<>>
        ELSE <<t[i]>> \o Rest[IF t[i] = Quote /\ At(t, i + 1) = Quote THEN i + 2 ELSE i + 1]
  IN Rest[1]

Inside(t) == SubSeq(t, 2, Len(t) - 1)
IsQuoted(t) == Len(t) >= 2 /\ t[1] = Quote /\ t[Len(t)] = Quote

\* strconv.AppendInt: the canonical decimal text of an integer.
NatText[n \in Nat] == IF n < 10 THEN <<Digits[n + 1]>>
                      ELSE Append(NatText[n \div 10], Digits[(n % 10) + 1])
AppendInt(n) == IF n < 0 THEN <<"-">> \o NatText[-n] ELSE NatText[n]
=============================================================================
