------------------------------ MODULE Scalars ------------------------------
(***************************************************************************)
(* The scalar types without a calendar: the validators of validate/dfa     *)
(* (Validate...) and the decoders of decode (decode...), which are written *)
(* twice in the code and must accept the same texts.                       *)
(*                                                                         *)
(* Widths are parameters: an int64 is MinInt..MaxInt, whose largest value  *)
(* has MaxIntDigits digits (19 in the code).                               *)
(***************************************************************************)
EXTENDS Chars

CONSTANTS MaxInt,         \* math.MaxInt64
          MaxIntDigits,   \* 19, the digits of MaxInt
          MaxDecimal,     \* 128, the longest decimal
          MaxFraction,    \* 64, the longest fraction of a decimal
          MaxExponent,    \* 308, the greatest power of ten of a float64
          FloatLimit      \* 2^1024 - 2^970, the least number that no float64 stands for

ASSUME WidthAssumption ==
  /\ MaxInt \in Nat /\ MaxIntDigits \in Nat \ {0}
  /\ TenTo[MaxIntDigits - 1] <= MaxInt + 1 /\ MaxInt < TenTo[MaxIntDigits]
  /\ (MaxInt % 10) < 9
ASSUME DecimalAssumption == MaxFraction \in Nat /\ MaxDecimal \in Nat
ASSUME ExponentAssumption == /\ MaxExponent \in Nat /\ FloatLimit \in Nat
                             /\ TenTo[MaxExponent] <= FloatLimit
                             /\ FloatLimit < TenTo[MaxExponent + 1]

MinInt == -MaxInt - 1

Unsigned(t) == IF At(t, 1) = "-" THEN Tail(t) ELSE t

-----------------------------------------------------------------------------
(***************************************************************************)
(* int.                                                                    *)
(***************************************************************************)
\* The slow path of ValidateInt: a digit that would push the value over the limit.
PastLimit(negative, digits) ==
  LET lastDigit == (MaxInt % 10) + (IF negative THEN 1 ELSE 0)
  IN \E k \in DOMAIN digits :
       LET val == Number(SubSeq(digits, 1, k - 1))
       IN \/ val > MaxInt \div 10
          \/ val = MaxInt \div 10 /\ DigitValue[digits[k]] > lastDigit

ValidateInt(t) ==
  LET negative == At(t, 1) = "-"
      digits == Unsigned(t)
  IN /\ Len(t) \in 1..(MaxIntDigits + 1)
     /\ digits # <<>>
     /\ ~(negative /\ digits = <<"0">>)
     /\ ~(digits[1] = "0" /\ Len(digits) > 1)
     /\ AllIn(digits, Digit)
     /\ Len(digits) < MaxIntDigits \/ ~PastLimit(negative, digits)

\* Mutant: the lowest int64 forgotten.
TooLowWithoutMin(val, d) == val < -(MaxInt \div 10) \/ (val = -(MaxInt \div 10) /\ d > MaxInt % 10)
\* Whether the next digit would leave the range of an int64.
TooLow(val, d) == val < -(MaxInt \div 10) \/ (val = -(MaxInt \div 10) /\ d > (MaxInt % 10) + 1)
TooHigh(val, d) == val > MaxInt \div 10 \/ (val = MaxInt \div 10 /\ d > MaxInt % 10)

\* The decoder keeps a signed value and checks, from MaxIntDigits digits on, before it
\* takes the next digit.
decodeInt(t) ==
  LET negative == At(t, 1) = "-"
      digits == Unsigned(t)
      checked == Len(digits) >= MaxIntDigits
      Take(acc, d) ==
        IF \/ ~acc.ok
           \/ checked /\ (IF negative THEN TooLow(acc.value, d) ELSE TooHigh(acc.value, d))
        THEN Rejected
        ELSE Decoded(acc.value * 10 + (IF negative THEN -d ELSE d))
      Value[i \in 0..Len(digits)] ==
        IF i = 0 THEN Decoded(0)
        ELSE IF digits[i] \notin Digit THEN Rejected
        ELSE Take(Value[i - 1], DigitValue[digits[i]])
  IN IF \/ Len(t) \notin 1..(MaxIntDigits + 1)
        \/ digits = <<>>
        \/ negative /\ digits = <<"0">>
        \/ Head(digits) = "0" /\ Len(digits) > 1
     THEN Rejected
     ELSE Value[Len(digits)]

-----------------------------------------------------------------------------
(***************************************************************************)
(* float: nan, inf, -inf in any case, or -?d+(.d+)?([eE][+-]?d+)?.         *)
(***************************************************************************)
FloatNames == {<<"n", "a", "n">>, <<"i", "n", "f">>, <<"-", "i", "n", "f">>}

\* Where the digits of the number, of its fraction and of its exponent end.
FloatSpans(t) ==
  LET HasExponent(fraction) == Lower(At(t, fraction)) = "e"
      Spans(first, whole, fraction, power) ==
        [first |-> first, whole |-> whole, fraction |-> fraction, power |-> power,
         end |-> IF HasExponent(fraction) THEN AfterDigits(t, power) ELSE fraction]
      Exponent(first, whole, fraction) ==
        Spans(first, whole, fraction,
              IF ~HasExponent(fraction) THEN fraction
              ELSE IF At(t, fraction + 1) \in {"+", "-"} THEN fraction + 2 ELSE fraction + 1)
      Fraction(first, whole) ==
        Exponent(first, whole, IF At(t, whole) = "." THEN AfterDigits(t, whole + 1) ELSE whole)
      Whole(first) == Fraction(first, AfterDigits(t, first))
  IN Whole(IF At(t, 1) = "-" THEN 2 ELSE 1)

ValidateFloat(t) ==
  LET Complete(s) == /\ s.whole > s.first
                     /\ At(t, s.whole) = "." => s.fraction > s.whole + 1
                     /\ Lower(At(t, s.fraction)) = "e" => s.end > s.power
                     /\ s.end = Len(t) + 1
  IN LowerText(t) \in FloatNames \/ Complete(FloatSpans(t))

\* The whole part of a number with the greatest power of ten, whose first digit is at top.
Largest(mantissa, top) ==
  Number([j \in 1..(MaxExponent + 1) |->
            IF top + j - 1 \in DOMAIN mantissa THEN mantissa[top + j - 1] ELSE "0"])

\* strconv.ParseFloat fails on a number beyond the range of a float64, and only on that:
\* a number too small becomes zero. The power of ten of its first digit decides or, where
\* that is the greatest, the whole part of the number.
OutOfRange(t) ==
  LET Mantissa(s) == SubSeq(t, s.first, s.whole - 1) \o SubSeq(t, s.whole + 1, s.fraction - 1)
      Exponent(s) == (IF At(t, s.power - 1) = "-" THEN -1 ELSE 1) * Number(SubSeq(t, s.power, s.end - 1))
      TooGreat(s, mantissa) ==
        \E top \in DOMAIN mantissa :
          LET power == s.whole - s.first - top + Exponent(s)
          IN /\ mantissa[top] # "0" /\ \A j \in 1..(top - 1) : mantissa[j] = "0"
             /\ \/ power > MaxExponent
                \/ power = MaxExponent /\ Largest(mantissa, top) >= FloatLimit
      Beyond(s) == TooGreat(s, Mantissa(s))
  IN Beyond(FloatSpans(t))

decodeFloat(t) ==
  LET Value(first, whole, point, sign) ==
        LET exponent == At(t, point) \in {"e", "E"}
            end == IF exponent THEN AfterDigits(t, sign) ELSE point
        IN IF \/ whole = first
              \/ At(t, whole) = "." /\ point = whole + 1
              \/ exponent /\ end = sign
              \/ end # Len(t) + 1
              \/ OutOfRange(t)
           THEN Rejected
           ELSE Decoded(t)
      Exponent(first, whole, point) ==
        Value(first, whole, point, IF At(t, point + 1) \in {"+", "-"} THEN point + 2 ELSE point + 1)
      Fraction(first, whole) ==
        Exponent(first, whole, IF At(t, whole) = "." THEN AfterDigits(t, whole + 1) ELSE whole)
      Whole(first) == Fraction(first, AfterDigits(t, first))
  IN IF LowerText(t) \in FloatNames THEN Decoded(LowerText(t))
     ELSE Whole(IF At(t, 1) = "-" THEN 2 ELSE 1)

-----------------------------------------------------------------------------
(***************************************************************************)
(* decimal. A negative number below one ("-0.") takes a path of its own,   *)
(* which looks for a digit other than 0 and never counts the fraction.     *)
(***************************************************************************)
ValidateDecimal(t) ==
  LET negative == At(t, 1) = "-"
      i == IF negative THEN 2 ELSE 1
      whole == AfterDigits(t, i + 1)
      fraction == From(t, whole + 1)
  IN /\ Len(t) \in 1..MaxDecimal
     /\ At(t, i) \in Digit
     /\ ~(negative /\ From(t, i) = <<"0">>)
     /\ IF negative /\ t[i] = "0" /\ At(t, i + 1) = "." /\ Len(t) - i + 1 > 2
        THEN LET digits == From(t, i + 2)
             IN AllIn(digits, Digit) /\ ~AllIn(digits, {"0"})
        ELSE /\ t[i] = "0" => At(t, i + 1) \in {NoChar, "."}
             /\ \/ whole = Len(t) + 1
                \/ t[whole] = "." /\ AllIn(fraction, Digit) /\ Len(fraction) \in 1..MaxFraction

\* Mutant: no path of its own.
NeverBelowOne(t) == FALSE
\* The path of its own in the decoder.
BelowOne(t) == Len(t) > 3 /\ SubSeq(t, 1, 3) = <<"-", "0", ".">>

decodeDecimal(t) ==
  LET i == IF At(t, 1) = "-" THEN 2 ELSE 1
      point == AfterDigits(t, i + 1)
      end == IF At(t, point) = "." THEN AfterDigits(t, point + 1) ELSE point
  IN IF \/ Len(t) \notin 1..MaxDecimal
        \/ At(t, i) \notin Digit
        \/ t = <<"-", "0">>
        \/ BelowOne(t) /\ (\E k \in 4..Len(t) : t[k] \notin Digit)
        \/ BelowOne(t) /\ (\A k \in 4..Len(t) : t[k] = "0")
     THEN Rejected
     ELSE IF BelowOne(t) THEN Decoded(t)
     ELSE IF \/ t[i] = "0" /\ Len(t) > i /\ t[i + 1] # "."
             \/ At(t, point) = "." /\ end - point - 1 \notin 1..MaxFraction
             \/ end # Len(t) + 1
          THEN Rejected
          ELSE Decoded(t)

-----------------------------------------------------------------------------
(***************************************************************************)
(* bool.                                                                   *)
(***************************************************************************)
TrueText == <<"t", "r", "u", "e">>
FalseText == <<"f", "a", "l", "s", "e">>

ValidateBool(t) == \/ Len(t) = 1 /\ t[1] \in {"0", "1"}
                   \/ Len(t) = 4 /\ LowerText(t) = TrueText
                   \/ Len(t) = 5 /\ LowerText(t) = FalseText

decodeBool(t) ==
  CASE Len(t) = 1 /\ t[1] \in {"0", "1"} -> Decoded(t[1] = "1")
    [] Len(t) = 4 /\ LowerText(t) = TrueText -> Decoded(TRUE)
    [] Len(t) = 5 /\ LowerText(t) = FalseText -> Decoded(FALSE)
    [] OTHER -> Rejected

\* AppendBool
AppendBool(v) == IF v THEN <<"1">> ELSE <<"0">>

-----------------------------------------------------------------------------
(***************************************************************************)
(* bytes:hex, bytes:b64 and uuid. A decoded byte is a number; the bytes of *)
(* a base64 text are left to encoding/base64, which fails on a text whose  *)
(* length it cannot have produced.                                         *)
(***************************************************************************)
\* hexCharToNibble
HexDigits == SubSeq(LowerLetters, 1, 6)
hexCharToNibble(c) == IF c \in Digit THEN DigitValue[c]
                      ELSE 9 + (CHOOSE i \in 1..6 : HexDigits[i] = Lower(c))
\* Mutant: the nibbles swapped.
HexByteSwapped(t, i) == 16 * hexCharToNibble(t[i + 1]) + hexCharToNibble(t[i])
HexByte(t, i) == 16 * hexCharToNibble(t[i]) + hexCharToNibble(t[i + 1])

ValidateBytesHex(t) == Len(t) > 0 /\ AllIn(t, HexChar) /\ Len(t) % 2 = 0

decodeBytesHex(t) ==
  IF Len(t) = 0 \/ ~AllIn(t, HexChar) \/ Len(t) % 2 # 0 THEN Rejected
  ELSE Decoded([k \in 1..(Len(t) \div 2) |-> HexByte(t, 2 * k - 1)])

ValidateBytesB64(t) ==
  LET padding == {i \in DOMAIN t : t[i] = "="}
      padCount == Len(t) + 1 - (IF padding = {} THEN Len(t) + 1
                                ELSE CHOOSE i \in padding : \A j \in padding : i <= j)
  IN /\ Len(t) > 0 /\ Len(t) % 4 # 1
     /\ AllIn(t, Base64Char)
     /\ padding = (Len(t) - padCount + 1)..Len(t)
     /\ padCount = 0 \/ (Len(t) % 4 = 0 /\ padCount <= 2)

\* What encoding/base64 makes of a text of its alphabet: RawStdEncoding of a text without
\* padding, StdEncoding of one with it.
RawStdDecodes(t) == Len(t) % 4 # 1
StdDecodes(t) ==
  /\ Len(t) % 4 = 0
  /\ \A i \in DOMAIN t : t[i] = "=" => i >= Len(t) - 1 /\ From(t, i) \in {<<"=">>, <<"=", "=">>}

decodeBytesB64(t) ==
  LET pad == {i \in DOMAIN t : t[i] = "="}
      padCount == IF pad = {} THEN 0 ELSE Len(t) + 1 - (CHOOSE i \in pad : \A j \in pad : i <= j)
  IN IF \/ Len(t) = 0
        \/ ~AllIn(t, Base64Char)
        \/ pad # (Len(t) - padCount + 1)..Len(t)
        \/ padCount # 0 /\ (Len(t) % 4 # 0 \/ padCount > 2)
        \/ ~(IF padCount = 0 /\ Len(t) % 4 # 0 THEN RawStdDecodes(t) ELSE StdDecodes(t))
     THEN Rejected
     ELSE Decoded(t)

UUIDDashes == {9, 14, 19, 24}

ValidateUUID(t) ==
  /\ Len(t) = 36
  /\ \A i \in 1..36 : IF i \in UUIDDashes THEN t[i] = "-" ELSE t[i] \in HexChar

\* decodeUUID reads the sixteen bytes; the positions are those of its table.
UUIDPositions == <<1, 3, 5, 7, 10, 12, 15, 17, 20, 22, 25, 27, 29, 31, 33, 35>>

decodeUUID(t) ==
  IF \/ Len(t) # 36
     \/ \E i \in UUIDDashes : t[i] # "-"
     \/ \E k \in 1..16 : \E i \in {UUIDPositions[k], UUIDPositions[k] + 1} : t[i] \notin HexChar
  THEN Rejected
  ELSE Decoded([k \in 1..16 |-> HexByte(t, UUIDPositions[k])])

-----------------------------------------------------------------------------
(***************************************************************************)
(* enum: a text stands for the first member with that name and, failing    *)
(* that, for the first with that value (<<>> for a member without one),    *)
(* in any case. The answer is the member's index.                          *)
(***************************************************************************)
FirstOf(S) == CHOOSE i \in S : \A j \in S : i <= j

\* Mutant: the last member wins.
LookupLast(enum, t) ==
  LET fits == {i \in DOMAIN enum : LowerText(t) \in {LowerText(enum[i].name), LowerText(enum[i].value)}}
  IN IF t = <<>> \/ fits = {} THEN Rejected ELSE Decoded(CHOOSE i \in fits : \A j \in fits : i >= j)

Lookup(enum, t) ==
  LET named == {i \in DOMAIN enum : LowerText(enum[i].name) = LowerText(t)}
      valued == {i \in DOMAIN enum : enum[i].value # <<>> /\ LowerText(enum[i].value) = LowerText(t)}
  IN IF t = <<>> \/ named \cup valued = {} THEN Rejected
     ELSE Decoded(FirstOf(IF named # {} THEN named ELSE valued))
=============================================================================
