---------------------------- MODULE ValuesProofs ----------------------------
(***************************************************************************)
(* Proofs about the fields of a row, for every text of any length, every   *)
(* width of the numbers, and every limit.                                  *)
(*                                                                         *)
(* What is said of a text is what the program says of it, whatever edits   *)
(* led to it (Reached), so that the properties are facts about texts: for  *)
(* every scalar type the automaton of the validator and the decoder, which *)
(* are written apart, take the same texts.  There is a lemma for each.     *)
(* What the loops compute is unfolded by induction over the characters.    *)
(***************************************************************************)
EXTENDS Values, SequenceTheorems, WellFoundedInduction, TLAPS

\* The characters of a text. (Those of an int are in Char, but no prover here knows them for
\* strings.)
Letter == Char \cup Digit \cup {"-"}
Texts == Seq(Letter)

-----------------------------------------------------------------------------
(***************************************************************************)
(* Induction over the natural numbers, and the functions defined by it.    *)
(***************************************************************************)
LEMMA LeastElement ==
  ASSUME NEW T \in SUBSET Nat, T # {}
  PROVE  \E m \in T : \A k \in T : m <= k
<1> DEFINE R == OpToRel(<, Nat)
<1>1. IsWellFoundedOn(R, Nat)
  BY NatLessThanWellFounded
<1>2. \A x, y \in Nat : x < y => <<x, y>> \in R
  BY DEF OpToRel
<1> HIDE DEF R
<1>3. PICK m \in T : \A k \in T : ~(<<k, m>> \in R)
  BY <1>1, WFMin
<1>4. ASSUME NEW k \in T PROVE m <= k
  <2>1. k \in Nat /\ m \in Nat
    OBVIOUS
  <2>2. ~(k < m)
    BY <1>2, <1>3, <2>1
  <2> QED BY <2>1, <2>2
<1> QED BY <1>3, <1>4

LEMMA SetInduction ==
  ASSUME NEW T \in SUBSET Nat, 0 \in T, \A n \in T : n + 1 \in T
  PROVE  T = Nat
<1> SUFFICES ASSUME T # Nat PROVE FALSE
  OBVIOUS
<1> DEFINE U == Nat \ T
<1>1. U \in SUBSET Nat /\ U # {}
  OBVIOUS
<1>2. PICK m \in U : \A k \in U : m <= k
  BY <1>1, LeastElement
<1>3. m \in Nat /\ m # 0 /\ m \notin T
  OBVIOUS
<1>4. m - 1 \in Nat /\ ~(m <= m - 1)
  BY <1>3
<1>5. m - 1 \in T
  BY <1>2, <1>4
<1>6. (m - 1) + 1 = m
  BY <1>3
<1> QED BY <1>3, <1>5, <1>6

-----------------------------------------------------------------------------
(***************************************************************************)
(* Characters.                                                             *)
(***************************************************************************)
LEMMA DigitSet == Digit = {"0", "1", "2", "3", "4", "5", "6", "7", "8", "9"}
BY DEF Digit, Digits

LEMMA DigitValues ==
  /\ \A c \in Digit : DigitValue[c] \in 0..9
  /\ \A c \in Digit : DigitValue[c] = 0 <=> c = "0"
BY DEF Digit, Digits, DigitValue

LEMMA ShortTexts ==
  ASSUME NEW s \in Texts
  PROVE  /\ Len(s) = 0 => s = <<>>
         /\ Len(s) = 1 => s = <<s[1]>>
         /\ Len(s) = 2 => s = <<s[1], s[2]>>
<1>1. Len(s) = 1 => s = <<s[1]>>
  <2> SUFFICES ASSUME Len(s) = 1 PROVE s = <<s[1]>>
    OBVIOUS
  <2>1. s[1] \in Letter
    BY DEF Texts
  <2>2. <<s[1]>> \in Seq(Letter) /\ Len(<<s[1]>>) = 1 /\ <<s[1]>>[1] = s[1]
    BY <2>1
  <2>3. \A i \in 1..Len(s) : s[i] = <<s[1]>>[i]
    BY <2>2
  <2> HIDE DEF Texts
  <2> QED BY <2>2, <2>3, SeqEqual DEF Texts
<1>2. Len(s) = 2 => s = <<s[1], s[2]>>
  <2> SUFFICES ASSUME Len(s) = 2 PROVE s = <<s[1], s[2]>>
    OBVIOUS
  <2>1. s[1] \in Letter /\ s[2] \in Letter
    <3>1. \A i \in 1..2 : s[i] \in Letter
      BY DEF Texts
    <3> QED BY <3>1
  <2>2. <<s[1], s[2]>> \in Seq(Letter) /\ Len(<<s[1], s[2]>>) = 2
    BY <2>1
  <2>3. \A i \in 1..Len(s) : s[i] = <<s[1], s[2]>>[i]
    BY <2>2
  <2> QED BY <2>2, <2>3, SeqEqual DEF Texts
<1>3. Len(s) = 0 => s = <<>>
  BY DEF Texts
<1> QED BY <1>1, <1>2, <1>3

\* What is neither blank nor quote; Lower leaves those as they are.
Plain(t) == \A i \in DOMAIN t : t[i] \notin IsWhitespace \cup {Quote}

LEMMA LowerPlain ==
  ASSUME NEW c, c \in IsWhitespace \cup {Quote}
  PROVE  Lower(c) = c
BY DEF Lower, LowerOf, IsWhitespace, Quote, UpperLetters

LEMMA PlainClasses ==
  /\ \A c \in Digit : c \notin IsWhitespace \cup {Quote}
  /\ \A c \in HexChar : c \notin IsWhitespace \cup {Quote}
  /\ \A c \in Base64Char : c \notin IsWhitespace \cup {Quote}
<1>1. \A c \in Digit : c \notin IsWhitespace \cup {Quote}
  BY DigitSet DEF IsWhitespace, Quote
<1>2. \A c \in HexChar : c \notin IsWhitespace \cup {Quote}
  BY <1>1 DEF IsWhitespace, Quote, HexChar
<1>3. \A i \in 1..26 : UpperLetters[i] \notin IsWhitespace \cup {Quote}
  BY DEF IsWhitespace, Quote, UpperLetters
<1>4. \A i \in 1..26 : LowerLetters[i] \notin IsWhitespace \cup {Quote}
  BY DEF IsWhitespace, Quote, LowerLetters
<1>5. \A c \in Base64Char : c \notin IsWhitespace \cup {Quote}
  BY <1>1, <1>3, <1>4 DEF IsWhitespace, Quote, Base64Char
<1> QED BY <1>1, <1>2, <1>5

\* The decoder has a value exactly when the validator accepts.
Agree(valid, answer) == IF valid THEN answer.ok = TRUE ELSE answer.ok = FALSE

-----------------------------------------------------------------------------
(***************************************************************************)
(* bool, uuid, bytes, enum.                                                *)
(***************************************************************************)
\* validate/dfa and decode agree on bool.
LEMMA BoolsAgree ==
  ASSUME NEW t \in Texts
  PROVE  /\ Agree(ValidateBool(t), decodeBool(t))
         /\ ValidateBool(t) => Plain(t)
<1>1. Agree(ValidateBool(t), decodeBool(t))
  <2>1. CASE Len(t) = 1 /\ t[1] \in {"0", "1"}
    BY <2>1 DEF decodeBool, ValidateBool, Agree, Decoded
  <2>2. CASE Len(t) = 4 /\ LowerText(t) = TrueText
    BY <2>2 DEF decodeBool, ValidateBool, Agree, Decoded
  <2>3. CASE Len(t) = 5 /\ LowerText(t) = FalseText
    BY <2>3 DEF decodeBool, ValidateBool, Agree, Decoded
  <2>4. CASE ~ValidateBool(t)
    BY <2>4 DEF decodeBool, ValidateBool, Agree, Rejected
  <2> QED BY <2>1, <2>2, <2>3, <2>4 DEF ValidateBool
<1>2. ASSUME ValidateBool(t), NEW i \in DOMAIN t, t[i] \in IsWhitespace \cup {Quote} PROVE FALSE
  <2>1. Lower(t[i]) = t[i]
    BY <1>2, LowerPlain
  <2>2. LowerText(t)[i] = t[i]
    BY <2>1 DEF LowerText
  <2>3. DOMAIN t = 1..Len(t)
    BY DEF Texts
  <2>4. CASE Len(t) = 1 /\ t[1] \in {"0", "1"}
    BY <1>2, <2>3, <2>4 DEF IsWhitespace, Quote
  <2>5. CASE Len(t) = 4 /\ LowerText(t) = TrueText
    <3>1. i \in 1..4
      BY <2>3, <2>5
    <3> QED BY <1>2, <2>2, <2>5, <3>1 DEF IsWhitespace, Quote, TrueText
  <2>6. CASE Len(t) = 5 /\ LowerText(t) = FalseText
    <3>1. i \in 1..5
      BY <2>3, <2>6
    <3> QED BY <1>2, <2>2, <2>6, <3>1 DEF IsWhitespace, Quote, FalseText
  <2> QED BY <1>2, <2>4, <2>5, <2>6 DEF ValidateBool
<1> QED BY <1>1, <1>2 DEF Plain

\* The positions of the decoder's table and their successors are all but the dashes.
LEMMA UUIDTable ==
  /\ \A k \in 1..16 : {UUIDPositions[k], UUIDPositions[k] + 1} \subseteq (1..36) \ UUIDDashes
  /\ \A i \in (1..36) \ UUIDDashes : \E k \in 1..16 : i \in {UUIDPositions[k], UUIDPositions[k] + 1}
<1>1. ASSUME NEW k \in 1..16
      PROVE  {UUIDPositions[k], UUIDPositions[k] + 1} \subseteq (1..36) \ UUIDDashes
  BY DEF UUIDPositions, UUIDDashes
<1>2. ASSUME NEW i \in (1..36) \ UUIDDashes
      PROVE  \E k \in 1..16 : i \in {UUIDPositions[k], UUIDPositions[k] + 1}
  <2>1. /\ UUIDPositions[1] = 1 /\ UUIDPositions[2] = 3 /\ UUIDPositions[3] = 5 /\ UUIDPositions[4] = 7
        /\ UUIDPositions[5] = 10 /\ UUIDPositions[6] = 12 /\ UUIDPositions[7] = 15
        /\ UUIDPositions[8] = 17 /\ UUIDPositions[9] = 20 /\ UUIDPositions[10] = 22
        /\ UUIDPositions[11] = 25 /\ UUIDPositions[12] = 27 /\ UUIDPositions[13] = 29
        /\ UUIDPositions[14] = 31 /\ UUIDPositions[15] = 33 /\ UUIDPositions[16] = 35
    BY DEF UUIDPositions
  <2>2. \/ i \in {1, 2} \/ i \in {3, 4} \/ i \in {5, 6} \/ i \in {7, 8} \/ i \in {10, 11} \/ i \in {12, 13}
        \/ i \in {15, 16} \/ i \in {17, 18} \/ i \in {20, 21} \/ i \in {22, 23} \/ i \in {25, 26}
        \/ i \in {27, 28} \/ i \in {29, 30} \/ i \in {31, 32} \/ i \in {33, 34} \/ i \in {35, 36}
    BY DEF UUIDDashes
  <2> QED BY <2>1, <2>2
<1> QED BY <1>1, <1>2

\* validate/dfa and decode agree on uuid.
LEMMA UUIDsAgree ==
  ASSUME NEW t \in Texts
  PROVE  /\ Agree(ValidateUUID(t), decodeUUID(t))
         /\ ValidateUUID(t) => Plain(t)
<1>1. (\/ Len(t) # 36
       \/ \E i \in UUIDDashes : t[i] # "-"
       \/ \E k \in 1..16 : \E i \in {UUIDPositions[k], UUIDPositions[k] + 1} : t[i] \notin HexChar)
      <=> ~ValidateUUID(t)
  <2>1. UUIDDashes \subseteq 1..36
    BY DEF UUIDDashes
  <2> QED BY <2>1, UUIDTable DEF ValidateUUID
<1>2. Agree(ValidateUUID(t), decodeUUID(t))
  <2>1. CASE ValidateUUID(t)
    BY <1>1, <2>1 DEF decodeUUID, Decoded, Agree
  <2>2. CASE ~ValidateUUID(t)
    BY <1>1, <2>2 DEF decodeUUID, Rejected, Agree
  <2> QED BY <2>1, <2>2
<1>3. ASSUME ValidateUUID(t), NEW i \in DOMAIN t PROVE t[i] \notin IsWhitespace \cup {Quote}
  <2>1. i \in 1..36
    BY <1>3 DEF ValidateUUID, Texts
  <2>2. t[i] = "-" \/ t[i] \in HexChar
    BY <1>3, <2>1 DEF ValidateUUID
  <2> QED BY <2>2, PlainClasses DEF IsWhitespace, Quote
<1> QED BY <1>2, <1>3 DEF Plain

\* validate/dfa and decode agree on bytes<hex>.
LEMMA HexesAgree ==
  ASSUME NEW t \in Texts
  PROVE  /\ Agree(ValidateBytesHex(t), decodeBytesHex(t))
         /\ ValidateBytesHex(t) => Plain(t)
<1>1. Agree(ValidateBytesHex(t), decodeBytesHex(t))
  <2>1. Len(t) \in Nat
    BY DEF Texts
  <2>2. CASE ValidateBytesHex(t)
    BY <2>1, <2>2 DEF ValidateBytesHex, decodeBytesHex, Agree, Decoded
  <2>3. CASE ~ValidateBytesHex(t)
    BY <2>1, <2>3 DEF ValidateBytesHex, decodeBytesHex, Agree, Rejected
  <2> QED BY <2>2, <2>3
<1>2. ValidateBytesHex(t) => Plain(t)
  BY PlainClasses DEF ValidateBytesHex, Plain, AllIn
<1> QED BY <1>1, <1>2

\* validate/dfa and decode agree on bytes<b64>.
LEMMA Base64sAgree ==
  ASSUME NEW t \in Texts
  PROVE  /\ Agree(ValidateBytesB64(t), decodeBytesB64(t))
         /\ ValidateBytesB64(t) => Plain(t)
<1> DEFINE pad == {i \in DOMAIN t : t[i] = "="}
           least == CHOOSE i \in pad : \A j \in pad : i <= j
           count == IF pad = {} THEN 0 ELSE Len(t) + 1 - least
           Form == /\ Len(t) > 0 /\ Len(t) % 4 # 1
                   /\ AllIn(t, Base64Char)
                   /\ pad = (Len(t) - count + 1)..Len(t)
                   /\ count = 0 \/ (Len(t) % 4 = 0 /\ count <= 2)
<1>1. Len(t) \in Nat /\ DOMAIN t = 1..Len(t)
  BY DEF Texts
<1>2. pad # {} => least \in 1..Len(t)
  <2>1. pad \in SUBSET Nat
    BY <1>1
  <2>2. pad # {} => \E i \in pad : \A j \in pad : i <= j
    BY <2>1, LeastElement
  <2>3. pad # {} => least \in pad
    BY <2>2
  <2> QED BY <1>1, <2>3
<1>3. count \in Nat
  BY <1>1, <1>2
<1>4. ValidateBytesB64(t) <=> Form
  <2>1. Len(t) + 1 - (IF pad = {} THEN Len(t) + 1 ELSE least) = count
    BY <1>1, <1>2
  <2> QED BY <2>1 DEF ValidateBytesB64
<1>5. ASSUME Form, count = 0 \/ Len(t) % 4 = 0
      PROVE  IF count = 0 /\ Len(t) % 4 # 0 THEN RawStdDecodes(t) ELSE StdDecodes(t)
  <2>1. CASE count = 0 /\ Len(t) % 4 # 0
    BY <1>5, <2>1 DEF RawStdDecodes
  <2>2. CASE ~(count = 0 /\ Len(t) % 4 # 0)
    <3>1. Len(t) % 4 = 0
      BY <1>5, <2>2
    <3>2. ASSUME NEW i \in DOMAIN t, t[i] = "="
          PROVE  i >= Len(t) - 1 /\ From(t, i) \in {<<"=">>, <<"=", "=">>}
      <4>1. i \in pad /\ pad = (Len(t) - count + 1)..Len(t)
        BY <1>5, <3>2
      <4>a. count <= 2
        <5> HIDE DEF pad, count
        <5> QED BY <1>3, <1>5
      <4>2. i = Len(t) \/ (i = Len(t) - 1 /\ count = 2)
        <5> HIDE DEF pad, count
        <5>1. \A l, c \in Nat : \A k \in (l - c + 1)..l : c <= 2 => k = l \/ (k = l - 1 /\ c = 2)
          OBVIOUS
        <5> QED BY <1>1, <1>3, <4>1, <4>a, <5>1
      <4>3. t[Len(t)] = "="
        <5>1. Len(t) \in pad
          <6> HIDE DEF pad, count
          <6> QED BY <1>1, <1>3, <4>1
        <5> QED BY <5>1
      <4>4. i = Len(t) => From(t, i) = <<"=">>
        <5>1. SUFFICES ASSUME i = Len(t) PROVE SubSeq(t, i, Len(t)) = <<"=">>
          BY DEF From
        <5>2. SubSeq(t, i, Len(t)) \in Seq(Letter) /\ Len(SubSeq(t, i, Len(t))) = 1
              /\ SubSeq(t, i, Len(t))[1] = t[i]
          BY <1>1, <3>2, <5>1 DEF Texts
        <5> QED BY <3>2, <5>2, ShortTexts DEF Texts
      <4>5. i = Len(t) - 1 => From(t, i) = <<"=", "=">>
        <5>1. SUFFICES ASSUME i = Len(t) - 1 PROVE SubSeq(t, i, Len(t)) = <<"=", "=">>
          BY DEF From
        <5>2. SubSeq(t, i, Len(t)) \in Seq(Letter) /\ Len(SubSeq(t, i, Len(t))) = 2
              /\ SubSeq(t, i, Len(t))[1] = t[i] /\ SubSeq(t, i, Len(t))[2] = t[i + 1]
          BY <1>1, <3>2, <5>1 DEF Texts
        <5>3. i + 1 = Len(t)
          BY <1>1, <5>1
        <5>4. t[i + 1] = "="
          BY <4>3, <5>3
        <5>5. SubSeq(t, i, Len(t)) = <<t[i], t[i + 1]>>
          BY ONLY <5>2, ShortTexts DEF Texts
        <5> QED BY <3>2, <5>4, <5>5
      <4> QED BY <1>1, <4>2, <4>4, <4>5
    <3> QED BY <2>2, <3>1, <3>2 DEF StdDecodes
  <2> QED BY <2>1, <2>2
<1>6. ASSUME ~Form
      PROVE  \/ Len(t) = 0
             \/ ~AllIn(t, Base64Char)
             \/ pad # (Len(t) - count + 1)..Len(t)
             \/ count # 0 /\ (Len(t) % 4 # 0 \/ count > 2)
             \/ ~(IF count = 0 /\ Len(t) % 4 # 0 THEN RawStdDecodes(t) ELSE StdDecodes(t))
  <2>1. Len(t) % 4 = 1 => ~RawStdDecodes(t) /\ Len(t) % 4 # 0
    BY DEF RawStdDecodes
  <2>2. Len(t) % 4 = 1 => count # 0 \/ ~(IF count = 0 /\ Len(t) % 4 # 0 THEN RawStdDecodes(t) ELSE StdDecodes(t))
    BY <2>1
  <2> HIDE DEF pad, count
  <2>3. ~(Len(t) > 0) => Len(t) = 0
    BY <1>1
  <2>4. ~(count <= 2) => count > 2
    BY <1>3
  <2> QED BY <1>6, <2>1, <2>2, <2>3, <2>4
<1>7. ASSUME Form
      PROVE  ~(\/ Len(t) = 0
               \/ ~AllIn(t, Base64Char)
               \/ pad # (Len(t) - count + 1)..Len(t)
               \/ count # 0 /\ (Len(t) % 4 # 0 \/ count > 2)
               \/ ~(IF count = 0 /\ Len(t) % 4 # 0 THEN RawStdDecodes(t) ELSE StdDecodes(t)))
  <2>1. count = 0 \/ Len(t) % 4 = 0
    BY <1>7
  <2>2. IF count = 0 /\ Len(t) % 4 # 0 THEN RawStdDecodes(t) ELSE StdDecodes(t)
    BY <1>5, <1>7, <2>1
  <2> HIDE DEF pad, count
  <2>3. Len(t) > 0 => Len(t) # 0
    BY <1>1
  <2>4. count <= 2 => ~(count > 2)
    BY <1>3
  <2> QED BY <1>7, <2>2, <2>3, <2>4
<1>8. Form => decodeBytesB64(t) = Decoded(t)
  BY <1>7 DEF decodeBytesB64
<1>9. ~Form => decodeBytesB64(t) = Rejected
  BY <1>6 DEF decodeBytesB64
<1>10. Form => Plain(t)
  BY PlainClasses DEF Plain, AllIn
<1> HIDE DEF Form
<1>11. Decoded(t).ok = TRUE /\ Rejected.ok = FALSE
  BY DEF Decoded, Rejected
<1> QED BY <1>4, <1>8, <1>9, <1>10, <1>11 DEF Agree

\* An identifier has no blank and no quote.
LEMMA IdentifiersPlain ==
  ASSUME NEW t, isValidIdentifier(t)
  PROVE  Plain(t)
BY DEF isValidIdentifier, Punctuation, IsForbiddenInString, Plain, Quote

LEMMA LowerOnlyLetters ==
  ASSUME NEW c, Lower(c) \in IsWhitespace \cup {Quote}
  PROVE  c \in IsWhitespace \cup {Quote}
<1>1. ASSUME c \in DOMAIN LowerOf PROVE FALSE
  <2>1. PICK j \in 1..26 : c = UpperLetters[j]
    BY <1>1 DEF LowerOf
  <2>2. (CHOOSE i \in 1..26 : UpperLetters[i] = c) \in 1..26
    BY <2>1
  <2>3. LowerOf[c] = LowerLetters[CHOOSE i \in 1..26 : UpperLetters[i] = c]
    BY <2>1 DEF LowerOf
  <2>4. \A i \in 1..26 : LowerLetters[i] \notin IsWhitespace \cup {Quote}
    BY DEF IsWhitespace, Quote, LowerLetters
  <2> QED BY <1>1, <2>2, <2>3, <2>4 DEF Lower
<1> QED BY <1>1 DEF Lower

\* A text that means a member of an enum has no blank and no quote either.
LEMMA MembersPlain ==
  ASSUME NEW t \in Texts, NEW enum, \A i \in DOMAIN enum : IsMember(enum[i]), Lookup(enum, t).ok
  PROVE  Plain(t)
<1> DEFINE named == {i \in DOMAIN enum : LowerText(enum[i].name) = LowerText(t)}
           valued == {i \in DOMAIN enum : enum[i].value # <<>> /\ LowerText(enum[i].value) = LowerText(t)}
<1>1. ~(t = <<>> \/ named \cup valued = {})
  <2>1. t = <<>> \/ named \cup valued = {} => Lookup(enum, t) = Rejected
    BY DEF Lookup
  <2> QED BY <2>1 DEF Rejected
<1>2. PICK s : isValidIdentifier(s) /\ LowerText(s) = LowerText(t)
  <2>1. PICK i \in named \cup valued : TRUE
    BY <1>1
  <2>2. CASE i \in named
    BY <2>2 DEF IsMember
  <2>3. CASE i \in valued
    BY <2>3 DEF IsMember
  <2> QED BY <2>1, <2>2, <2>3
<1>3. ASSUME NEW i \in DOMAIN t, t[i] \in IsWhitespace \cup {Quote} PROVE FALSE
  <2>1. DOMAIN LowerText(s) = DOMAIN s /\ DOMAIN LowerText(t) = DOMAIN t
    BY DEF LowerText
  <2>2. i \in DOMAIN s
    BY <1>2, <2>1
  <2>3. Lower(s[i]) = Lower(t[i])
    <3>1. LowerText(s)[i] = Lower(s[i]) /\ LowerText(t)[i] = Lower(t[i])
      BY <2>2 DEF LowerText
    <3> QED BY <1>2, <3>1
  <2>4. Lower(s[i]) \in IsWhitespace \cup {Quote}
    BY <1>3, <2>3, LowerPlain
  <2>5. s[i] \in IsWhitespace \cup {Quote}
    BY <2>4, LowerOnlyLetters
  <2>6. Plain(s)
    BY <1>2, IdentifiersPlain
  <2> QED BY <2>2, <2>5, <2>6 DEF Plain
<1> QED BY <1>3 DEF Plain

-----------------------------------------------------------------------------
(***************************************************************************)
(* Scanners.                                                               *)
(***************************************************************************)
LEMMA TextTypes ==
  ASSUME NEW t \in Texts
  PROVE  /\ Len(t) \in Nat /\ DOMAIN t = 1..Len(t)
         /\ \A i \in 1..Len(t) : t[i] \in Letter /\ t[i] # NoChar
<1>1. Len(t) \in Nat /\ DOMAIN t = 1..Len(t) /\ \A i \in 1..Len(t) : t[i] \in Letter
  BY DEF Texts
<1>2. NoChar \notin Letter
  BY DigitSet DEF Letter, Char, NoChar
<1> QED BY <1>1, <1>2

LEMMA AtProperties ==
  ASSUME NEW t \in Texts, NEW i \in Int
  PROVE  /\ At(t, i) # NoChar <=> i \in 1..Len(t)
         /\ i \in 1..Len(t) => At(t, i) = t[i]
         /\ i \notin 1..Len(t) => At(t, i) = NoChar
BY TextTypes DEF At

\* What After finds, where it is: behind the characters of S, at one that is not in S or
\* behind the end.
LEMMA AfterProperties ==
  ASSUME NEW t \in Texts, NEW i \in 1..(Len(t) + 1), NEW S, NoChar \notin S
  PROVE  /\ After(t, i, S) \in i..(Len(t) + 1)
         /\ At(t, After(t, i, S)) \notin S
         /\ \A k \in i..(After(t, i, S) - 1) : t[k] \in S
<1> DEFINE Stops == {j \in Nat : j >= i /\ At(t, j) \notin S}
           Found(j) == At(t, j) \notin S /\ \A k \in i..(j - 1) : t[k] \in S
<1>1. Len(t) \in Nat
  BY TextTypes
<1>2. Len(t) + 1 \in Stops
  <2>1. At(t, Len(t) + 1) = NoChar
    BY <1>1, AtProperties
  <2> QED BY <1>1, <2>1
<1>3. PICK j \in Stops : \A k \in Stops : j <= k
  <2>1. Stops \in SUBSET Nat /\ Stops # {}
    BY <1>2
  <2> HIDE DEF Stops
  <2> QED BY <2>1, LeastElement
<1>4. j \in i..(Len(t) + 1)
  BY <1>1, <1>2, <1>3
<1>5. ASSUME NEW k \in i..(j - 1) PROVE t[k] \in S
  <2>1. k \in 1..Len(t) /\ k \in Nat /\ k >= i /\ ~(j <= k)
    BY <1>1, <1>4
  <2>2. k \notin Stops
    BY <1>3, <2>1
  <2>3. At(t, k) \in S
    BY <2>1, <2>2
  <2> QED BY <2>1, <2>3, AtProperties
<1>6. \E m \in i..(Len(t) + 1) : Found(m)
  BY <1>3, <1>4, <1>5
<1>7. After(t, i, S) = CHOOSE m \in i..(Len(t) + 1) : Found(m)
  BY DEF After
<1> HIDE DEF Found
<1>8. After(t, i, S) \in i..(Len(t) + 1) /\ Found(After(t, i, S))
  BY <1>6, <1>7
<1> QED BY <1>8 DEF Found

\* ... and it is the only such place.
LEMMA AfterIsUnique ==
  ASSUME NEW t \in Texts, NEW i \in 1..(Len(t) + 1), NEW S, NoChar \notin S,
         NEW j \in i..(Len(t) + 1), At(t, j) \notin S, \A k \in i..(j - 1) : t[k] \in S
  PROVE  After(t, i, S) = j
<1> DEFINE a == After(t, i, S)
<1>1. a \in i..(Len(t) + 1) /\ At(t, a) \notin S /\ \A k \in i..(a - 1) : t[k] \in S
  BY AfterProperties
<1>2. Len(t) \in Nat
  BY TextTypes
<1> HIDE DEF a
<1>3. ASSUME a < j PROVE FALSE
  <2>1. a \in i..(j - 1) /\ a \in 1..Len(t)
    BY <1>1, <1>2, <1>3
  <2> QED BY <1>1, <2>1, AtProperties
<1>4. ASSUME j < a PROVE FALSE
  <2>1. j \in i..(a - 1) /\ j \in 1..Len(t)
    BY <1>1, <1>2, <1>4
  <2> QED BY <1>1, <2>1, AtProperties
<1>5. a = j
  BY <1>1, <1>2, <1>3, <1>4
<1> QED BY <1>5 DEF a

LEMMA NoDigitAtEnd == NoChar \notin Digit
BY DigitSet DEF NoChar

LEMMA AfterDigitsProperties ==
  ASSUME NEW t \in Texts, NEW i \in 1..(Len(t) + 1)
  PROVE  /\ AfterDigits(t, i) \in i..(Len(t) + 1)
         /\ At(t, AfterDigits(t, i)) \notin Digit
         /\ \A k \in i..(AfterDigits(t, i) - 1) : t[k] \in Digit
BY NoDigitAtEnd, AfterProperties DEF AfterDigits

LEMMA AllInPart ==
  ASSUME NEW t \in Texts, NEW a \in Nat \ {0}, NEW b \in Int, b <= Len(t), NEW S
  PROVE  AllIn(SubSeq(t, a, b), S) <=> \A i \in a..b : t[i] \in S
<1>1. Len(t) \in Nat
  BY TextTypes
<1>2. CASE a <= b
  <2>1. /\ SubSeq(t, a, b) \in Seq(Letter) /\ Len(SubSeq(t, a, b)) = b - a + 1
        /\ \A k \in 1..(b - a + 1) : SubSeq(t, a, b)[k] = t[a + k - 1]
    BY <1>1, <1>2, SubSeqProperties DEF Texts
  <2>2. DOMAIN SubSeq(t, a, b) = 1..(b - a + 1)
    BY <2>1
  <2>3. ASSUME NEW i \in a..b PROVE i - a + 1 \in 1..(b - a + 1) /\ a + (i - a + 1) - 1 = i
    OBVIOUS
  <2>4. ASSUME NEW k \in 1..(b - a + 1) PROVE a + k - 1 \in a..b
    OBVIOUS
  <2> QED BY <2>1, <2>2, <2>3, <2>4 DEF AllIn
<1>3. CASE ~(a <= b)
  <2>1. a..b = {} /\ SubSeq(t, a, b) = <<>>
    BY <1>1, <1>3, SubSeqProperties DEF Texts
  <2> QED BY <2>1 DEF AllIn
<1> QED BY <1>2, <1>3

LEMMA AllInFrom ==
  ASSUME NEW t \in Texts, NEW a \in Nat \ {0}, NEW S
  PROVE  AllIn(From(t, a), S) <=> \A i \in a..Len(t) : t[i] \in S
BY TextTypes, AllInPart DEF From

LEMMA FromProperties ==
  ASSUME NEW t \in Texts, NEW a \in 1..(Len(t) + 1)
  PROVE  /\ From(t, a) \in Texts /\ Len(From(t, a)) = Len(t) - a + 1
         /\ \A k \in 1..(Len(t) - a + 1) : From(t, a)[k] = t[a + k - 1]
<1>1. Len(t) \in Nat
  BY TextTypes
<1>2. CASE a <= Len(t)
  BY <1>1, <1>2, SubSeqProperties DEF From, Texts
<1>3. CASE a = Len(t) + 1
  <2>1. SubSeq(t, a, Len(t)) = <<>> /\ Len(t) - a + 1 = 0
    BY <1>1, <1>3, SubSeqProperties DEF Texts
  <2>2. 1..(Len(t) - a + 1) = {} /\ Len(<<>>) = 0 /\ <<>> \in Seq(Letter)
    BY <2>1
  <2> QED BY <2>1, <2>2 DEF From, Texts
<1> QED BY <1>1, <1>2, <1>3

-----------------------------------------------------------------------------
(***************************************************************************)
(* Dates and times.                                                        *)
(***************************************************************************)
LEMMA TwoDigitsProperties ==
  ASSUME NEW t \in Texts, NEW i \in Int
  PROVE  /\ TwoDigits(t, i) \in -1..99
         /\ TwoDigits(t, i) # -1 => /\ i \in 1..Len(t) /\ i + 1 \in 1..Len(t)
                                    /\ t[i] \in Digit /\ t[i + 1] \in Digit
<1>1. CASE {At(t, i), At(t, i + 1)} \subseteq Digit
  <2>1. At(t, i) \in Digit /\ At(t, i + 1) \in Digit
    BY <1>1
  <2>2. i \in 1..Len(t) /\ i + 1 \in 1..Len(t)
    BY <2>1, NoDigitAtEnd, AtProperties
  <2>3. t[i] \in Digit /\ t[i + 1] \in Digit
    BY <2>1, <2>2, AtProperties
  <2>4. DigitValue[t[i]] \in 0..9 /\ DigitValue[t[i + 1]] \in 0..9
    BY <2>3, DigitValues
  <2>5. TwoDigits(t, i) = 10 * DigitValue[t[i]] + DigitValue[t[i + 1]]
    BY <1>1 DEF TwoDigits
  <2>6. \A x, y \in 0..9 : 10 * x + y \in -1..99
    OBVIOUS
  <2> QED BY <2>2, <2>3, <2>4, <2>5, <2>6
<1>2. CASE ~({At(t, i), At(t, i + 1)} \subseteq Digit)
  BY <1>2 DEF TwoDigits
<1> QED BY <1>1, <1>2

LEMMA MaxDayIsInt ==
  ASSUME NEW year, NEW month \in 1..12
  PROVE  MaxDay(year, month) \in 28..31
BY DEF MaxDay, daysInMonth

\* The checks that validator and decoder share.
LEMMA TwoDigitsInRange ==
  ASSUME NEW t \in Texts, NEW i \in Int,
         validMonth(t, i) \/ validDay(t, i) \/ validHour(t, i) \/ validMinSec(t, i)
  PROVE  /\ i \in 1..Len(t) /\ i + 1 \in 1..Len(t)
         /\ t[i] \in Digit /\ t[i + 1] \in Digit
         /\ TwoDigits(t, i) \in 0..99
<1>1. TwoDigits(t, i) \in 0..99
  BY DEF validMonth, validDay, validHour, validMinSec
<1>2. TwoDigits(t, i) # -1
  BY ONLY <1>1
<1> QED BY <1>1, <1>2, TwoDigitsProperties

\* validate/dfa and decode agree on date.
LEMMA DatesAgree ==
  ASSUME NEW t \in Texts
  PROVE  /\ Agree(ValidateDate(t), decodeDate(t))
         /\ ValidateDate(t) => Plain(t)
<1> DEFINE Bad == \/ Len(t) # 10
                  \/ t[5] \notin isDateSep \/ t[8] # t[5]
                  \/ \E i \in 1..4 : t[i] \notin Digit
                  \/ ~validMonth(t, 6) \/ ~validDay(t, 9)
                  \/ DateOf(t).day > MaxDay(DateOf(t).year, DateOf(t).month)
<1>1. ValidateDate(t) <=> ~Bad
  <2>1. CASE Len(t) # 10
    BY <2>1 DEF ValidateDate
  <2>2. CASE Len(t) = 10
    <3>1. At(t, 5) = t[5] /\ At(t, 8) = t[8]
      BY <2>2, AtProperties
    <3>2. AllIn(SubSeq(t, 1, 4), Digit) <=> \A i \in 1..4 : t[i] \in Digit
      <4>1. 1 \in Nat \ {0} /\ 4 \in Int /\ 4 <= Len(t)
        BY <2>2
      <4> QED BY <4>1, AllInPart
    <3>3. DateOf(t).day = TwoDigits(t, 9) /\ DateOf(t).month = TwoDigits(t, 6)
          /\ DateOf(t).year = Number(SubSeq(t, 1, 4))
      BY DEF DateOf
    <3>4. validMonth(t, 6) => MaxDay(DateOf(t).year, DateOf(t).month) \in Int
      BY <3>3, MaxDayIsInt DEF validMonth
    <3>5. TwoDigits(t, 9) \in Int
      <4>1. 9 \in Int
        OBVIOUS
      <4>2. TwoDigits(t, 9) \in -1..99
        BY <4>1, TwoDigitsProperties
      <4> QED BY ONLY <4>2
    <3>6. validMonth(t, 6) => (DateOf(t).day > MaxDay(DateOf(t).year, DateOf(t).month)
                                 <=> ~(TwoDigits(t, 9) <= MaxDay(Number(SubSeq(t, 1, 4)), TwoDigits(t, 6))))
      BY <3>3, <3>4, <3>5
    <3> QED BY <2>2, <3>1, <3>2, <3>6 DEF ValidateDate, DateAtStart
  <2> QED BY <2>1, <2>2
<1>2. Bad => decodeDate(t) = Rejected
  BY DEF decodeDate
<1>3. ~Bad => decodeDate(t) = Decoded(DateOf(t))
  BY DEF decodeDate
<1>4. ASSUME ~Bad, NEW i \in DOMAIN t PROVE t[i] \notin IsWhitespace \cup {Quote}
  <2>1. i \in 1..10
    BY <1>4, TextTypes
  <2>2. t[6] \in Digit /\ t[7] \in Digit
    BY <1>4, TwoDigitsInRange
  <2>3. t[9] \in Digit /\ t[10] \in Digit
    BY <1>4, TwoDigitsInRange
  <2>4. t[i] \in Digit \/ t[i] \in isDateSep
    BY <1>4, <2>1, <2>2, <2>3
  <2> QED BY <2>4, PlainClasses DEF isDateSep, IsWhitespace, Quote
<1> HIDE DEF Bad
<1>5. \A v : Decoded(v).ok = TRUE /\ Rejected.ok = FALSE
  BY DEF Decoded, Rejected
<1> QED BY <1>1, <1>2, <1>3, <1>4, <1>5 DEF Agree, Plain

\* validate/dfa and decode agree on time.
LEMMA TimesAgree ==
  ASSUME NEW t \in Texts
  PROVE  /\ Agree(ValidateTime(t), decodeTime(t))
         /\ ValidateTime(t) => Plain(t)
<1> DEFINE Bad == \/ Len(t) < 8 \/ Len(t) > 9 + NanoDigits
                  \/ t[3] # ":" \/ t[6] # ":"
                  \/ ~validHour(t, 1) \/ ~validMinSec(t, 4) \/ ~validMinSec(t, 7)
                  \/ Len(t) > 8 /\ t[9] # "."
                  \/ Len(t) = 9
                  \/ \E i \in 10..Len(t) : t[i] \notin Digit
<1>1. Len(t) \in Nat /\ NanoDigits \in Nat
  BY TextTypes, NanoAssumption
<1>2. ValidateTime(t) <=> ~Bad
  <2>1. CASE ~(Len(t) \in 8..(9 + NanoDigits))
    BY <1>1, <2>1 DEF ValidateTime
  <2>2. CASE Len(t) \in 8..(9 + NanoDigits)
    <3>1. At(t, 3) = t[3] /\ At(t, 6) = t[6]
      BY <1>1, <2>2, AtProperties
    <3>2. AllIn(From(t, 10), Digit) <=> \A i \in 10..Len(t) : t[i] \in Digit
      BY AllInFrom
    <3>3. ~(Len(t) > 8) => Len(t) # 9 /\ \A i \in 10..Len(t) : t[i] \in Digit
      <4>1. \A n \in Nat : ~(n > 8) => n # 9 /\ 10..n = {}
        OBVIOUS
      <4> QED BY <1>1, <4>1
    <3>4. ClockAt(t, 1) <=> /\ t[3] = ":" /\ t[6] = ":"
                            /\ validHour(t, 1) /\ validMinSec(t, 4) /\ validMinSec(t, 7)
      BY <3>1 DEF ClockAt
    <3>5. Len(t) > 8 => (Len(t) > 9 <=> Len(t) # 9)
      <4>1. \A n \in Nat : n > 8 => (n > 9 <=> n # 9)
        OBVIOUS
      <4> QED BY <1>1, <4>1
    <3>6. ~(Len(t) < 8) /\ ~(Len(t) > 9 + NanoDigits)
      BY <1>1, <2>2
    <3>7. ValidateTime(t) <=> /\ ClockAt(t, 1)
                              /\ Len(t) > 8 => t[9] = "." /\ Len(t) > 9 /\ AllIn(From(t, 10), Digit)
      BY <2>2 DEF ValidateTime
    <3> QED BY <3>2, <3>3, <3>4, <3>5, <3>6, <3>7
  <2> QED BY <2>1, <2>2
<1>3. Bad => decodeTime(t) = Rejected
  BY DEF decodeTime
<1>4. ~Bad => decodeTime(t) = Decoded(ClockOf(t, 1, Nanos(From(t, 10))))
  BY DEF decodeTime
<1>5. ASSUME ~Bad, NEW i \in DOMAIN t PROVE t[i] \notin IsWhitespace \cup {Quote}
  <2>1. i \in 1..Len(t)
    BY TextTypes
  <2>2. t[1] \in Digit /\ t[2] \in Digit
    BY <1>5, TwoDigitsInRange
  <2>3. t[4] \in Digit /\ t[5] \in Digit
    BY <1>5, TwoDigitsInRange
  <2>4. t[7] \in Digit /\ t[8] \in Digit
    BY <1>5, TwoDigitsInRange
  <2>5. i \in 1..8 \/ i = 9 \/ i \in 10..Len(t)
    BY <1>1, <2>1
  <2>6. t[i] \in Digit \/ t[i] \in {":", "."}
    <3>1. CASE i \in 1..8
      BY <1>5, <2>2, <2>3, <2>4, <3>1
    <3>2. CASE i = 9
      BY <1>1, <1>5, <2>1, <3>2
    <3>3. CASE i \in 10..Len(t)
      BY <1>5, <3>3
    <3> QED BY <2>5, <3>1, <3>2, <3>3
  <2> QED BY <2>6, PlainClasses DEF IsWhitespace, Quote
<1> HIDE DEF Bad
<1>6. \A v : Decoded(v).ok = TRUE /\ Rejected.ok = FALSE
  BY DEF Decoded, Rejected
<1> QED BY <1>2, <1>3, <1>4, <1>5, <1>6 DEF Agree, Plain

\* What follows the seconds of a datetime: the decoder's test of it and the automaton's.
IsOffset(z) == /\ Len(z) = 6 /\ z[1] \in isTZSign
               /\ validHour(z, 2) /\ z[4] = ":" /\ validMinSec(z, 5)
ZonesTaken(required, allowed) == (IF required THEN {} ELSE {"none"})
                                   \cup (IF allowed THEN {"Z", "offset"} ELSE {})
ZoneRefused(z, required, allowed) ==
  IF z = <<>> THEN required
  ELSE ~allowed \/ IF z[1] = "Z" THEN Len(z) > 1
                   ELSE \/ z[1] \notin isTZSign \/ Len(z) # 6
                        \/ ~validHour(z, 2) \/ z[4] # ":" \/ ~validMinSec(z, 5)

LEMMA ZoneCases ==
  ASSUME NEW z
  PROVE  /\ z = <<>> /\ ~IsOffset(z) => Zone(z) = "none"
         /\ z = <<"Z">> /\ z # <<>> /\ ~IsOffset(z) => Zone(z) = "Z"
         /\ z # <<>> /\ z # <<"Z">> /\ IsOffset(z) => Zone(z) = "offset"
         /\ z # <<>> /\ z # <<"Z">> /\ ~IsOffset(z) => Zone(z) = "bad"
<1>1. ASSUME z = <<>>, ~IsOffset(z), z # <<"Z">> PROVE Zone(z) = "none"
  BY <1>1, Zenon DEF Zone, IsOffset
<1>2. ASSUME z = <<"Z">>, z # <<>>, ~IsOffset(z) PROVE Zone(z) = "Z"
  BY <1>2, Zenon DEF Zone, IsOffset
<1>3. ASSUME z # <<>>, z # <<"Z">>, IsOffset(z) PROVE Zone(z) = "offset"
  BY <1>3, Zenon DEF Zone, IsOffset
<1>4. ASSUME z # <<>>, z # <<"Z">>, ~IsOffset(z) PROVE Zone(z) = "bad"
  BY <1>4, Zenon DEF Zone, IsOffset
<1>5. <<>> # <<"Z">>
  OBVIOUS
<1> QED BY <1>1, <1>2, <1>3, <1>4, <1>5

LEMMA ZonesAgree ==
  ASSUME NEW z \in Texts, NEW required \in BOOLEAN, NEW allowed \in BOOLEAN
  PROVE  ZoneRefused(z, required, allowed) <=> Zone(z) \notin ZonesTaken(required, allowed)
<1>0. Len(z) \in Nat
  BY TextTypes
<1>1. CASE z = <<>>
  <2>1. ~IsOffset(z)
    BY <1>1 DEF IsOffset
  <2>2. Zone(z) = "none"
    BY <1>1, <2>1, ZoneCases
  <2> QED BY <1>1, <2>2 DEF ZoneRefused, ZonesTaken
<1>2. CASE z = <<"Z">>
  <2>1. ~IsOffset(z) /\ z # <<>>
    BY <1>2 DEF IsOffset
  <2>2. Zone(z) = "Z"
    BY <1>2, <2>1, ZoneCases
  <2>3. z[1] = "Z" /\ ~(Len(z) > 1)
    BY <1>2
  <2> QED BY <2>1, <2>2, <2>3 DEF ZoneRefused, ZonesTaken
<1>3. CASE z # <<>> /\ z # <<"Z">> /\ IsOffset(z)
  <2>1. Zone(z) = "offset"
    BY <1>3, ZoneCases
  <2>2. z[1] # "Z"
    BY <1>3 DEF IsOffset, isTZSign
  <2> QED BY <1>3, <2>1, <2>2 DEF ZoneRefused, ZonesTaken, IsOffset
<1>4. CASE z # <<>> /\ z # <<"Z">> /\ ~IsOffset(z)
  <2>1. Zone(z) = "bad"
    BY <1>4, ZoneCases
  <2>2. z[1] = "Z" => Len(z) > 1
    <3>1. Len(z) # 0
      BY <1>4, ShortTexts
    <3>2. Len(z) = 1 => z = <<z[1]>>
      BY ShortTexts
    <3>3. z[1] = "Z" => Len(z) # 1
      BY <1>4, <3>2
    <3>4. \A n \in Nat : n # 0 /\ n # 1 => n > 1
      OBVIOUS
    <3> QED BY <1>0, <3>1, <3>3, <3>4
  <2> QED BY <1>4, <2>1, <2>2 DEF ZoneRefused, ZonesTaken, IsOffset
<1> QED BY <1>1, <1>2, <1>3, <1>4

\* The date at the start of a datetime is the date of its first ten characters.
LEMMA DateOfStart ==
  ASSUME NEW t \in Texts, Len(t) >= 10
  PROVE  /\ ValidateDate(SubSeq(t, 1, 10)) <=> DateAtStart(t)
         /\ DateOf(SubSeq(t, 1, 10)) = DateOf(t)
<1> DEFINE d == SubSeq(t, 1, 10)
<1>1. Len(t) \in Nat
  BY TextTypes
<1>2. d \in Texts /\ Len(d) = 10 /\ \A i \in 1..10 : d[i] = t[i]
  BY <1>1 DEF Texts
<1>3. \A i \in 1..10 : At(d, i) = At(t, i)
  <2>1. \A i \in 1..10 : i \in 1..Len(d) /\ i \in 1..Len(t) /\ i \in Int
    BY <1>1, <1>2
  <2> QED BY <1>2, <2>1, AtProperties
<1>4. SubSeq(d, 1, 4) = SubSeq(t, 1, 4)
  <2>1. /\ SubSeq(d, 1, 4) \in Seq(Letter) /\ Len(SubSeq(d, 1, 4)) = 4
        /\ \A i \in 1..4 : SubSeq(d, 1, 4)[i] = d[i]
    BY <1>2 DEF Texts
  <2>2. /\ SubSeq(t, 1, 4) \in Seq(Letter) /\ Len(SubSeq(t, 1, 4)) = 4
        /\ \A i \in 1..4 : SubSeq(t, 1, 4)[i] = t[i]
    BY <1>1 DEF Texts
  <2>3. \A i \in 1..Len(SubSeq(d, 1, 4)) : SubSeq(d, 1, 4)[i] = SubSeq(t, 1, 4)[i]
    BY <1>2, <2>1, <2>2
  <2> HIDE DEF d
  <2> QED BY <2>1, <2>2, <2>3, SeqEqual
<1> HIDE DEF d
<1>5. TwoDigits(d, 6) = TwoDigits(t, 6) /\ TwoDigits(d, 9) = TwoDigits(t, 9)
  <2>1. d[6] = t[6] /\ d[7] = t[7] /\ d[9] = t[9] /\ d[10] = t[10]
    BY <1>2
  <2>2. At(d, 6) = At(t, 6) /\ At(d, 6 + 1) = At(t, 6 + 1) /\ At(d, 9) = At(t, 9) /\ At(d, 9 + 1) = At(t, 9 + 1)
    BY <1>3
  <2> QED BY <2>1, <2>2 DEF TwoDigits
<1>6. At(d, 5) = At(t, 5) /\ At(d, 8) = At(t, 8) /\ d[5] = t[5]
  BY <1>2, <1>3
<1>7. DateAtStart(d) <=> DateAtStart(t)
  BY <1>4, <1>5, <1>6 DEF DateAtStart, validMonth, validDay
<1>8. DateOf(d) = DateOf(t)
  BY <1>4, <1>5 DEF DateOf
<1> QED BY <1>2, <1>7, <1>8 DEF ValidateDate, d

\* validate/dfa and decode agree on timestamp, datetime and datetimetz: on every choice of
\* lengths and zones.
LEMMA DateTimesAgree ==
  ASSUME NEW t \in Texts, NEW shortest \in Nat, NEW longest \in Nat, shortest >= 19,
         NEW required \in BOOLEAN, NEW allowed \in BOOLEAN
  PROVE  LET valid == DateTimeText(t, shortest, longest, ZonesTaken(required, allowed))
         IN /\ Agree(valid, decodeDateTime(t, shortest, longest, required, allowed))
            /\ valid => At(t, 1) \in Digit
<1> DEFINE valid == DateTimeText(t, shortest, longest, ZonesTaken(required, allowed))
           end == IF At(t, 20) = "." THEN AfterDigits(t, 21) ELSE 20
           fraction == IF At(t, 20) = "." THEN AfterDigits(t, 21) - 1 ELSE 19
           Bad == \/ Len(t) \notin shortest..longest
                  \/ ~decodeDate(SubSeq(t, 1, 10)).ok
                  \/ t[11] \notin isDateTimeSep
                  \/ t[14] # ":" \/ t[17] # ":"
                  \/ ~validHour(t, 12) \/ ~validMinSec(t, 15) \/ ~validMinSec(t, 18)
                  \/ At(t, 20) = "." /\ fraction = 20
                  \/ ZoneRefused(From(t, fraction + 1), required, allowed)
<1>1. Len(t) \in Nat
  BY TextTypes
<1>2. Bad => decodeDateTime(t, shortest, longest, required, allowed) = Rejected
  BY DEF decodeDateTime, ZoneRefused
<1>3. ~Bad => \E v : decodeDateTime(t, shortest, longest, required, allowed) = Decoded(v)
  BY DEF decodeDateTime, ZoneRefused
<1>4. ASSUME Len(t) \in shortest..longest PROVE valid <=> ~Bad
  <2>1. Len(t) >= 19
    BY <1>1, <1>4
  <2>2. decodeDate(SubSeq(t, 1, 10)).ok <=> DateAtStart(t)
    <3>1. SubSeq(t, 1, 10) \in Texts
      BY <1>1, <2>1 DEF Texts
    <3>2. Agree(ValidateDate(SubSeq(t, 1, 10)), decodeDate(SubSeq(t, 1, 10)))
      BY <3>1, DatesAgree
    <3>3. Len(t) >= 10
      BY <1>1, <2>1
    <3>4. ValidateDate(SubSeq(t, 1, 10)) <=> DateAtStart(t)
      BY <3>3, DateOfStart
    <3> QED BY <3>2, <3>4 DEF Agree
  <2>3. ClockAt(t, 12) <=> /\ t[14] = ":" /\ t[17] = ":"
                           /\ validHour(t, 12) /\ validMinSec(t, 15) /\ validMinSec(t, 18)
    <3>1. 14 \in 1..Len(t) /\ 17 \in 1..Len(t)
      BY <1>1, <2>1
    <3>2. At(t, 14) = t[14] /\ At(t, 17) = t[17]
      BY <3>1, AtProperties
    <3> QED BY <3>2 DEF ClockAt
  <2>4. end \in 20..(Len(t) + 1)
    <3>1. At(t, 20) = "." => 20 \in 1..Len(t)
      BY AtProperties DEF NoChar
    <3>2. At(t, 20) = "." => 21 \in 1..(Len(t) + 1)
      BY <1>1, <3>1
    <3>3. At(t, 20) = "." => AfterDigits(t, 21) \in 21..(Len(t) + 1)
      BY <3>2, AfterDigitsProperties
    <3> QED BY <1>1, <2>1, <3>3
  <2>5. fraction + 1 = end /\ fraction = end - 1
    BY <1>1, <2>4
  <2>6. From(t, end) \in Texts
    <3> HIDE DEF end
    <3> QED BY <1>1, <2>4 DEF From, Texts
  <2>7. ZoneRefused(From(t, end), required, allowed)
          <=> Zone(From(t, end)) \notin ZonesTaken(required, allowed)
    BY <2>6, ZonesAgree
  <2>8. At(t, 20) = "." => (end > 21 <=> fraction # 20)
    <3>1. At(t, 20) = "." => end \in 21..(Len(t) + 1)
      <4>1. At(t, 20) = "." => 20 \in 1..Len(t)
        BY AtProperties DEF NoChar
      <4>2. At(t, 20) = "." => 21 \in 1..(Len(t) + 1)
        BY <1>1, <4>1
      <4> QED BY <4>2, AfterDigitsProperties
    <3> HIDE DEF end, fraction
    <3> QED BY <1>1, <2>5, <3>1
  <2>9. valid <=> /\ DateAtStart(t)
                  /\ t[11] \in isDateTimeSep
                  /\ ClockAt(t, 12)
                  /\ At(t, 20) = "." => end > 21
                  /\ Zone(From(t, end)) \in ZonesTaken(required, allowed)
    BY <1>4 DEF DateTimeText
  <2> HIDE DEF valid, end, fraction
  <2> QED BY <1>4, <2>2, <2>3, <2>5, <2>7, <2>8, <2>9
<1>5. Len(t) \notin shortest..longest => ~valid
  BY DEF DateTimeText
<1>6. valid <=> ~Bad
  <2>1. Len(t) \notin shortest..longest => Bad
    OBVIOUS
  <2> HIDE DEF Bad, valid
  <2> QED BY <1>4, <1>5, <2>1
<1>7. valid => At(t, 1) \in Digit
  <2> SUFFICES ASSUME valid PROVE At(t, 1) \in Digit
    OBVIOUS
  <2>1. Len(t) \in shortest..longest /\ DateAtStart(t)
    BY DEF DateTimeText
  <2>2. 1 \in Nat \ {0} /\ 4 \in Int /\ 4 <= Len(t) /\ 1 \in 1..Len(t) /\ 1 \in 1..4
    BY <1>1, <2>1
  <2>3. t[1] \in Digit
    BY <2>1, <2>2, AllInPart DEF DateAtStart
  <2> QED BY <2>2, <2>3, AtProperties
<1> HIDE DEF Bad, valid
<1>8. \A v : Decoded(v).ok = TRUE /\ Rejected.ok = FALSE
  BY DEF Decoded, Rejected
<1>9. Agree(valid, decodeDateTime(t, shortest, longest, required, allowed))
  BY <1>2, <1>3, <1>6, <1>8 DEF Agree
<1> QED BY <1>7, <1>9 DEF valid

LEMMA TimestampsAgreeWithDecoder ==
  ASSUME NEW t \in Texts
  PROVE  /\ Agree(ValidateTimestamp(t), decodeTimestamp(t))
         /\ Agree(ValidateDatetime(t), decodeDatetime(t))
         /\ Agree(ValidateDatetimeTZ(t), decodeDatetimeTZ(t))
         /\ ValidateTimestamp(t) \/ ValidateDatetime(t) \/ ValidateDatetimeTZ(t) => At(t, 1) \in Digit
<1>1. /\ ZonesTaken(FALSE, TRUE) = {"none", "Z", "offset"}
      /\ ZonesTaken(FALSE, FALSE) = {"none"}
      /\ ZonesTaken(TRUE, TRUE) = {"Z", "offset"}
  BY DEF ZonesTaken
<1>2. 19 \in Nat /\ 20 \in Nat /\ 26 + NanoDigits \in Nat /\ 20 + NanoDigits \in Nat /\ 19 >= 19 /\ 20 >= 19
  BY NanoAssumption
<1>3. Agree(ValidateTimestamp(t), decodeTimestamp(t)) /\ (ValidateTimestamp(t) => At(t, 1) \in Digit)
  BY <1>1, <1>2, DateTimesAgree DEF ValidateTimestamp, decodeTimestamp
<1>4. Agree(ValidateDatetime(t), decodeDatetime(t)) /\ (ValidateDatetime(t) => At(t, 1) \in Digit)
  BY <1>1, <1>2, DateTimesAgree DEF ValidateDatetime, decodeDatetime
<1>5. Agree(ValidateDatetimeTZ(t), decodeDatetimeTZ(t)) /\ (ValidateDatetimeTZ(t) => At(t, 1) \in Digit)
  BY <1>1, <1>2, DateTimesAgree DEF ValidateDatetimeTZ, decodeDatetimeTZ
<1> QED BY <1>3, <1>4, <1>5

-----------------------------------------------------------------------------
(***************************************************************************)
(* decimal.                                                                *)
(***************************************************************************)
LEMMA DigitsToTheEnd ==
  ASSUME NEW t \in Texts, NEW i \in 1..(Len(t) + 1)
  PROVE  AfterDigits(t, i) = Len(t) + 1 <=> \A k \in i..Len(t) : t[k] \in Digit
<1>1. Len(t) \in Nat
  BY TextTypes
<1>2. ASSUME AfterDigits(t, i) = Len(t) + 1, NEW k \in i..Len(t) PROVE t[k] \in Digit
  <2>1. k \in i..(AfterDigits(t, i) - 1)
    BY <1>1, <1>2
  <2> QED BY <2>1, AfterDigitsProperties
<1>3. ASSUME \A k \in i..Len(t) : t[k] \in Digit PROVE AfterDigits(t, i) = Len(t) + 1
  <2>1. Len(t) + 1 \in i..(Len(t) + 1) /\ Len(t) + 1 \in Int /\ Len(t) + 1 \notin 1..Len(t)
    BY <1>1
  <2>2. At(t, Len(t) + 1) \notin Digit
    BY <2>1, AtProperties, NoDigitAtEnd
  <2>3. \A k \in i..((Len(t) + 1) - 1) : t[k] \in Digit
    BY <1>1, <1>3
  <2> HIDE <1>3
  <2> QED BY <2>1, <2>2, <2>3, AfterIsUnique, NoDigitAtEnd DEF AfterDigits
<1> QED BY <1>2, <1>3

LEMMA BelowOneText ==
  ASSUME NEW t \in Texts
  PROVE  BelowOne(t) <=> Len(t) > 3 /\ t[1] = "-" /\ t[2] = "0" /\ t[3] = "."
<1>1. Len(t) \in Nat
  BY TextTypes
<1>2. SUFFICES ASSUME Len(t) > 3
               PROVE  SubSeq(t, 1, 3) = <<"-", "0", ".">> <=> t[1] = "-" /\ t[2] = "0" /\ t[3] = "."
  BY DEF BelowOne
<1> DEFINE s == SubSeq(t, 1, 3)
<1>3. s \in Seq(Letter) /\ Len(s) = 3 /\ s[1] = t[1] /\ s[2] = t[2] /\ s[3] = t[3]
  BY <1>1, <1>2 DEF Texts
<1> HIDE DEF s
<1>4. ASSUME t[1] = "-", t[2] = "0", t[3] = "." PROVE s = <<"-", "0", ".">>
  <2> DEFINE u == <<t[1], t[2], t[3]>>
  <2>1. t[1] \in Letter /\ t[2] \in Letter /\ t[3] \in Letter
    BY <1>1, <1>2, TextTypes
  <2>2. u \in Seq(Letter) /\ Len(u) = 3 /\ u[1] = t[1] /\ u[2] = t[2] /\ u[3] = t[3]
    BY <2>1
  <2>3. \A k \in 1..Len(s) : s[k] = u[k]
    BY <1>3, <2>2
  <2>4. u = <<"-", "0", ".">>
    BY <1>4
  <2> HIDE DEF u
  <2>5. s = u
    BY <1>3, <2>2, <2>3, SeqEqual
  <2> QED BY <2>4, <2>5
<1>5. s = <<"-", "0", ".">> => t[1] = "-" /\ t[2] = "0" /\ t[3] = "."
  BY <1>3
<1> QED BY <1>4, <1>5 DEF s

LEMMA MinusZeroText ==
  ASSUME NEW t \in Texts, At(t, 1) = "-"
  PROVE  From(t, 2) = <<"0">> <=> t = <<"-", "0">>
<1>1. Len(t) \in Nat /\ 1 \in 1..Len(t) /\ t[1] = "-"
  BY TextTypes, AtProperties DEF NoChar
<1> DEFINE s == From(t, 2)
<1>2. s \in Texts /\ Len(s) = Len(t) - 1 /\ \A k \in 1..(Len(t) - 1) : s[k] = t[k + 1]
  <2>1. 2 \in 1..(Len(t) + 1)
    BY <1>1
  <2>2. /\ s \in Texts /\ Len(s) = Len(t) - 2 + 1
        /\ \A k \in 1..(Len(t) - 2 + 1) : s[k] = t[2 + k - 1]
    BY <2>1, FromProperties
  <2>3. Len(t) - 2 + 1 = Len(t) - 1 /\ \A k \in 1..(Len(t) - 1) : 2 + k - 1 = k + 1
    BY <1>1
  <2> QED BY <2>2, <2>3
<1>3. ASSUME t = <<"-", "0">> PROVE s = <<"0">>
  <2>1. Len(t) = 2 /\ t[2] = "0"
    BY <1>3
  <2>2. Len(s) = 1 /\ s[1] = "0"
    BY <1>2, <2>1
  <2> HIDE DEF s
  <2> QED BY <1>2, <2>2, ShortTexts
<1>4. ASSUME s = <<"0">> PROVE t = <<"-", "0">>
  <2>1. Len(s) = 1 /\ s[1] = "0"
    <3>1. Len(<<"0">>) = 1 /\ <<"0">>[1] = "0"
      OBVIOUS
    <3> QED BY <1>4, <3>1
  <2>2. Len(t) = 2 /\ t[2] = "0"
    BY <1>1, <1>2, <2>1
  <2>3. t = <<t[1], t[2]>>
    BY <2>2, ShortTexts
  <2> QED BY <1>1, <2>2, <2>3
<1> QED BY <1>3, <1>4

\* validate/dfa and decode agree on decimal, the path of its own for "-0." included.
LEMMA DecimalsAgree ==
  ASSUME NEW t \in Texts
  PROVE  /\ Agree(ValidateDecimal(t), decodeDecimal(t))
         /\ ValidateDecimal(t) => Plain(t)
<1> DEFINE neg == At(t, 1) = "-"
           i == IF neg THEN 2 ELSE 1
           whole == AfterDigits(t, i + 1)
           end == IF At(t, whole) = "." THEN AfterDigits(t, whole + 1) ELSE whole
           Starts == Len(t) \in 1..MaxDecimal /\ At(t, i) \in Digit
           Below == BelowOne(t)
           BelowTaken == (\A k \in 4..Len(t) : t[k] \in Digit) /\ ~(\A k \in 4..Len(t) : t[k] = "0")
           Lead == t[i] = "0" /\ Len(t) > i /\ t[i + 1] # "."
           Point == At(t, whole) = "." /\ end - whole - 1 \notin 1..MaxFraction
           Taken == /\ Starts /\ t # <<"-", "0">>
                    /\ IF Below THEN BelowTaken ELSE ~Lead /\ ~Point /\ end = Len(t) + 1
<1>1. Len(t) \in Nat /\ DOMAIN t = 1..Len(t) /\ MaxFraction \in Nat /\ MaxDecimal \in Nat
  BY TextTypes, DecimalAssumption
<1>2. i \in {1, 2} /\ i \in Nat /\ i \in Int
  OBVIOUS
<1>3. neg => t[1] = "-"
  BY AtProperties DEF NoChar
<1>4. ASSUME Starts PROVE i \in 1..Len(t) /\ t[i] \in Digit /\ i + 1 \in 1..(Len(t) + 1) /\ i + 1 \in Int
  <2> HIDE DEF i
  <2>1. i \in 1..Len(t)
    BY <1>2, <1>4, AtProperties, NoDigitAtEnd
  <2> QED BY <1>1, <1>4, <2>1, AtProperties
<1>5. ASSUME Starts PROVE whole \in (i + 1)..(Len(t) + 1) /\ \A k \in (i + 1)..(whole - 1) : t[k] \in Digit
  <2> HIDE DEF i
  <2> QED BY <1>4, <1>5, AfterDigitsProperties
<1>6. ASSUME Starts
      PROVE  \/ whole = Len(t) + 1 /\ At(t, whole) = NoChar
             \/ whole \in 1..Len(t) /\ At(t, whole) = t[whole] /\ whole + 1 \in 1..(Len(t) + 1)
  <2> HIDE DEF whole, i
  <2>1. whole = Len(t) + 1 \/ (whole \in 1..Len(t) /\ whole + 1 \in 1..(Len(t) + 1))
    BY <1>1, <1>4, <1>5, <1>6
  <2>2. whole \in Int /\ (whole = Len(t) + 1 => whole \notin 1..Len(t))
    BY <1>1, <2>1
  <2> QED BY <2>1, <2>2, AtProperties
<1>7. ASSUME Starts
      PROVE  (t[i] = "0" => At(t, i + 1) \in {NoChar, "."}) <=> ~Lead
  <2>1. i + 1 \in 1..Len(t) <=> Len(t) > i
    BY <1>1, <1>2, <1>4, <1>7
  <2>2. i + 1 \in 1..Len(t) => At(t, i + 1) = t[i + 1] /\ t[i + 1] # NoChar
    BY <1>2, AtProperties, TextTypes
  <2>3. i + 1 \notin 1..Len(t) => At(t, i + 1) = NoChar
    BY <1>2, AtProperties
  <2> HIDE DEF i
  <2> QED BY <2>1, <2>2, <2>3
<1>8. ASSUME Starts
      PROVE  (\/ whole = Len(t) + 1
              \/ /\ t[whole] = "." /\ AllIn(From(t, whole + 1), Digit)
                 /\ Len(From(t, whole + 1)) \in 1..MaxFraction)
             <=> ~Point /\ end = Len(t) + 1
  <2>1. CASE whole = Len(t) + 1 /\ At(t, whole) = NoChar
    BY <2>1 DEF NoChar
  <2>2. CASE whole \in 1..Len(t) /\ At(t, whole) = t[whole] /\ whole + 1 \in 1..(Len(t) + 1)
    <3>1. whole # Len(t) + 1
      BY <1>1, <2>2
    <3>2. CASE t[whole] # "."
      BY <2>2, <3>1, <3>2
    <3>3. CASE t[whole] = "."
      <4>1. end = AfterDigits(t, whole + 1)
        BY <2>2, <3>3
      <4>2. AllIn(From(t, whole + 1), Digit) <=> \A k \in (whole + 1)..Len(t) : t[k] \in Digit
        <5>1. whole + 1 \in Nat \ {0}
          BY <2>2
        <5> HIDE DEF whole
        <5> QED BY <5>1, AllInFrom
      <4>3. end = Len(t) + 1 <=> AllIn(From(t, whole + 1), Digit)
        <5> HIDE DEF whole, end
        <5> QED BY <2>2, <4>1, <4>2, DigitsToTheEnd
      <4>4. Len(From(t, whole + 1)) = Len(t) - whole
        <5> HIDE DEF whole, end
        <5>1. Len(From(t, whole + 1)) = Len(t) - (whole + 1) + 1
          BY <2>2, FromProperties
        <5>2. \A n, w \in Int : n - (w + 1) + 1 = n - w
          OBVIOUS
        <5>3. whole \in Int /\ Len(t) \in Int
          BY <1>1, <2>2
        <5> QED BY ONLY <5>1, <5>2, <5>3
      <4>5. end = Len(t) + 1 => end - whole - 1 = Len(t) - whole
        <5> HIDE DEF whole, end
        <5> QED BY <1>1, <2>2
      <4> HIDE DEF whole, end
      <4> QED BY <2>2, <3>1, <3>3, <4>3, <4>4, <4>5
    <3> QED BY <3>2, <3>3
  <2> QED BY <1>6, <1>8, <2>1, <2>2
<1>9. (neg /\ From(t, i) = <<"0">>) <=> t = <<"-", "0">>
  <2>1. neg => (From(t, 2) = <<"0">> <=> t = <<"-", "0">>)
    BY MinusZeroText
  <2>2. t = <<"-", "0">> => neg
    <3>1. t = <<"-", "0">> => Len(t) = 2 /\ t[1] = "-"
      OBVIOUS
    <3>2. t = <<"-", "0">> => 1 \in 1..Len(t)
      BY <3>1
    <3> QED BY <3>1, <3>2, AtProperties
  <2> QED BY <2>1, <2>2
<1>10. ASSUME Starts
       PROVE  (neg /\ t[i] = "0" /\ At(t, i + 1) = "." /\ Len(t) - i + 1 > 2) <=> Below
  <2>1. Below <=> Len(t) > 3 /\ t[1] = "-" /\ t[2] = "0" /\ t[3] = "."
    BY BelowOneText
  <2>2. t[1] = "-" => neg
    <3>1. 1 \in 1..Len(t)
      BY <1>1, <1>10
    <3> QED BY <3>1, AtProperties
  <2>3. neg => i = 2 /\ i + 1 = 3 /\ (Len(t) - i + 1 > 2 <=> Len(t) > 3)
    BY <1>1
  <2>4. Len(t) > 3 => At(t, 3) = t[3]
    <3>1. Len(t) > 3 => 3 \in 1..Len(t)
      BY <1>1
    <3> QED BY <3>1, AtProperties
  <2> HIDE DEF neg, i
  <2> QED BY <1>3, <2>1, <2>2, <2>3, <2>4
<1>11. ASSUME Below
       PROVE  (LET digits == From(t, i + 2) IN AllIn(digits, Digit) /\ ~AllIn(digits, {"0"})) <=> BelowTaken
  <2>1. i = 2
    <3>1. 1 \in 1..Len(t) /\ t[1] = "-"
      BY <1>1, <1>11, BelowOneText
    <3> QED BY <3>1, AtProperties
  <2>2. i + 2 = 4 /\ 4 \in Nat \ {0}
    BY <2>1
  <2>3. AllIn(From(t, 4), Digit) <=> \A k \in 4..Len(t) : t[k] \in Digit
    BY <2>2, AllInFrom
  <2>4. AllIn(From(t, 4), {"0"}) <=> \A k \in 4..Len(t) : t[k] \in {"0"}
    BY <2>2, AllInFrom
  <2> HIDE DEF i
  <2> QED BY <2>2, <2>3, <2>4
<1>12. ValidateDecimal(t) <=> Taken
  <2>1. ValidateDecimal(t) <=>
          /\ Starts
          /\ ~(neg /\ From(t, i) = <<"0">>)
          /\ IF neg /\ t[i] = "0" /\ At(t, i + 1) = "." /\ Len(t) - i + 1 > 2
             THEN LET digits == From(t, i + 2) IN AllIn(digits, Digit) /\ ~AllIn(digits, {"0"})
             ELSE /\ t[i] = "0" => At(t, i + 1) \in {NoChar, "."}
                  /\ \/ whole = Len(t) + 1
                     \/ /\ t[whole] = "." /\ AllIn(From(t, whole + 1), Digit)
                        /\ Len(From(t, whole + 1)) \in 1..MaxFraction
    BY DEF ValidateDecimal
  <2>2. CASE ~Starts
    BY <2>1, <2>2
  <2>3. CASE Starts /\ Below
    <3> HIDE DEF Starts, Below, BelowTaken, neg, i, whole, end, Lead, Point
    <3> QED BY <1>9, <1>10, <1>11, <2>1, <2>3
  <2>4. CASE Starts /\ ~Below
    <3> HIDE DEF Starts, Below, BelowTaken, neg, i, whole, end, Lead, Point
    <3> QED BY <1>7, <1>8, <1>9, <1>10, <2>1, <2>4
  <2> QED BY <2>2, <2>3, <2>4
<1>13. decodeDecimal(t) = IF Taken THEN Decoded(t) ELSE Rejected
  <2>1. decodeDecimal(t) =
          IF \/ ~(Len(t) \in 1..MaxDecimal) \/ At(t, i) \notin Digit
             \/ t = <<"-", "0">>
             \/ Below /\ (\E k \in 4..Len(t) : t[k] \notin Digit)
             \/ Below /\ (\A k \in 4..Len(t) : t[k] = "0")
          THEN Rejected
          ELSE IF Below THEN Decoded(t)
          ELSE IF Lead \/ Point \/ end # Len(t) + 1 THEN Rejected ELSE Decoded(t)
    BY DEF decodeDecimal
  <2> HIDE DEF Below, neg, i, whole, end, Lead, Point
  <2> QED BY <2>1
<1>14. ASSUME Taken, NEW k \in 1..Len(t) PROVE t[k] \in Digit \cup {"-", "."}
  <2>1. Starts
    BY <1>14
  <2>2. CASE Below
    <3>1. k \in {1, 2, 3} \/ k \in 4..Len(t)
      BY <1>1
    <3>2. t[1] = "-" /\ t[2] = "0" /\ t[3] = "."
      BY <2>2, BelowOneText
    <3>3. k \in 4..Len(t) => t[k] \in Digit
      BY <1>14, <2>2
    <3>4. "0" \in Digit
      BY DigitSet
    <3> QED BY <3>1, <3>2, <3>3, <3>4
  <2>3. CASE ~Below
    <3>1. ~Point /\ end = Len(t) + 1
      BY <1>14, <2>3
    <3>2. \/ k = 1 /\ neg
          \/ k = i
          \/ k \in (i + 1)..(whole - 1)
          \/ k = whole
          \/ k \in (whole + 1)..Len(t)
      <4>1. whole \in (i + 1)..(Len(t) + 1)
        BY <1>5, <2>1
      <4>2. (i = 1) \/ (i = 2 /\ neg)
        OBVIOUS
      <4> HIDE DEF whole, i, neg
      <4> QED BY <1>1, <4>1, <4>2
    <3>3. k = whole => t[whole] = "."
      <4>1. k = whole => whole # Len(t) + 1
        BY <1>1
      <4> HIDE DEF whole, i, end, Point
      <4> QED BY <1>8, <2>1, <3>1, <4>1
    <3>4. k \in (whole + 1)..Len(t) => t[k] \in Digit
      <4>1. ASSUME k \in (whole + 1)..Len(t) PROVE t[k] \in Digit
        <5>1. whole # Len(t) + 1
          BY <1>1, <1>5, <2>1, <4>1
        <5>2. AllIn(From(t, whole + 1), Digit) /\ whole + 1 \in Nat \ {0}
          <6>1. AllIn(From(t, whole + 1), Digit)
            <7> HIDE DEF whole, i, end, Point
            <7> QED BY <1>8, <2>1, <3>1, <5>1
          <6>2. whole + 1 \in Nat \ {0}
            <7> HIDE DEF whole
            <7> QED BY <1>2, <1>5, <2>1
          <6> QED BY <6>1, <6>2
        <5> HIDE DEF whole
        <5> QED BY <4>1, <5>2, AllInFrom
      <4> QED BY <4>1
    <3>5. k = i => t[k] \in Digit
      BY <1>4, <2>1
    <3>6. k \in (i + 1)..(whole - 1) => t[k] \in Digit
      BY <1>5, <2>1
    <3> HIDE DEF whole, i, neg
    <3> QED BY <1>3, <3>2, <3>3, <3>4, <3>5, <3>6
  <2> QED BY <2>2, <2>3
<1>15. Taken => Plain(t)
  <2> SUFFICES ASSUME Taken PROVE Plain(t)
    OBVIOUS
  <2>1. \A k \in 1..Len(t) : t[k] \in Digit \cup {"-", "."}
    BY <1>14
  <2> QED BY ONLY <1>1, <2>1, PlainClasses DEF Plain, IsWhitespace, Quote
<1> HIDE DEF Taken
<1>16. \A v : Decoded(v).ok = TRUE /\ Rejected.ok = FALSE
  BY DEF Decoded, Rejected
<1>17. Agree(ValidateDecimal(t), decodeDecimal(t))
  BY <1>12, <1>13, <1>16 DEF Agree
<1> QED BY <1>12, <1>15, <1>17

-----------------------------------------------------------------------------
(***************************************************************************)
(* float.                                                                  *)
(***************************************************************************)
LEMMA LowerE ==
  ASSUME NEW c
  PROVE  Lower(c) = "e" <=> c \in {"e", "E"}
<1> DEFINE at(d) == CHOOSE i \in 1..26 : UpperLetters[i] = d
<1>1. \A d : (\E i \in 1..26 : UpperLetters[i] = d) => at(d) \in 1..26 /\ UpperLetters[at(d)] = d
  OBVIOUS
<1>2. \A d \in DOMAIN LowerOf : LowerOf[d] = LowerLetters[at(d)] /\ \E i \in 1..26 : UpperLetters[i] = d
  BY DEF LowerOf
<1>3. \A d : (\E i \in 1..26 : UpperLetters[i] = d) => d \in DOMAIN LowerOf
  BY DEF LowerOf
<1> HIDE DEF at
<1>4. \A i \in 1..26 : LowerLetters[i] = "e" <=> i = 5
  BY DEF LowerLetters
<1>5. \A i \in 1..26 : UpperLetters[i] = "E" <=> i = 5
  BY DEF UpperLetters
<1>6. \A i \in 1..26 : UpperLetters[i] # "e"
  BY DEF UpperLetters
<1>7. CASE c \in DOMAIN LowerOf
  <2>1. Lower(c) = LowerLetters[at(c)] /\ at(c) \in 1..26 /\ UpperLetters[at(c)] = c
    BY <1>1, <1>2, <1>7 DEF Lower
  <2>2. Lower(c) = "e" <=> at(c) = 5
    BY <1>4, <2>1
  <2>3. c = "E" <=> at(c) = 5
    BY <1>5, <2>1
  <2>4. c # "e"
    BY <1>6, <2>1
  <2> QED BY <2>2, <2>3, <2>4
<1>8. CASE c \notin DOMAIN LowerOf
  <2>1. c # "E"
    <3>1. 5 \in 1..26 /\ UpperLetters[5] = "E"
      BY <1>5
    <3>2. "E" \in DOMAIN LowerOf
      BY <1>3, <3>1
    <3> QED BY <1>8, <3>2
  <2> QED BY <1>8, <2>1 DEF Lower
<1> QED BY <1>7, <1>8

\* Digits, points and signs have no other case.
LEMMA LowerKeeps ==
  ASSUME NEW c \in Digit \cup {"-", ".", "+"}
  PROVE  Lower(c) = c
BY DigitSet DEF Lower, LowerOf, UpperLetters

\* Where the digits of a number, of its fraction and of its exponent end.
FloatFirst(t) == IF At(t, 1) = "-" THEN 2 ELSE 1
FloatWhole(t) == AfterDigits(t, FloatFirst(t))
FloatFraction(t) == IF At(t, FloatWhole(t)) = "." THEN AfterDigits(t, FloatWhole(t) + 1) ELSE FloatWhole(t)
FloatPower(t) == IF At(t, FloatFraction(t) + 1) \in {"+", "-"} THEN FloatFraction(t) + 2
                 ELSE FloatFraction(t) + 1
HasPower(t) == At(t, FloatFraction(t)) \in {"e", "E"}
FloatEnd(t) == IF HasPower(t) THEN AfterDigits(t, FloatPower(t)) ELSE FloatFraction(t)

LEMMA FloatPlaces ==
  ASSUME NEW t \in Texts
  PROVE  /\ FloatFirst(t) \in {1, 2} /\ FloatFirst(t) \in 1..(Len(t) + 1)
         /\ FloatFirst(t) = 2 => t[1] = "-"
         /\ FloatWhole(t) \in FloatFirst(t)..(Len(t) + 1)
         /\ \A k \in FloatFirst(t)..(FloatWhole(t) - 1) : t[k] \in Digit
         /\ FloatFraction(t) \in FloatWhole(t)..(Len(t) + 1)
         /\ At(t, FloatWhole(t)) = "." => /\ FloatWhole(t) \in 1..Len(t) /\ t[FloatWhole(t)] = "."
                                          /\ FloatFraction(t) \in (FloatWhole(t) + 1)..(Len(t) + 1)
                                          /\ \A k \in (FloatWhole(t) + 1)..(FloatFraction(t) - 1) : t[k] \in Digit
         /\ HasPower(t) => /\ FloatFraction(t) \in 1..Len(t) /\ t[FloatFraction(t)] \in {"e", "E"}
                           /\ FloatPower(t) \in (FloatFraction(t) + 1)..(FloatFraction(t) + 2)
                           /\ FloatPower(t) = FloatFraction(t) + 2 => t[FloatFraction(t) + 1] \in {"+", "-"}
                           /\ FloatEnd(t) \in FloatPower(t)..(Len(t) + 1)
                           /\ \A k \in FloatPower(t)..(FloatEnd(t) - 1) : t[k] \in Digit
<1> DEFINE first == FloatFirst(t)
           whole == FloatWhole(t)
           fraction == FloatFraction(t)
           power == FloatPower(t)
           end == FloatEnd(t)
<1>1. Len(t) \in Nat
  BY TextTypes
<1>2. first \in {1, 2} /\ first \in 1..(Len(t) + 1) /\ (first = 2 => t[1] = "-")
  <2>1. At(t, 1) = "-" => 1 \in 1..Len(t) /\ t[1] = "-"
    BY AtProperties DEF NoChar
  <2>2. CASE At(t, 1) = "-"
    <3>1. first = 2 /\ 2 \in 1..(Len(t) + 1)
      BY <1>1, <2>1, <2>2 DEF FloatFirst
    <3> QED BY <2>1, <2>2, <3>1
  <2>3. CASE At(t, 1) # "-"
    <3>1. first = 1 /\ 1 \in 1..(Len(t) + 1)
      BY <1>1, <2>3 DEF FloatFirst
    <3> QED BY <3>1
  <2> QED BY <2>2, <2>3
<1>3. whole \in first..(Len(t) + 1) /\ \A k \in first..(whole - 1) : t[k] \in Digit
  BY <1>2, AfterDigitsProperties DEF FloatWhole
<1>4. whole \in Int /\ whole >= 1
  <2> HIDE DEF first, whole
  <2> QED BY <1>1, <1>2, <1>3
<1>5. ASSUME At(t, whole) = "."
      PROVE  /\ whole \in 1..Len(t) /\ t[whole] = "." /\ fraction \in (whole + 1)..(Len(t) + 1)
             /\ \A k \in (whole + 1)..(fraction - 1) : t[k] \in Digit
  <2>1. whole \in 1..Len(t) /\ t[whole] = "."
    BY <1>4, <1>5, AtProperties DEF NoChar
  <2>2. whole + 1 \in 1..(Len(t) + 1)
    <3> HIDE DEF whole
    <3> QED BY <1>1, <2>1
  <2>3. fraction = AfterDigits(t, whole + 1)
    BY <1>5 DEF FloatFraction
  <2> QED BY <2>1, <2>2, <2>3, AfterDigitsProperties
<1>6. fraction \in whole..(Len(t) + 1)
  <2>1. At(t, whole) # "." => fraction = whole
    BY DEF FloatFraction
  <2> HIDE DEF whole, fraction, first
  <2> QED BY <1>1, <1>3, <1>4, <1>5, <2>1
<1>7. fraction \in Int /\ fraction >= 1
  <2> HIDE DEF whole, fraction
  <2> QED BY <1>1, <1>4, <1>6
<1>8. ASSUME HasPower(t)
      PROVE  /\ fraction \in 1..Len(t) /\ t[fraction] \in {"e", "E"}
             /\ power \in (fraction + 1)..(fraction + 2)
             /\ power = fraction + 2 => t[fraction + 1] \in {"+", "-"}
             /\ end \in power..(Len(t) + 1)
             /\ \A k \in power..(end - 1) : t[k] \in Digit
  <2>1. At(t, fraction) \in {"e", "E"}
    BY <1>8 DEF HasPower
  <2>2. fraction \in 1..Len(t) /\ t[fraction] \in {"e", "E"}
    <3> HIDE DEF fraction
    <3> QED BY <1>7, <2>1, AtProperties DEF NoChar
  <2>3. At(t, fraction + 1) \in {"+", "-"} => fraction + 1 \in 1..Len(t) /\ t[fraction + 1] \in {"+", "-"}
    <3> HIDE DEF fraction
    <3>1. fraction + 1 \in Int
      BY <1>7
    <3> QED BY <3>1, AtProperties DEF NoChar
  <2>4. power = IF At(t, fraction + 1) \in {"+", "-"} THEN fraction + 2 ELSE fraction + 1
    BY DEF FloatPower
  <2>5. end = AfterDigits(t, power)
    BY <1>8 DEF FloatEnd
  <2> HIDE DEF fraction, power, end
  <2>6. power \in (fraction + 1)..(fraction + 2) /\ power \in 1..(Len(t) + 1)
    BY <1>1, <1>7, <2>2, <2>3, <2>4
  <2>7. power = fraction + 2 => t[fraction + 1] \in {"+", "-"}
    BY <1>7, <2>3, <2>4
  <2>8. end \in power..(Len(t) + 1) /\ \A k \in power..(end - 1) : t[k] \in Digit
    BY <2>5, <2>6, AfterDigitsProperties
  <2> QED BY <2>2, <2>6, <2>7, <2>8
<1> QED BY <1>2, <1>3, <1>5, <1>6, <1>8

\* What the automaton asks of a number.
IsFloatNumber(t) ==
  /\ FloatWhole(t) # FloatFirst(t)
  /\ At(t, FloatWhole(t)) = "." => FloatFraction(t) # FloatWhole(t) + 1
  /\ HasPower(t) => FloatEnd(t) # FloatPower(t)
  /\ FloatEnd(t) = Len(t) + 1

LEMMA FloatValidated ==
  ASSUME NEW t \in Texts
  PROVE  ValidateFloat(t) <=> LowerText(t) \in FloatNames \/ IsFloatNumber(t)
<1> DEFINE e == Lower(At(t, FloatFraction(t))) = "e"
           power == IF ~e THEN FloatFraction(t) ELSE FloatPower(t)
           end == IF e THEN AfterDigits(t, power) ELSE FloatFraction(t)
<1>1. FloatSpans(t) = [first |-> FloatFirst(t), whole |-> FloatWhole(t), fraction |-> FloatFraction(t),
                       power |-> power, end |-> end]
  BY DEF FloatSpans, FloatFirst, FloatWhole, FloatFraction, FloatPower
<1>2. e <=> HasPower(t)
  BY LowerE DEF HasPower
<1>3. end = FloatEnd(t) /\ (e => power = FloatPower(t))
  BY <1>2 DEF FloatEnd
<1>4. ValidateFloat(t) <=> \/ LowerText(t) \in FloatNames
                           \/ /\ FloatWhole(t) > FloatFirst(t)
                              /\ At(t, FloatWhole(t)) = "." => FloatFraction(t) > FloatWhole(t) + 1
                              /\ e => end > power
                              /\ end = Len(t) + 1
  <2> HIDE DEF e, power, end
  <2> QED BY <1>1 DEF ValidateFloat, e
<1>5. FloatWhole(t) > FloatFirst(t) <=> FloatWhole(t) # FloatFirst(t)
  <2>1. FloatFirst(t) \in Int /\ FloatWhole(t) \in FloatFirst(t)..(Len(t) + 1)
    BY FloatPlaces
  <2> QED BY <2>1
<1>6. At(t, FloatWhole(t)) = "." => (FloatFraction(t) > FloatWhole(t) + 1 <=> FloatFraction(t) # FloatWhole(t) + 1)
  <2>1. At(t, FloatWhole(t)) = "." => /\ FloatWhole(t) \in 1..Len(t)
                                      /\ FloatFraction(t) \in (FloatWhole(t) + 1)..(Len(t) + 1)
    BY FloatPlaces
  <2> QED BY <2>1
<1>7. HasPower(t) => (FloatEnd(t) > FloatPower(t) <=> FloatEnd(t) # FloatPower(t))
  <2>1. HasPower(t) => /\ FloatFraction(t) \in 1..Len(t)
                       /\ FloatPower(t) \in (FloatFraction(t) + 1)..(FloatFraction(t) + 2)
                       /\ FloatEnd(t) \in FloatPower(t)..(Len(t) + 1)
    BY FloatPlaces
  <2> QED BY <2>1
<1> HIDE DEF e, power, end
<1> QED BY <1>2, <1>3, <1>4, <1>5, <1>6, <1>7 DEF IsFloatNumber

LEMMA FloatDecoded ==
  ASSUME NEW t \in Texts
  PROVE  decodeFloat(t) = IF LowerText(t) \in FloatNames THEN Decoded(LowerText(t))
                          ELSE IF IsFloatNumber(t) /\ ~OutOfRange(t) THEN Decoded(t) ELSE Rejected
<1>1. decodeFloat(t) =
        IF LowerText(t) \in FloatNames THEN Decoded(LowerText(t))
        ELSE IF \/ FloatWhole(t) = FloatFirst(t)
                \/ At(t, FloatWhole(t)) = "." /\ FloatFraction(t) = FloatWhole(t) + 1
                \/ HasPower(t) /\ FloatEnd(t) = FloatPower(t)
                \/ FloatEnd(t) # Len(t) + 1
                \/ OutOfRange(t)
             THEN Rejected ELSE Decoded(t)
  BY DEF decodeFloat, FloatFirst, FloatWhole, FloatFraction, FloatPower, FloatEnd, HasPower
<1> QED BY <1>1 DEF IsFloatNumber

\* The characters of nan, inf and -inf: none is a digit or a point.
LEMMA NameCharacters ==
  ASSUME NEW t \in Texts, LowerText(t) \in FloatNames, NEW k \in 1..Len(t)
  PROVE  /\ Lower(t[k]) \in {"n", "a", "i", "f", "-"}
         /\ t[k] \notin Digit /\ t[k] # "."
<1>1. DOMAIN t = 1..Len(t)
  BY TextTypes
<1>2. LowerText(t)[k] = Lower(t[k]) /\ DOMAIN LowerText(t) = DOMAIN t
  BY <1>1 DEF LowerText
<1>3. Lower(t[k]) \in {"n", "a", "i", "f", "-"}
  <2>1. CASE LowerText(t) = <<"n", "a", "n">>
    <3>1. DOMAIN LowerText(t) = 1..3
      BY <2>1
    <3>2. k \in 1..3
      BY <1>1, <1>2, <3>1
    <3> QED BY <1>2, <2>1, <3>2
  <2>2. CASE LowerText(t) = <<"i", "n", "f">>
    <3>1. DOMAIN LowerText(t) = 1..3
      BY <2>2
    <3>2. k \in 1..3
      BY <1>1, <1>2, <3>1
    <3> QED BY <1>2, <2>2, <3>2
  <2>3. CASE LowerText(t) = <<"-", "i", "n", "f">>
    <3>1. DOMAIN LowerText(t) = 1..4
      BY <2>3
    <3>2. k \in 1..4
      BY <1>1, <1>2, <3>1
    <3> QED BY <1>2, <2>3, <3>2
  <2> QED BY <2>1, <2>2, <2>3 DEF FloatNames
<1>4. \A c \in Digit \cup {"."} : c \notin {"n", "a", "i", "f", "-"}
  BY DigitSet
<1> QED BY <1>3, <1>4, LowerKeeps

\* A name is not beyond the range: no digit stands where its number would.
LEMMA NamesInRange ==
  ASSUME NEW t \in Texts, LowerText(t) \in FloatNames
  PROVE  ~OutOfRange(t)
<1> DEFINE first == FloatFirst(t)
<1>1. Len(t) \in Nat
  BY TextTypes
<1>2. first \in 1..(Len(t) + 1)
  BY FloatPlaces
<1>3. At(t, first) \notin Digit /\ At(t, first) # "."
  <2>1. CASE first \in 1..Len(t)
    <3>1. At(t, first) = t[first]
      BY <2>1, AtProperties
    <3> QED BY <2>1, <3>1, NameCharacters
  <2>2. CASE first \notin 1..Len(t)
    <3>1. At(t, first) = NoChar
      BY <1>2, <2>2, AtProperties
    <3> QED BY <3>1, NoDigitAtEnd DEF NoChar
  <2> QED BY <2>1, <2>2
<1>4. FloatWhole(t) = first
  <2>1. first \in first..(Len(t) + 1) /\ \A k \in first..(first - 1) : t[k] \in Digit
    <3> HIDE DEF first
    <3> QED BY <1>1, <1>2
  <2> QED BY <1>2, <1>3, <2>1, AfterIsUnique, NoDigitAtEnd DEF FloatWhole, AfterDigits
<1>5. FloatFraction(t) = first
  BY <1>3, <1>4 DEF FloatFraction
<1> DEFINE mantissa == SubSeq(t, first, first - 1) \o SubSeq(t, first + 1, first - 1)
<1>6. mantissa = <<>>
  <2> HIDE DEF first
  <2>1. SubSeq(t, first, first - 1) = <<>>
    BY <1>1, <1>2, SubSeqEmpty
  <2>2. SubSeq(t, first + 1, first - 1) = <<>>
    BY <1>1, <1>2, SubSeqEmpty
  <2> QED BY <2>1, <2>2
<1>7. OutOfRange(t) => \E top \in DOMAIN mantissa : TRUE
  <2>1. FloatSpans(t).first = first /\ FloatSpans(t).whole = first /\ FloatSpans(t).fraction = first
    BY <1>4, <1>5 DEF FloatSpans, FloatFirst, FloatWhole, FloatFraction
  <2> HIDE DEF first
  <2> QED BY <2>1 DEF OutOfRange
<1> HIDE DEF mantissa
<1> QED BY <1>6, <1>7

\* validate/dfa and decode agree on float, but for a number strconv cannot represent: the
\* decoder takes none of those.
LEMMA FloatsAgree ==
  ASSUME NEW t \in Texts
  PROVE  /\ ~OutOfRange(t) => Agree(ValidateFloat(t), decodeFloat(t))
         /\ OutOfRange(t) => decodeFloat(t).ok = FALSE
         /\ ValidateFloat(t) => Plain(t)
<1>1. \A v : Decoded(v).ok = TRUE /\ Rejected.ok = FALSE
  BY DEF Decoded, Rejected
<1>2. ~OutOfRange(t) => Agree(ValidateFloat(t), decodeFloat(t))
  BY <1>1, FloatValidated, FloatDecoded DEF Agree
<1>3. OutOfRange(t) => decodeFloat(t).ok = FALSE
  BY <1>1, FloatDecoded, NamesInRange
<1>4. ASSUME LowerText(t) \in FloatNames PROVE Plain(t)
  <2>1. ASSUME NEW k \in 1..Len(t) PROVE t[k] \notin IsWhitespace \cup {Quote}
    <3>1. Lower(t[k]) \in {"n", "a", "i", "f", "-"}
      BY <1>4, <2>1, NameCharacters
    <3>2. \A c \in IsWhitespace \cup {Quote} : c \notin {"n", "a", "i", "f", "-"}
      BY DEF IsWhitespace, Quote
    <3> QED BY <3>1, <3>2, LowerPlain
  <2> QED BY <2>1, TextTypes DEF Plain
<1>5. ASSUME IsFloatNumber(t) PROVE Plain(t)
  <2> DEFINE first == FloatFirst(t)
             whole == FloatWhole(t)
             fraction == FloatFraction(t)
             power == FloatPower(t)
             end == FloatEnd(t)
             Form == Digit \cup {"-", "+", ".", "e", "E"}
  <2>1. Len(t) \in Nat /\ DOMAIN t = 1..Len(t)
    BY TextTypes
  <2>2. first \in {1, 2} /\ (first = 2 => t[1] = "-")
    BY FloatPlaces
  <2>3. whole \in first..(Len(t) + 1) /\ \A k \in first..(whole - 1) : t[k] \in Digit
    BY FloatPlaces
  <2>4. fraction \in whole..(Len(t) + 1)
    BY FloatPlaces
  <2>5. \/ fraction = whole
        \/ t[whole] = "." /\ \A k \in (whole + 1)..(fraction - 1) : t[k] \in Digit
    <3>1. At(t, whole) # "." => fraction = whole
      BY DEF FloatFraction
    <3>2. At(t, whole) = "." => t[whole] = "." /\ \A k \in (whole + 1)..(fraction - 1) : t[k] \in Digit
      BY FloatPlaces
    <3> QED BY <3>1, <3>2
  <2>6. \/ fraction = Len(t) + 1
        \/ /\ t[fraction] \in {"e", "E"} /\ power \in (fraction + 1)..(fraction + 2)
           /\ power = fraction + 2 => t[fraction + 1] \in {"+", "-"}
           /\ \A k \in power..Len(t) : t[k] \in Digit
    <3>1. end = Len(t) + 1
      BY <1>5 DEF IsFloatNumber
    <3>2. ~HasPower(t) => end = fraction
      BY DEF FloatEnd
    <3>3. HasPower(t) => /\ t[fraction] \in {"e", "E"} /\ power \in (fraction + 1)..(fraction + 2)
                         /\ power = fraction + 2 => t[fraction + 1] \in {"+", "-"}
                         /\ \A k \in power..(end - 1) : t[k] \in Digit
      BY FloatPlaces
    <3>4. (Len(t) + 1) - 1 = Len(t)
      BY <2>1
    <3> HIDE DEF fraction, power, end
    <3> QED BY <3>1, <3>2, <3>3, <3>4
  <2>7. ASSUME NEW k \in 1..Len(t) PROVE t[k] \in Form
    <3> HIDE DEF first, whole, fraction, power, end
    <3>1. \/ k = 1 /\ first = 2
          \/ k \in first..(whole - 1)
          \/ k \in whole..(fraction - 1)
          \/ k \in fraction..Len(t)
      BY <2>1, <2>2, <2>3, <2>4
    <3>2. k \in whole..(fraction - 1) => t[k] \in Form
      <4>1. k \in whole..(fraction - 1) => fraction # whole /\ (k = whole \/ k \in (whole + 1)..(fraction - 1))
        BY <2>1, <2>2, <2>3, <2>4
      <4> QED BY <2>5, <4>1
    <3>3. k \in fraction..Len(t) => t[k] \in Form
      <4>1. k \in fraction..Len(t) => fraction # Len(t) + 1
        BY <2>1
      <4>2. fraction \in Int
        BY <2>1, <2>2, <2>3, <2>4
      <4>3. ASSUME k \in fraction..Len(t), power \in (fraction + 1)..(fraction + 2)
            PROVE  k = fraction \/ (k = fraction + 1 /\ power = fraction + 2) \/ k \in power..Len(t)
        BY <2>1, <4>2, <4>3
      <4> QED BY <2>6, <4>1, <4>3
    <3> QED BY <2>2, <2>3, <3>1, <3>2, <3>3
  <2> QED BY ONLY <2>1, <2>7, PlainClasses DEF Plain, IsWhitespace, Quote
<1> QED BY <1>2, <1>3, <1>4, <1>5, FloatValidated

-----------------------------------------------------------------------------
(***************************************************************************)
(* Loops over the characters, as recursive functions, and the number a     *)
(* text of digits stands for.                                              *)
(***************************************************************************)
Steps(N, A) == [(1..N) \X A -> A]
Repeats(f, N, A, a, F) == f \in [0..N -> A] /\ f[0] = a /\ \A i \in 1..N : f[i] = F[<<i, f[i - 1]>>]

LEMMA PrimitiveRecursion ==
  ASSUME NEW N \in Nat, NEW A, NEW a \in A, NEW F \in Steps(N, A)
  PROVE  \E f : Repeats(f, N, A, a, F)
<1>0. F \in [(1..N) \X A -> A]
  BY DEF Steps
<1> DEFINE Upto(n) == \E f \in [0..n -> A] : f[0] = a /\ \A i \in 1..n : f[i] = F[<<i, f[i - 1]>>]
           T == {n \in Nat : n <= N => Upto(n)}
<1>1. T \in SUBSET Nat
  OBVIOUS
<1>2. 0 \in T
  <2> DEFINE f == [i \in 0..0 |-> a]
  <2>1. f \in [0..0 -> A] /\ f[0] = a /\ \A i \in 1..0 : f[i] = F[<<i, f[i - 1]>>]
    OBVIOUS
  <2> QED BY <2>1
<1>3. ASSUME NEW n \in T PROVE n + 1 \in T
  <2> SUFFICES ASSUME n + 1 <= N PROVE Upto(n + 1)
    BY <1>3
  <2>1. n \in Nat /\ n <= N
    BY <1>3
  <2>2. PICK f \in [0..n -> A] : f[0] = a /\ \A i \in 1..n : f[i] = F[<<i, f[i - 1]>>]
    BY <1>3, <2>1
  <2> DEFINE g == [i \in 0..(n + 1) |-> IF i = n + 1 THEN F[<<n + 1, f[n]>>] ELSE f[i]]
  <2>3. F[<<n + 1, f[n]>>] \in A
    <3>1. n + 1 \in 1..N /\ n \in 0..n
      BY <2>1
    <3>2. f[n] \in A
      BY <2>2, <3>1
    <3>3. <<n + 1, f[n]>> \in (1..N) \X A
      BY <3>1, <3>2
    <3> QED BY <1>0, <3>3
  <2>4. \A i \in 0..(n + 1) : i # n + 1 => i \in 0..n
    BY <2>1
  <2>5. g \in [0..(n + 1) -> A]
    BY <2>2, <2>3, <2>4
  <2>6. g[0] = a
    BY <2>1, <2>2
  <2>7. ASSUME NEW i \in 1..(n + 1) PROVE g[i] = F[<<i, g[i - 1]>>]
    <3>1. i \in 0..(n + 1) /\ i - 1 \in 0..(n + 1) /\ i - 1 \in 0..n /\ i - 1 # n + 1
      BY <2>1
    <3>2. g[i - 1] = f[i - 1]
      BY <3>1
    <3>3. CASE i = n + 1
      <4>1. i - 1 = n
        BY <2>1, <3>3
      <4>2. g[i] = F[<<n + 1, f[n]>>]
        BY <3>1, <3>3
      <4> QED BY <3>2, <3>3, <4>1, <4>2
    <3>4. CASE i # n + 1
      <4>1. i \in 1..n
        BY <2>1, <3>4
      <4>2. g[i] = f[i]
        BY <3>1, <3>4
      <4> QED BY <2>2, <3>2, <4>1, <4>2
    <3> QED BY <3>3, <3>4
  <2> HIDE DEF g
  <2> QED BY <2>5, <2>6, <2>7
<1> HIDE DEF T
<1>4. T = Nat
  BY <1>1, <1>2, <1>3, SetInduction
<1>5. Upto(N)
  <2>1. N \in T /\ N <= N
    BY <1>4
  <2> QED BY <2>1 DEF T
<1> QED BY <1>5 DEF Repeats

\* The recursive function in Number.
Counts(digits, g) == g = [i \in 0..Len(digits) |-> IF i = 0 THEN 0 ELSE g[i - 1] * 10 + DigitValue[digits[i]]]
Counted(digits) == CHOOSE g : Counts(digits, g)

LEMMA CountedProperties ==
  ASSUME NEW digits \in Texts, AllIn(digits, Digit)
  PROVE  LET n == Len(digits)
             f == Counted(digits)
         IN /\ Number(digits) = f[n]
            /\ f[0] = 0 /\ \A i \in 1..n : f[i] = f[i - 1] * 10 + DigitValue[digits[i]]
            /\ \A i \in 0..n : f[i] \in Nat
<1> DEFINE n == Len(digits)
<1>1. n \in Nat /\ \A i \in 1..n : digits[i] \in Digit /\ DigitValue[digits[i]] \in Nat
  <2>1. n \in Nat /\ DOMAIN digits = 1..n
    BY TextTypes
  <2>2. \A i \in 1..n : digits[i] \in Digit
    BY <2>1 DEF AllIn
  <2>3. \A c \in Digit : DigitValue[c] \in 0..9
    BY DigitValues
  <2>4. \A v \in 0..9 : v \in Nat
    OBVIOUS
  <2> QED BY <2>1, <2>2, <2>3, <2>4
<1> DEFINE F == [p \in (1..n) \X Nat |-> p[2] * 10 + DigitValue[digits[p[1]]]]
<1>2. F \in [(1..n) \X Nat -> Nat]
  <2>1. ASSUME NEW p \in (1..n) \X Nat PROVE p[2] * 10 + DigitValue[digits[p[1]]] \in Nat
    <3>1. p[2] \in Nat /\ p[1] \in 1..n /\ DigitValue[digits[p[1]]] \in Nat
      BY <1>1
    <3>2. \A x, y \in Nat : x * 10 + y \in Nat
      OBVIOUS
    <3> QED BY <3>1, <3>2
  <2> QED BY <2>1
<1>3. \A i \in 1..n, v \in Nat : F[<<i, v>>] = v * 10 + DigitValue[digits[i]]
  OBVIOUS
<1> HIDE DEF F
<1>4. PICK f \in [0..n -> Nat] : f[0] = 0 /\ \A i \in 1..n : f[i] = F[<<i, f[i - 1]>>]
  <2>1. n \in Nat /\ 0 \in Nat
    BY <1>1
  <2> HIDE DEF n
  <2>2. F \in Steps(n, Nat)
    BY <1>2 DEF Steps
  <2>3. PICK f : Repeats(f, n, Nat, 0, F)
    BY ONLY <2>1, <2>2, PrimitiveRecursion
  <2> QED BY <2>3 DEF Repeats
<1>5. \A i \in 1..n : i - 1 \in 0..n /\ i \in 0..n /\ i # 0
  BY <1>1
<1>6. \A i \in 0..n : i # 0 => i \in 1..n
  BY <1>1
<1> HIDE DEF n
<1>7. \A i \in 1..n : f[i] = f[i - 1] * 10 + DigitValue[digits[i]]
  BY <1>3, <1>4, <1>5
<1>8. f = [i \in 0..n |-> IF i = 0 THEN 0 ELSE f[i - 1] * 10 + DigitValue[digits[i]]]
  <2>1. \A i \in 0..n : f[i] = IF i = 0 THEN 0 ELSE f[i - 1] * 10 + DigitValue[digits[i]]
    BY <1>4, <1>6, <1>7
  <2> QED BY <1>4, <2>1
<1> DEFINE g == Counted(digits)
<1>9. Counts(digits, g)
  <2>1. Counts(digits, f)
    BY <1>8 DEF Counts, n
  <2> QED BY <2>1 DEF Counted
<1>10. g = [i \in 0..n |-> IF i = 0 THEN 0 ELSE g[i - 1] * 10 + DigitValue[digits[i]]]
  BY <1>9 DEF Counts, n
<1>11. Number(digits) = g[n]
  BY DEF Number, Counted, Counts, n
<1> HIDE DEF g
<1>12. 0 \in 0..n /\ n \in 0..n
  BY <1>1 DEF n
<1>13. g[0] = 0 /\ \A i \in 1..n : g[i] = g[i - 1] * 10 + DigitValue[digits[i]]
  <2>1. g[0] = 0
    BY <1>10, <1>12
  <2>2. ASSUME NEW i \in 1..n PROVE g[i] = g[i - 1] * 10 + DigitValue[digits[i]]
    <3>1. i \in 0..n /\ i # 0
      BY <1>5
    <3>2. g[i] = IF i = 0 THEN 0 ELSE g[i - 1] * 10 + DigitValue[digits[i]]
      BY <1>10, <3>1
    <3> QED BY <3>1, <3>2
  <2> QED BY <2>1, <2>2
<1>14. \A i \in 0..n : g[i] = f[i]
  <2> DEFINE T == {i \in Nat : i \in 0..n => g[i] = f[i]}
  <2>1. T \in SUBSET Nat /\ 0 \in T
    BY <1>4, <1>13
  <2>2. ASSUME NEW i \in T PROVE i + 1 \in T
    <3> SUFFICES ASSUME i + 1 \in 0..n PROVE g[i + 1] = f[i + 1]
      BY <2>2
    <3>1. i \in 0..n /\ i + 1 \in 1..n /\ (i + 1) - 1 = i
      BY <1>1 DEF n
    <3>2. g[i + 1] = g[(i + 1) - 1] * 10 + DigitValue[digits[i + 1]]
      BY <1>13, <3>1
    <3>3. f[i + 1] = f[(i + 1) - 1] * 10 + DigitValue[digits[i + 1]]
      BY <1>7, <3>1
    <3>4. g[i] = f[i]
      BY <2>2, <3>1
    <3> QED BY <3>1, <3>2, <3>3, <3>4
  <2> HIDE DEF T
  <2>3. T = Nat
    BY <2>1, <2>2, SetInduction
  <2>4. \A i \in 0..n : i \in T
    BY <1>1, <2>3 DEF n
  <2> QED BY <2>4 DEF T
<1>15. \A i \in 0..n : g[i] \in Nat
  BY <1>4, <1>14
<1> QED BY <1>11, <1>13, <1>15 DEF g, n

\* The number of the first characters, digit by digit.
LEMMA NumberOfPrefix ==
  ASSUME NEW digits \in Texts, AllIn(digits, Digit), NEW k \in 0..Len(digits)
  PROVE  Number(SubSeq(digits, 1, k)) = Counted(digits)[k]
<1> DEFINE n == Len(digits)
           s == SubSeq(digits, 1, k)
           f == Counted(digits)
           g == Counted(s)
<1>1. n \in Nat /\ k \in Nat /\ k <= n
  BY TextTypes
<1>2. s \in Texts /\ Len(s) = k /\ \A i \in 1..k : s[i] = digits[i]
  <2>1. \A i \in 1..k : digits[i] \in Letter
    BY <1>1, TextTypes
  <2>2. 1 \in Int /\ k \in Int
    BY <1>1
  <2>3. /\ s \in Seq(Letter) /\ Len(s) = IF 1 <= k THEN k - 1 + 1 ELSE 0
        /\ \A i \in 1..(k - 1 + 1) : s[i] = digits[1 + i - 1]
    <3> HIDE DEF n
    <3> QED BY <2>1, <2>2, SubSeqProperties
  <2>4. k - 1 + 1 = k /\ (IF 1 <= k THEN k - 1 + 1 ELSE 0) = k /\ \A i \in 1..k : 1 + i - 1 = i
    BY <1>1
  <2> HIDE DEF s
  <2> QED BY <2>3, <2>4 DEF Texts
<1>3. AllIn(s, Digit)
  <2>1. \A i \in 1..k : i \in 1..n
    BY <1>1
  <2>2. DOMAIN s = 1..k /\ DOMAIN digits = 1..n
    BY <1>2, TextTypes
  <2> HIDE DEF s, n
  <2> QED BY <1>2, <2>1, <2>2 DEF AllIn
<1> HIDE DEF s
<1>4. /\ Number(s) = g[k] /\ g[0] = 0
      /\ \A i \in 1..k : g[i] = g[i - 1] * 10 + DigitValue[s[i]]
  BY <1>2, <1>3, CountedProperties
<1>5. f[0] = 0 /\ \A i \in 1..n : f[i] = f[i - 1] * 10 + DigitValue[digits[i]]
  BY CountedProperties
<1> HIDE DEF f, g, n
<1> DEFINE T == {i \in Nat : i <= k => g[i] = f[i]}
<1>6. T \in SUBSET Nat /\ 0 \in T
  BY <1>4, <1>5
<1>7. ASSUME NEW i \in T PROVE i + 1 \in T
  <2> SUFFICES ASSUME i + 1 <= k PROVE g[i + 1] = f[i + 1]
    BY <1>7
  <2>1. i \in Nat /\ i <= k /\ i + 1 \in 1..k /\ i + 1 \in 1..n /\ (i + 1) - 1 = i
    BY <1>1
  <2>2. g[i + 1] = g[(i + 1) - 1] * 10 + DigitValue[s[i + 1]]
    BY <1>4, <2>1
  <2>3. f[i + 1] = f[(i + 1) - 1] * 10 + DigitValue[digits[i + 1]]
    BY <1>5, <2>1
  <2>4. g[i] = f[i] /\ s[i + 1] = digits[i + 1]
    BY <1>2, <1>7, <2>1
  <2> QED BY <2>1, <2>2, <2>3, <2>4
<1> HIDE DEF T
<1>8. T = Nat
  BY <1>6, <1>7, SetInduction
<1>9. g[k] = f[k]
  BY <1>1, <1>8 DEF T
<1> QED BY <1>4, <1>9 DEF s, f

-----------------------------------------------------------------------------
(***************************************************************************)
(* int.                                                                    *)
(***************************************************************************)
\* What decodeInt does with one more digit, and the recursive function in it.
TakeDigit(negative, checked, acc, d) ==
  IF \/ ~acc.ok
     \/ checked /\ (IF negative THEN TooLow(acc.value, d) ELSE TooHigh(acc.value, d))
  THEN Rejected
  ELSE Decoded(acc.value * 10 + (IF negative THEN -d ELSE d))
Accumulates(negative, checked, digits, g) ==
  g = [i \in 0..Len(digits) |->
         IF i = 0 THEN Decoded(0)
         ELSE IF digits[i] \notin Digit THEN Rejected
         ELSE TakeDigit(negative, checked, g[i - 1], DigitValue[digits[i]])]
Accumulated(negative, checked, digits) == CHOOSE g : Accumulates(negative, checked, digits, g)

LEMMA AnswerFields ==
  \A v, w : /\ Decoded(v).ok = TRUE /\ Decoded(v).value = v /\ Rejected.ok = FALSE
            /\ Decoded(v) = Decoded(w) => v = w
BY DEF Decoded, Rejected

LEMMA AccumulatedProperties ==
  ASSUME NEW digits \in Texts, NEW negative \in BOOLEAN, NEW checked \in BOOLEAN
  PROVE  LET n == Len(digits)
             g == Accumulated(negative, checked, digits)
         IN /\ g[0] = Decoded(0)
            /\ \A i \in 1..n : g[i] = IF digits[i] \notin Digit THEN Rejected
                                      ELSE TakeDigit(negative, checked, g[i - 1], DigitValue[digits[i]])
<1> DEFINE n == Len(digits)
           A == {Rejected} \cup {Decoded(v) : v \in Int}
           F == [p \in (1..n) \X A |-> IF digits[p[1]] \notin Digit THEN Rejected
                                       ELSE TakeDigit(negative, checked, p[2], DigitValue[digits[p[1]]])]
<1>1. n \in Nat
  BY TextTypes
<1>2. ASSUME NEW acc \in A, NEW d \in Int PROVE TakeDigit(negative, checked, acc, d) \in A
  <2>1. CASE acc = Rejected
    BY <2>1, AnswerFields DEF TakeDigit
  <2>2. CASE \E v \in Int : acc = Decoded(v)
    <3>1. PICK v \in Int : acc = Decoded(v)
      BY <2>2
    <3>2. acc.value = v
      BY <3>1, AnswerFields
    <3>3. \A x, y \in Int : x * 10 + y \in Int /\ -y \in Int
      OBVIOUS
    <3>4. acc.value * 10 + (IF negative THEN -d ELSE d) \in Int
      BY <3>2, <3>3
    <3>5. Decoded(acc.value * 10 + (IF negative THEN -d ELSE d)) \in A
      BY <3>4
    <3> QED BY <3>5 DEF TakeDigit
  <2> QED BY <2>1, <2>2
<1>3. F \in [(1..n) \X A -> A]
  <2>1. ASSUME NEW p \in (1..n) \X A
        PROVE  (IF digits[p[1]] \notin Digit THEN Rejected
                ELSE TakeDigit(negative, checked, p[2], DigitValue[digits[p[1]]])) \in A
    <3>1. CASE digits[p[1]] \notin Digit
      BY <3>1
    <3>2. CASE digits[p[1]] \in Digit
      <4>1. DigitValue[digits[p[1]]] \in 0..9
        BY <3>2, DigitValues
      <4>2. DigitValue[digits[p[1]]] \in Int /\ p[2] \in A
        BY <4>1
      <4> HIDE DEF A
      <4> QED BY <1>2, <3>2, <4>2
    <3> QED BY <3>1, <3>2
  <2> HIDE DEF A
  <2> QED BY <2>1
<1>4. Decoded(0) \in A
  OBVIOUS
<1>5. \A i \in 1..n, v \in A : F[<<i, v>>] = IF digits[i] \notin Digit THEN Rejected
                                             ELSE TakeDigit(negative, checked, v, DigitValue[digits[i]])
  <2> HIDE DEF A
  <2> QED OBVIOUS
<1> HIDE DEF F, A
<1>6. PICK f \in [0..n -> A] : f[0] = Decoded(0) /\ \A i \in 1..n : f[i] = F[<<i, f[i - 1]>>]
  <2> HIDE DEF n
  <2>1. F \in Steps(n, A)
    BY <1>3 DEF Steps
  <2>2. PICK f : Repeats(f, n, A, Decoded(0), F)
    BY ONLY <1>1, <1>4, <2>1, PrimitiveRecursion
  <2> QED BY <2>2 DEF Repeats
<1>7. /\ \A i \in 1..n : i - 1 \in 0..n /\ i \in 0..n /\ i # 0
      /\ \A i \in 0..n : i # 0 => i \in 1..n
      /\ 0 \in 0..n
  BY <1>1
<1> HIDE DEF n
<1>8. \A i \in 1..n : f[i] = IF digits[i] \notin Digit THEN Rejected
                             ELSE TakeDigit(negative, checked, f[i - 1], DigitValue[digits[i]])
  <2>1. \A i \in 1..n : f[i - 1] \in A
    BY <1>6, <1>7
  <2> QED BY <1>5, <1>6, <2>1
<1>9. Accumulates(negative, checked, digits, f)
  <2>1. \A i \in 0..n : f[i] = IF i = 0 THEN Decoded(0)
                               ELSE IF digits[i] \notin Digit THEN Rejected
                               ELSE TakeDigit(negative, checked, f[i - 1], DigitValue[digits[i]])
    BY <1>6, <1>7, <1>8
  <2>2. f = [i \in 0..n |-> IF i = 0 THEN Decoded(0)
                            ELSE IF digits[i] \notin Digit THEN Rejected
                            ELSE TakeDigit(negative, checked, f[i - 1], DigitValue[digits[i]])]
    BY <1>6, <2>1
  <2> QED BY <2>2 DEF Accumulates, n
<1> DEFINE g == Accumulated(negative, checked, digits)
<1>10. Accumulates(negative, checked, digits, g)
  BY <1>9 DEF Accumulated
<1>11. g = [i \in 0..n |-> IF i = 0 THEN Decoded(0)
                           ELSE IF digits[i] \notin Digit THEN Rejected
                           ELSE TakeDigit(negative, checked, g[i - 1], DigitValue[digits[i]])]
  BY <1>10 DEF Accumulates, n
<1> HIDE DEF g
<1>12. g[0] = Decoded(0)
  BY <1>7, <1>11
<1>13. ASSUME NEW i \in 1..n
       PROVE  g[i] = IF digits[i] \notin Digit THEN Rejected
                     ELSE TakeDigit(negative, checked, g[i - 1], DigitValue[digits[i]])
  <2>1. i \in 0..n /\ i # 0
    BY <1>7
  <2>2. g[i] = IF i = 0 THEN Decoded(0)
               ELSE IF digits[i] \notin Digit THEN Rejected
               ELSE TakeDigit(negative, checked, g[i - 1], DigitValue[digits[i]])
    BY <1>11, <2>1
  <2> QED BY <2>1, <2>2
<1> QED BY <1>12, <1>13 DEF g, n

\* A digit that pushes the number over the limit: the test of the validator's slow path.
TooFar(negative, digits, k) ==
  LET val == Number(SubSeq(digits, 1, k - 1))
  IN \/ val > MaxInt \div 10
     \/ val = MaxInt \div 10
          /\ DigitValue[digits[k]] > (MaxInt % 10) + (IF negative THEN 1 ELSE 0)

\* The decoder's test is the validator's: the signed number and the limit change sign together.
LEMMA SameLimit ==
  ASSUME NEW v \in Nat, NEW d \in Nat, NEW negative \in BOOLEAN
  PROVE  (IF negative THEN TooLow(0 - v, d) ELSE TooHigh(v, d))
         <=> \/ v > MaxInt \div 10
             \/ v = MaxInt \div 10 /\ d > (MaxInt % 10) + (IF negative THEN 1 ELSE 0)
<1>1. MaxInt \in Nat
  BY WidthAssumption
<1>2. PICK q \in Nat, r \in Nat : q = MaxInt \div 10 /\ r = MaxInt % 10
  BY <1>1
<1>3. \A x \in Nat : (0 - x < -q <=> x > q) /\ (0 - x = -q <=> x = q)
  BY <1>2
<1>4. CASE negative
  BY <1>2, <1>3, <1>4 DEF TooLow
<1>5. CASE ~negative
  <2>1. r + 0 = r
    BY <1>2
  <2> QED BY <1>2, <1>5, <2>1 DEF TooHigh
<1> QED BY <1>4, <1>5

LEMMA AccumulatedNumber ==
  ASSUME NEW digits \in Texts, AllIn(digits, Digit), NEW negative \in BOOLEAN, NEW checked \in BOOLEAN
  PROVE  LET fine == ~checked \/ \A k \in 1..Len(digits) : ~TooFar(negative, digits, k)
             answer == Accumulated(negative, checked, digits)[Len(digits)]
         IN /\ Agree(fine, answer)
            /\ fine => answer = Decoded(IF negative THEN 0 - Number(digits) ELSE Number(digits))
<1> DEFINE n == Len(digits)
           g == Accumulated(negative, checked, digits)
           f == Counted(digits)
           Signed(v) == IF negative THEN 0 - v ELSE v
           Fine(i) == ~checked \/ \A k \in 1..i : ~TooFar(negative, digits, k)
           T == {i \in Nat : i <= n => g[i] = IF Fine(i) THEN Decoded(Signed(f[i])) ELSE Rejected}
<1>1. n \in Nat /\ DOMAIN digits = 1..n
  BY TextTypes
<1>2. \A i \in 1..n : digits[i] \in Digit /\ DigitValue[digits[i]] \in Nat
  <2>1. \A i \in 1..n : digits[i] \in Digit
    BY <1>1 DEF AllIn
  <2>2. \A v \in 0..9 : v \in Nat
    OBVIOUS
  <2> QED BY <2>1, <2>2, DigitValues
<1>3. f[0] = 0 /\ (\A i \in 1..n : f[i] = f[i - 1] * 10 + DigitValue[digits[i]]) /\ \A i \in 0..n : f[i] \in Nat
  BY CountedProperties
<1>4. g[0] = Decoded(0)
      /\ \A i \in 1..n : g[i] = IF digits[i] \notin Digit THEN Rejected
                                ELSE TakeDigit(negative, checked, g[i - 1], DigitValue[digits[i]])
  BY AccumulatedProperties
<1>5. \A k \in 0..n : Number(SubSeq(digits, 1, k)) = f[k]
  BY NumberOfPrefix
<1> HIDE DEF n, g, f
<1>6. 0 \in T
  <2>1. Fine(0)
    OBVIOUS
  <2>2. Signed(f[0]) = 0
    BY <1>3
  <2> HIDE DEF Fine, Signed
  <2> QED BY <1>4, <2>1, <2>2
<1>7. ASSUME NEW i \in T PROVE i + 1 \in T
  <2> SUFFICES ASSUME i + 1 <= n
               PROVE  g[i + 1] = IF Fine(i + 1) THEN Decoded(Signed(f[i + 1])) ELSE Rejected
    BY <1>7
  <2> DEFINE d == DigitValue[digits[i + 1]]
  <2>1. i \in Nat /\ i <= n /\ i \in 0..n /\ i + 1 \in 1..n /\ (i + 1) - 1 = i
    BY <1>1
  <2>2. d \in Nat /\ f[i] \in Nat /\ f[i + 1] = f[i] * 10 + d
    BY <1>2, <1>3, <2>1
  <2>3. g[i + 1] = TakeDigit(negative, checked, g[i], d)
    <3>1. digits[i + 1] \in Digit
      BY <1>2, <2>1
    <3> QED BY <1>4, <2>1, <3>1
  <2>4. g[i] = IF Fine(i) THEN Decoded(Signed(f[i])) ELSE Rejected
    BY <1>7, <2>1
  <2>5. TooFar(negative, digits, i + 1)
          <=> \/ f[i] > MaxInt \div 10
              \/ f[i] = MaxInt \div 10 /\ d > (MaxInt % 10) + (IF negative THEN 1 ELSE 0)
    <3>1. Number(SubSeq(digits, 1, (i + 1) - 1)) = f[i]
      BY <1>5, <2>1
    <3> QED BY <3>1 DEF TooFar
  <2>6. Fine(i + 1) <=> Fine(i) /\ ~(checked /\ TooFar(negative, digits, i + 1))
    <3>1. \A k \in 1..(i + 1) : k \in 1..i \/ k = i + 1
      BY <2>1
    <3>2. (\A k \in 1..i : k \in 1..(i + 1)) /\ i + 1 \in 1..(i + 1)
      BY <2>1
    <3> QED BY <3>1, <3>2
  <2> HIDE DEF d
  <2>7. (IF negative THEN TooLow(Signed(f[i]), d) ELSE TooHigh(Signed(f[i]), d))
          <=> TooFar(negative, digits, i + 1)
    BY <2>2, <2>5, SameLimit
  <2>8. Signed(f[i]) * 10 + (IF negative THEN -d ELSE d) = Signed(f[i + 1])
    <3>1. \A x, y \in Nat : (0 - x) * 10 + (-y) = 0 - (x * 10 + y)
      OBVIOUS
    <3>2. (0 - f[i]) * 10 + (-d) = 0 - (f[i] * 10 + d)
      BY <2>2, <3>1
    <3> QED BY <2>2, <3>2
  <2> HIDE DEF Fine, Signed, T
  <2>9. CASE ~Fine(i)
    <3>1. g[i] = Rejected /\ ~g[i].ok
      BY <2>4, <2>9, AnswerFields
    <3> QED BY <2>3, <2>6, <2>9, <3>1 DEF TakeDigit
  <2>10. CASE Fine(i)
    <3>1. g[i].ok = TRUE /\ g[i].value = Signed(f[i])
      BY <2>4, <2>10, AnswerFields
    <3>2. g[i + 1] = IF checked /\ TooFar(negative, digits, i + 1) THEN Rejected ELSE Decoded(Signed(f[i + 1]))
      BY <2>3, <2>7, <2>8, <3>1 DEF TakeDigit
    <3> QED BY <2>6, <2>10, <3>2
  <2> QED BY <2>9, <2>10
<1>8. T \in SUBSET Nat
  OBVIOUS
<1> HIDE DEF T
<1>9. T = Nat
  BY <1>6, <1>7, <1>8, SetInduction
<1>10. g[n] = IF Fine(n) THEN Decoded(Signed(f[n])) ELSE Rejected
  <2>1. n \in T /\ n <= n
    BY <1>1, <1>9
  <2> QED BY <2>1 DEF T
<1>11. Agree(Fine(n), g[n])
  <2> HIDE DEF Fine, Signed
  <2> QED BY <1>10, AnswerFields DEF Agree
<1>12. Fine(n) => g[n] = Decoded(Signed(Number(digits)))
  <2>1. Number(digits) = f[n]
    BY CountedProperties DEF f, n
  <2> HIDE DEF Fine, Signed
  <2> QED BY <1>10, <2>1
<1> QED BY <1>11, <1>12 DEF g, n

\* Once the decoder has met what is no digit, it has no value any more.
LEMMA AccumulatedNothing ==
  ASSUME NEW digits \in Texts, ~AllIn(digits, Digit), NEW negative \in BOOLEAN, NEW checked \in BOOLEAN
  PROVE  Accumulated(negative, checked, digits)[Len(digits)].ok = FALSE
<1> DEFINE n == Len(digits)
           g == Accumulated(negative, checked, digits)
<1>1. n \in Nat /\ DOMAIN digits = 1..n
  BY TextTypes
<1>2. PICK j \in 1..n : digits[j] \notin Digit
  BY <1>1 DEF AllIn
<1>3. \A i \in 1..n : g[i] = IF digits[i] \notin Digit THEN Rejected
                             ELSE TakeDigit(negative, checked, g[i - 1], DigitValue[digits[i]])
  BY AccumulatedProperties
<1> HIDE DEF g, n
<1> DEFINE T == {i \in Nat : j + i <= n => g[j + i] = Rejected}
<1>4. T \in SUBSET Nat /\ 0 \in T
  <2>1. j + 0 = j
    BY <1>2
  <2> QED BY <1>2, <1>3, <2>1
<1>5. ASSUME NEW i \in T PROVE i + 1 \in T
  <2> SUFFICES ASSUME j + (i + 1) <= n PROVE g[j + (i + 1)] = Rejected
    BY <1>5
  <2>1. j + (i + 1) \in 1..n /\ (j + (i + 1)) - 1 = j + i /\ j + i <= n
    BY <1>1, <1>2
  <2>2. g[j + i] = Rejected /\ ~g[j + i].ok
    BY <1>5, <2>1, AnswerFields
  <2>3. TakeDigit(negative, checked, g[j + i], DigitValue[digits[j + (i + 1)]]) = Rejected
    BY <2>2 DEF TakeDigit
  <2> QED BY <1>3, <2>1, <2>3
<1> HIDE DEF T
<1>6. T = Nat
  BY <1>4, <1>5, SetInduction
<1>7. n - j \in T /\ j + (n - j) = n
  BY <1>1, <1>2, <1>6
<1>8. g[n] = Rejected
  BY <1>1, <1>7 DEF T
<1> QED BY <1>8, AnswerFields DEF g, n

LEMMA UnsignedProperties ==
  ASSUME NEW t \in Texts
  PROVE  /\ Unsigned(t) \in Texts
         /\ AllIn(Unsigned(t), Digit) => Plain(t)
<1>1. Len(t) \in Nat /\ DOMAIN t = 1..Len(t)
  BY TextTypes
<1>2. CASE At(t, 1) # "-"
  <2>1. Unsigned(t) = t
    BY <1>2 DEF Unsigned
  <2> QED BY <2>1, PlainClasses DEF AllIn, Plain
<1>3. CASE At(t, 1) = "-"
  <2>1. Unsigned(t) = Tail(t) /\ 1 \in 1..Len(t) /\ t[1] = "-"
    BY <1>3, AtProperties DEF Unsigned, NoChar
  <2>2. t # <<>>
    BY <2>1
  <2>3. /\ Tail(t) \in Seq(Letter) /\ Len(Tail(t)) = Len(t) - 1
        /\ \A i \in 1..Len(Tail(t)) : Tail(t)[i] = t[i + 1]
    BY <2>2, HeadTailProperties DEF Texts
  <2>4. ASSUME AllIn(Tail(t), Digit), NEW k \in 1..Len(t) PROVE t[k] \in Digit \cup {"-"}
    <3>1. CASE k = 1
      BY <2>1, <3>1
    <3>2. CASE k # 1
      <4>1. k - 1 \in 1..(Len(t) - 1) /\ (k - 1) + 1 = k
        BY <1>1, <3>2
      <4>2. DOMAIN Tail(t) = 1..(Len(t) - 1)
        BY <2>3
      <4> QED BY <2>3, <2>4, <4>1, <4>2 DEF AllIn
    <3> QED BY <3>1, <3>2
  <2>5. AllIn(Tail(t), Digit) => Plain(t)
    BY <1>1, <2>4, PlainClasses DEF Plain, IsWhitespace, Quote
  <2> QED BY <2>1, <2>3, <2>5 DEF Texts
<1> QED BY <1>2, <1>3

\* validate/dfa and decode agree on int, at both ends of its range.
LEMMA IntsAgree ==
  ASSUME NEW t \in Texts
  PROVE  /\ Agree(ValidateInt(t), decodeInt(t))
         /\ ValidateInt(t) => Plain(t)
         /\ ValidateInt(t) => LET size == Number(Unsigned(t))
                              IN decodeInt(t) = Decoded(IF At(t, 1) = "-" THEN 0 - size ELSE size)
<1> DEFINE negative == At(t, 1) = "-"
           digits == Unsigned(t)
           checked == Len(digits) >= MaxIntDigits
           Starts == /\ Len(t) \in 1..(MaxIntDigits + 1)
                     /\ digits # <<>>
                     /\ ~(negative /\ digits = <<"0">>)
                     /\ ~(digits[1] = "0" /\ Len(digits) > 1)
           g == Accumulated(negative, checked, digits)
<1>1. digits \in Texts /\ Len(digits) \in Nat /\ MaxIntDigits \in Nat /\ negative \in BOOLEAN /\ checked \in BOOLEAN
  BY UnsignedProperties, TextTypes, WidthAssumption
<1>2. ValidateInt(t) <=> /\ Starts /\ AllIn(digits, Digit)
                         /\ ~checked \/ \A k \in 1..Len(digits) : ~TooFar(negative, digits, k)
  <2>1. Len(digits) < MaxIntDigits <=> ~checked
    <3>1. \A a, b \in Nat : a < b <=> ~(a >= b)
      OBVIOUS
    <3> QED BY <1>1, <3>1
  <2>2. PastLimit(negative, digits) <=> \E k \in 1..Len(digits) : TooFar(negative, digits, k)
    <3>1. DOMAIN digits = 1..Len(digits)
      BY <1>1, TextTypes
    <3> QED BY <3>1 DEF PastLimit, TooFar
  <2> QED BY <2>1, <2>2 DEF ValidateInt
<1>3. decodeInt(t) = IF Starts THEN g[Len(digits)] ELSE Rejected
  <2>1. digits # <<>> => Head(digits) = digits[1]
    BY <1>1 DEF Texts
  <2>2. decodeInt(t) = IF \/ Len(t) \notin 1..(MaxIntDigits + 1)
                          \/ digits = <<>>
                          \/ negative /\ digits = <<"0">>
                          \/ Head(digits) = "0" /\ Len(digits) > 1
                       THEN Rejected ELSE g[Len(digits)]
    BY DEF decodeInt, Accumulated, Accumulates, TakeDigit
  <2> HIDE DEF digits, negative, g
  <2> QED BY <2>1, <2>2
<1>4. AllIn(digits, Digit) =>
        LET fine == ~checked \/ \A k \in 1..Len(digits) : ~TooFar(negative, digits, k)
        IN /\ Agree(fine, g[Len(digits)])
           /\ fine => g[Len(digits)] = Decoded(IF negative THEN 0 - Number(digits) ELSE Number(digits))
  <2> HIDE DEF digits, negative, checked
  <2> QED BY <1>1, AccumulatedNumber
<1>5. ~AllIn(digits, Digit) => g[Len(digits)].ok = FALSE
  <2> HIDE DEF digits, negative, checked
  <2> QED BY <1>1, AccumulatedNothing
<1>6. AllIn(digits, Digit) => Plain(t)
  BY UnsignedProperties
<1> HIDE DEF Starts, g, digits, negative, checked
<1>7. Agree(ValidateInt(t), decodeInt(t))
  <2>1. CASE ~Starts
    BY <1>2, <1>3, <2>1, AnswerFields DEF Agree
  <2>2. CASE Starts /\ ~AllIn(digits, Digit)
    BY <1>2, <1>3, <1>5, <2>2 DEF Agree
  <2>3. CASE Starts /\ AllIn(digits, Digit)
    BY <1>2, <1>3, <1>4, <2>3 DEF Agree
  <2> QED BY <2>1, <2>2, <2>3
<1>8. ValidateInt(t) => decodeInt(t) = Decoded(IF negative THEN 0 - Number(digits) ELSE Number(digits))
  BY <1>2, <1>3, <1>4
<1> QED BY <1>2, <1>6, <1>7, <1>8 DEF digits, negative

-----------------------------------------------------------------------------
(***************************************************************************)
(* duration.                                                               *)
(***************************************************************************)
\* One turn of the automaton's loop over the parts of a time, and the loop.
PartTaken(t, g, i) ==
  LET j == AfterDigits(t, i)
      k == AfterDigits(t, j + 1)
  IN /\ j > i
     /\ \/ At(t, j) \in {"H", "M"} /\ (j = Len(t) \/ g[j + 1])
        \/ At(t, j) = "S" /\ j = Len(t)
        \/ /\ At(t, j) = "." /\ k - (j + 1) \in 1..NanoDigits
           /\ At(t, k) = "S" /\ k = Len(t)
TakesParts(t, g) == g = [i \in 1..(Len(t) + 1) |-> PartTaken(t, g, i)]
PartsTaken(t) == CHOOSE g : TakesParts(t, g)

\* One turn of the decoder's loop, and the loop.
PartRead(t, g, i) ==
  LET j == AfterDigits(t, i)
      k == AfterDigits(t, j + 1)
      val == Wrapped(Number(SubSeq(t, i, j - 1)))
      Then(e) == IF j = Len(t) THEN Decoded(e) ELSE g[j + 1][e]
  IN [d \in Durations |->
        IF j = i \/ j > Len(t) THEN Rejected
        ELSE IF t[j] = "H" THEN Then([d EXCEPT !.hours = val])
        ELSE IF t[j] = "M" THEN Then([d EXCEPT !.minutes = val])
        ELSE IF t[j] = "S" /\ j = Len(t) THEN Decoded([d EXCEPT !.seconds = val])
        ELSE IF t[j] = "." /\ k > j + 1 /\ k = Len(t) /\ t[k] = "S"
        THEN Decoded([d EXCEPT !.seconds = val, !.nanos = Nanos(SubSeq(t, j + 1, k - 1))])
        ELSE Rejected]
ReadsParts(t, g) == g = [i \in 1..(Len(t) + 1) |-> PartRead(t, g, i)]
PartsRead(t) == CHOOSE g : ReadsParts(t, g)

\* A turn looks only at what comes behind it.
LEMMA PartsLookAhead ==
  ASSUME NEW t \in Texts, NEW i \in 1..(Len(t) + 1), NEW g, NEW h,
         \A m \in (i + 1)..(Len(t) + 1) : g[m] = h[m]
  PROVE  /\ PartTaken(t, g, i) = PartTaken(t, h, i)
         /\ PartRead(t, g, i) = PartRead(t, h, i)
<1> DEFINE j == AfterDigits(t, i)
<1>1. Len(t) \in Nat
  BY TextTypes
<1>2. j \in i..(Len(t) + 1)
  BY AfterDigitsProperties
<1> HIDE DEF j
<1>3. j \in 1..Len(t) \/ j = Len(t) + 1
  BY <1>1, <1>2
<1>4. CASE j \in 1..Len(t)
  <2>1. j + 1 \in (i + 1)..(Len(t) + 1)
    BY <1>1, <1>2, <1>4
  <2>2. g[j + 1] = h[j + 1]
    BY <2>1
  <2> QED BY <2>2 DEF PartTaken, PartRead, j
<1>5. CASE j = Len(t) + 1
  <2>1. j \notin 1..Len(t) /\ j \in Int /\ j > Len(t)
    BY <1>1, <1>5
  <2>2. At(t, j) = NoChar
    BY <2>1, AtProperties
  <2>3. At(t, j) \notin {"H", "M"}
    BY <2>2 DEF NoChar
  <2>4. PartTaken(t, g, i) = PartTaken(t, h, i)
    BY <2>3 DEF PartTaken, j
  <2>5. PartRead(t, g, i) = PartRead(t, h, i)
    BY <2>1 DEF PartRead, j
  <2> QED BY <2>4, <2>5
<1> QED BY <1>3, <1>4, <1>5

\* So there is such a loop: it is built from the end of the text.
LEMMA PartsExist ==
  ASSUME NEW t \in Texts
  PROVE  (\E g : TakesParts(t, g)) /\ (\E g : ReadsParts(t, g))
<1> DEFINE n == Len(t) + 1
           Taken(g, m) == g = [i \in 1..n |-> g[i]] /\ \A i \in 1..n : i > n - m => g[i] = PartTaken(t, g, i)
           Read(g, m) == g = [i \in 1..n |-> g[i]] /\ \A i \in 1..n : i > n - m => g[i] = PartRead(t, g, i)
           T == {m \in Nat : m <= n => (\E g : Taken(g, m)) /\ (\E g : Read(g, m))}
<1>1. n \in Nat /\ n >= 1
  BY TextTypes
<1>2. T \in SUBSET Nat
  OBVIOUS
<1>3. 0 \in T
  <2> DEFINE g == [i \in 1..n |-> 0]
  <2>1. \A i \in 1..n : ~(i > n - 0)
    BY <1>1
  <2>2. g = [i \in 1..n |-> g[i]]
    OBVIOUS
  <2> HIDE DEF g
  <2>3. Taken(g, 0) /\ Read(g, 0)
    BY <2>1, <2>2
  <2> HIDE DEF Taken, Read
  <2> QED BY <2>3
<1>4. ASSUME NEW m \in T PROVE m + 1 \in T
  <2> SUFFICES ASSUME m + 1 <= n PROVE (\E g : Taken(g, m + 1)) /\ (\E g : Read(g, m + 1))
    BY <1>4
  <2> DEFINE a == n - m
  <2>1. m \in Nat /\ m <= n /\ a \in 1..n
    BY <1>1, <1>4
  <2>2. \A i \in 1..n : (i > n - (m + 1) <=> i > a \/ i = a) /\ (i > a => i # a)
    BY <1>1, <2>1
  <2>3. \A i \in 1..n : i >= a => \A k \in (i + 1)..n : k > a /\ k # a /\ k \in 1..n
    BY <1>1, <2>1
  <2>4. \A i \in 1..n : (i > a => i >= a) /\ a >= a
    BY <1>1, <2>1
  <2>5. PICK g : Taken(g, m)
    BY <1>4, <2>1
  <2>6. PICK r : Read(r, m)
    BY <1>4, <2>1
  <2> DEFINE g2 == [i \in 1..n |-> IF i = a THEN PartTaken(t, g, a) ELSE g[i]]
             r2 == [i \in 1..n |-> IF i = a THEN PartRead(t, r, a) ELSE r[i]]
  <2>7. g2[a] = PartTaken(t, g, a) /\ r2[a] = PartRead(t, r, a)
        /\ (\A i \in 1..n : i # a => g2[i] = g[i]) /\ (\A i \in 1..n : i # a => r2[i] = r[i])
    BY <2>1
  <2>8. g2 = [i \in 1..n |-> g2[i]] /\ r2 = [i \in 1..n |-> r2[i]]
    OBVIOUS
  <2>9. \A i \in 1..n : i > a => g[i] = PartTaken(t, g, i)
    BY <2>5
  <2>10. \A i \in 1..n : i > a => r[i] = PartRead(t, r, i)
    BY <2>6
  <2> HIDE DEF g2, r2, a
  <2>11. ASSUME NEW i \in 1..n, i >= a PROVE PartTaken(t, g2, i) = PartTaken(t, g, i) /\ PartRead(t, r2, i) = PartRead(t, r, i)
    <3>1. (\A k \in (i + 1)..n : g2[k] = g[k]) /\ (\A k \in (i + 1)..n : r2[k] = r[k])
      BY <2>3, <2>7, <2>11
    <3> QED BY <3>1, PartsLookAhead
  <2> HIDE DEF n
  <2>12. \A i \in 1..n : i > n - (m + 1) => g2[i] = PartTaken(t, g2, i)
    BY <2>1, <2>2, <2>4, <2>7, <2>9, <2>11
  <2>13. \A i \in 1..n : i > n - (m + 1) => r2[i] = PartRead(t, r2, i)
    BY <2>1, <2>2, <2>4, <2>7, <2>10, <2>11
  <2>14. Taken(g2, m + 1) /\ Read(r2, m + 1)
    BY <2>8, <2>12, <2>13
  <2> HIDE DEF Taken, Read
  <2> QED BY <2>14
<1> HIDE DEF T
<1>5. T = Nat
  BY <1>2, <1>3, <1>4, SetInduction
<1>6. n \in T /\ n <= n
  BY <1>1, <1>5
<1>7. (\E g : Taken(g, n)) /\ (\E g : Read(g, n))
  <2> HIDE DEF Taken, Read
  <2> QED BY <1>6 DEF T
<1>8. \A i \in 1..n : i > n - n
  BY <1>1
<1>9. \E g : TakesParts(t, g)
  <2>1. PICK g : Taken(g, n)
    BY <1>7
  <2>2. \A i \in 1..n : g[i] = PartTaken(t, g, i)
    BY <1>8, <2>1
  <2>3. g = [i \in 1..n |-> PartTaken(t, g, i)]
    BY <2>1, <2>2
  <2> QED BY <2>3 DEF TakesParts
<1>10. \E g : ReadsParts(t, g)
  <2>1. PICK g : Read(g, n)
    BY <1>7
  <2>2. \A i \in 1..n : g[i] = PartRead(t, g, i)
    BY <1>8, <2>1
  <2>3. g = [i \in 1..n |-> PartRead(t, g, i)]
    BY <2>1, <2>2
  <2> QED BY <2>3 DEF ReadsParts
<1> QED BY <1>9, <1>10

LEMMA PartsUnfold ==
  ASSUME NEW t \in Texts
  PROVE  /\ \A i \in 1..(Len(t) + 1) : PartsTaken(t)[i] = PartTaken(t, PartsTaken(t), i)
         /\ \A i \in 1..(Len(t) + 1) : PartsRead(t)[i] = PartRead(t, PartsRead(t), i)
<1> DEFINE g == PartsTaken(t)
           r == PartsRead(t)
<1>1. TakesParts(t, g) /\ ReadsParts(t, r)
  BY PartsExist DEF PartsTaken, PartsRead
<1> HIDE DEF g, r
<1>2. g = [i \in 1..(Len(t) + 1) |-> PartTaken(t, g, i)]
  BY <1>1 DEF TakesParts
<1>3. r = [i \in 1..(Len(t) + 1) |-> PartRead(t, r, i)]
  BY <1>1 DEF ReadsParts
<1>4. \A i \in 1..(Len(t) + 1) : g[i] = PartTaken(t, g, i)
  BY <1>2
<1>5. \A i \in 1..(Len(t) + 1) : r[i] = PartRead(t, r, i)
  BY <1>3
<1> QED BY <1>4, <1>5 DEF g, r

\* The two functions are the loops.
LEMMA DurationLoops ==
  ASSUME NEW t \in Texts
  PROVE  LET days == AfterDigits(t, 2)
             hasDays == days > 2 /\ At(t, days) = "D"
             start == [NoDuration EXCEPT !.days = IF hasDays THEN Wrapped(Number(SubSeq(t, 2, days - 1))) ELSE 0]
             i == IF hasDays THEN days + 1 ELSE days
         IN /\ ValidateDuration(t) <=> /\ Len(t) >= 2 /\ t[1] = "P"
                                       /\ \/ hasDays /\ i > Len(t)
                                          \/ At(t, i) = "T" /\ i < Len(t) /\ PartsTaken(t)[i + 1]
            /\ decodeDuration(t) = IF Len(t) < 2 \/ t[1] # "P" THEN Rejected
                                   ELSE IF hasDays /\ i > Len(t) THEN Decoded(start)
                                   ELSE IF At(t, i) = "T" /\ i < Len(t) THEN PartsRead(t)[i + 1][start]
                                   ELSE Rejected
<1>1. LET days == AfterDigits(t, 2)
          hasDays == days > 2 /\ At(t, days) = "D"
          i == IF hasDays THEN days + 1 ELSE days
      IN ValidateDuration(t) <=> /\ Len(t) >= 2 /\ t[1] = "P"
                                       /\ \/ hasDays /\ i > Len(t)
                                          \/ At(t, i) = "T" /\ i < Len(t) /\ PartsTaken(t)[i + 1]
  BY DEF ValidateDuration, PartsTaken, TakesParts, PartTaken
<1>2. LET days == AfterDigits(t, 2)
          hasDays == days > 2 /\ At(t, days) = "D"
          start == [NoDuration EXCEPT !.days = IF hasDays THEN Wrapped(Number(SubSeq(t, 2, days - 1))) ELSE 0]
          i == IF hasDays THEN days + 1 ELSE days
      IN decodeDuration(t) = IF Len(t) < 2 \/ t[1] # "P" THEN Rejected
                                   ELSE IF hasDays /\ i > Len(t) THEN Decoded(start)
                                   ELSE IF At(t, i) = "T" /\ i < Len(t) THEN PartsRead(t)[i + 1][start]
                                   ELSE Rejected
  BY DEF decodeDuration, PartsRead, ReadsParts, PartRead
<1> QED BY <1>1, <1>2

\* The first point behind i, if there is one, has no more digits behind it than are kept.
FirstPoint(t, i, p) == t[p] = "." /\ \A q \in i..(p - 1) : t[q] # "."
Short(t, i) == \A p \in i..Len(t) : FirstPoint(t, i, p) => AfterDigits(t, p + 1) - (p + 1) <= NanoDigits
PartChars == Digit \cup {"H", "M", "S", "."}

LEMMA ShortSteps ==
  ASSUME NEW t \in Texts, NEW i \in 1..(Len(t) + 1)
  PROVE  LET j == AfterDigits(t, i)
         IN /\ j = Len(t) + 1 => Short(t, i)
            /\ j # Len(t) + 1 /\ t[j] # "." => (Short(t, i) <=> Short(t, j + 1))
            /\ j # Len(t) + 1 /\ t[j] = "." => (Short(t, i) <=> AfterDigits(t, j + 1) - (j + 1) <= NanoDigits)
<1> DEFINE j == AfterDigits(t, i)
           Few(p) == AfterDigits(t, p + 1) - (p + 1) <= NanoDigits
<1>1. Len(t) \in Nat
  BY TextTypes
<1>2. j \in i..(Len(t) + 1) /\ \A q \in i..(j - 1) : t[q] \in Digit
  BY AfterDigitsProperties
<1>3. \A c \in Digit : c # "."
  BY DigitSet
<1>4. \A q \in i..(j - 1) : t[q] # "."
  BY <1>2, <1>3
<1> HIDE DEF j, Few
<1>5. \A p \in i..Len(t) : p \in i..(j - 1) \/ p = j \/ (p \in (j + 1)..Len(t) /\ j \in i..(p - 1))
  BY <1>1, <1>2
<1>6. \A p \in (j + 1)..Len(t) : /\ p \in i..Len(t)
                                 /\ \A q \in i..(p - 1) : q \in i..(j - 1) \/ q = j \/ q \in (j + 1)..(p - 1)
                                 /\ \A q \in (j + 1)..(p - 1) : q \in i..(p - 1)
  BY <1>1, <1>2
<1>7. j = Len(t) + 1 => ~(j \in i..Len(t)) /\ (j + 1)..Len(t) = {}
  BY <1>1, <1>2
<1>8. Short(t, i) <=> \A p \in i..Len(t) : FirstPoint(t, i, p) => Few(p)
  BY DEF Short, Few
<1>9. \A p \in i..Len(t) : FirstPoint(t, i, p) => p \notin i..(j - 1)
  BY <1>4 DEF FirstPoint
<1>10. j = Len(t) + 1 => Short(t, i)
  BY <1>5, <1>7, <1>8, <1>9
<1>11. ASSUME j # Len(t) + 1, t[j] # "." PROVE Short(t, i) <=> Short(t, j + 1)
  <2>1. Short(t, j + 1) <=> \A p \in (j + 1)..Len(t) : FirstPoint(t, j + 1, p) => Few(p)
    BY DEF Short, Few
  <2>2. \A p \in (j + 1)..Len(t) : FirstPoint(t, i, p) <=> FirstPoint(t, j + 1, p)
    BY <1>4, <1>6, <1>11 DEF FirstPoint
  <2>3. \A p \in i..Len(t) : FirstPoint(t, i, p) => p # j
    BY <1>11 DEF FirstPoint
  <2>4. \A p \in i..Len(t) : FirstPoint(t, i, p) => p \in (j + 1)..Len(t)
    BY <1>5, <1>9, <2>3
  <2> QED BY <1>6, <1>8, <2>1, <2>2, <2>4
<1>12. ASSUME j # Len(t) + 1, t[j] = "." PROVE Short(t, i) <=> Few(j)
  <2>1. j \in i..Len(t)
    BY <1>1, <1>2, <1>12
  <2>2. FirstPoint(t, i, j)
    BY <1>4, <1>12 DEF FirstPoint
  <2>3. \A p \in i..Len(t) : FirstPoint(t, i, p) => p = j
    BY <1>5, <1>9, <1>12 DEF FirstPoint
  <2> QED BY <1>8, <2>1, <2>2, <2>3
<1> QED BY <1>10, <1>11, <1>12 DEF j, Few

LEMMA NumbersAreInts ==
  /\ \A s \in Texts : AllIn(s, Digit) => Number(s) \in Nat
  /\ \A n \in Int : Wrapped(n) \in Int
<1>1. \A s \in Texts : AllIn(s, Digit) => Number(s) \in Nat
  BY CountedProperties
<1>2. \A n \in Int : Wrapped(n) \in Int
  <2>1. MaxInt \in Nat
    BY WidthAssumption
  <2> QED BY <2>1 DEF Wrapped
<1> QED BY <1>1, <1>2

LEMMA DigitsNumber ==
  ASSUME NEW t \in Texts, NEW i \in 1..(Len(t) + 1)
  PROVE  Wrapped(Number(SubSeq(t, i, AfterDigits(t, i) - 1))) \in Int
<1> DEFINE j == AfterDigits(t, i)
<1>1. Len(t) \in Nat
  BY TextTypes
<1>2. j \in i..(Len(t) + 1) /\ \A q \in i..(j - 1) : t[q] \in Digit
  BY AfterDigitsProperties
<1> HIDE DEF j
<1>3. i \in Nat \ {0} /\ j - 1 \in Int /\ j - 1 <= Len(t)
  BY <1>1, <1>2
<1>4. SubSeq(t, i, j - 1) \in Texts
  BY <1>1, <1>2, <1>3, SubSeqProperties DEF Texts
<1>5. AllIn(SubSeq(t, i, j - 1), Digit)
  BY <1>2, <1>3, AllInPart
<1> QED BY <1>4, <1>5, NumbersAreInts DEF j

\* What one part of a time is to both loops, if they agree on what follows it.
PartsAgree(t, i) ==
  /\ PartsTaken(t)[i] => /\ Short(t, i)
                         /\ \A p \in i..Len(t) : t[p] \in PartChars
                         /\ \A d \in Durations : PartsRead(t)[i][d].ok = TRUE
  /\ ~PartsTaken(t)[i] /\ Short(t, i) => \A d \in Durations : PartsRead(t)[i][d].ok = FALSE
  /\ \A d \in Durations : PartsRead(t)[i][d].ok \in BOOLEAN

LEMMA PartAgrees ==
  ASSUME NEW t \in Texts, NEW i \in 1..(Len(t) + 1),
         \A m \in (i + 1)..(Len(t) + 1) : PartsAgree(t, m)
  PROVE  PartsAgree(t, i)
<1> DEFINE j == AfterDigits(t, i)
           k == AfterDigits(t, j + 1)
           val == Wrapped(Number(SubSeq(t, i, j - 1)))
           g == PartsTaken(t)
           r == PartsRead(t)
           n == Len(t)
           Then(e) == IF j = n THEN Decoded(e) ELSE r[j + 1][e]
<1>1. n \in Nat
  BY TextTypes
<1>2. j \in i..(n + 1) /\ \A q \in i..(j - 1) : t[q] \in Digit
  BY AfterDigitsProperties
<1>3. val \in Int
  BY DigitsNumber
<1>4. g[i] <=> /\ j > i
               /\ \/ At(t, j) \in {"H", "M"} /\ (j = n \/ g[j + 1])
                  \/ At(t, j) = "S" /\ j = n
                  \/ /\ At(t, j) = "." /\ k - (j + 1) \in 1..NanoDigits
                     /\ At(t, k) = "S" /\ k = n
  BY PartsUnfold DEF PartTaken
<1>5. ASSUME NEW d \in Durations
      PROVE  r[i][d] = IF j = i \/ j > n THEN Rejected
                       ELSE IF t[j] = "H" THEN Then([d EXCEPT !.hours = val])
                       ELSE IF t[j] = "M" THEN Then([d EXCEPT !.minutes = val])
                       ELSE IF t[j] = "S" /\ j = n THEN Decoded([d EXCEPT !.seconds = val])
                       ELSE IF t[j] = "." /\ k > j + 1 /\ k = n /\ t[k] = "S"
                       THEN Decoded([d EXCEPT !.seconds = val, !.nanos = Nanos(SubSeq(t, j + 1, k - 1))])
                       ELSE Rejected
  <2>1. r[i] = PartRead(t, r, i)
    BY PartsUnfold
  <2> QED BY <2>1 DEF PartRead
<1>6. \A d \in Durations : [d EXCEPT !.hours = val] \in Durations /\ [d EXCEPT !.minutes = val] \in Durations
  BY <1>3 DEF Durations
<1>7. /\ j = n + 1 => Short(t, i)
      /\ j # n + 1 /\ t[j] # "." => (Short(t, i) <=> Short(t, j + 1))
      /\ j # n + 1 /\ t[j] = "." => (Short(t, i) <=> k - (j + 1) <= NanoDigits)
  BY ShortSteps
<1>8. j \in 1..n => At(t, j) = t[j] /\ k \in (j + 1)..(n + 1) /\ \A q \in (j + 1)..(k - 1) : t[q] \in Digit
  <2>1. j \in 1..n => j + 1 \in 1..(n + 1) /\ j \in Int
    BY <1>1
  <2> QED BY <2>1, AtProperties, AfterDigitsProperties
<1>9. j \in 1..n /\ k = n => At(t, k) = t[k]
  <2>1. j \in 1..n => n \in Int /\ n \in 1..n
    BY <1>1
  <2> QED BY <2>1, AtProperties
<1>10. j = i \/ j = n + 1 \/ (j \in 1..n /\ j # i /\ j > i /\ ~(j > n))
  BY <1>1, <1>2
<1> HIDE DEF j, k, val, g, r, n
<1> DEFINE Claim == /\ g[i] => /\ Short(t, i)
                               /\ \A p \in i..n : t[p] \in PartChars
                               /\ \A d \in Durations : r[i][d].ok = TRUE
                    /\ ~g[i] /\ Short(t, i) => \A d \in Durations : r[i][d].ok = FALSE
                    /\ \A d \in Durations : r[i][d].ok \in BOOLEAN
<1>11. ASSUME ~g[i], \A d \in Durations : r[i][d] = Rejected PROVE Claim
  BY <1>11, AnswerFields
<1>12. ASSUME g[i], Short(t, i), \A p \in i..n : t[p] \in PartChars,
              \A d \in Durations : r[i][d].ok = TRUE
       PROVE  Claim
  BY <1>12
<1>13. ASSUME j \in 1..n, t[j] \in PartChars, NEW p \in i..n, p \notin (j + 1)..n PROVE t[p] \in PartChars
  <2>1. p \in i..(j - 1) \/ p = j
    BY <1>1, <1>2, <1>13
  <2> QED BY <1>2, <1>13, <2>1 DEF PartChars
<1>14. CASE j = i
  <2>1. ~g[i]
    BY <1>1, <1>2, <1>4, <1>14
  <2>2. \A d \in Durations : r[i][d] = Rejected
    BY <1>5, <1>14
  <2> QED BY <1>11, <2>1, <2>2 DEF PartsAgree, g, r, n
<1>15. CASE j = n + 1
  <2>1. j > n /\ j \notin 1..n /\ j \in Int /\ j # n
    BY <1>1, <1>15
  <2>2. At(t, j) = NoChar
    BY <2>1, AtProperties DEF n
  <2>3. ~g[i]
    BY <1>4, <2>2 DEF NoChar
  <2>4. \A d \in Durations : r[i][d] = Rejected
    BY <1>5, <2>1
  <2> QED BY <1>11, <2>3, <2>4 DEF PartsAgree, g, r, n
<1>16. CASE j \in 1..n /\ j # i /\ j > i /\ ~(j > n)
  <2>1. At(t, j) = t[j] /\ j # n + 1
    BY <1>1, <1>8, <1>16
  <2>2. j # n => j + 1 \in (i + 1)..(n + 1)
    BY <1>1, <1>2, <1>16
  <2>3. j = n => (j + 1)..n = {}
    BY <1>1, <1>16
  <2>4. j = n => Short(t, j + 1)
    BY <2>3 DEF Short, n
  <2>5. CASE t[j] \in {"H", "M"}
    <3>1. g[i] <=> j = n \/ g[j + 1]
      BY <1>4, <1>16, <2>1, <2>5
    <3>2. Short(t, i) <=> Short(t, j + 1)
      BY <1>7, <2>1, <2>5
    <3>3. ASSUME NEW d \in Durations PROVE \E e \in Durations : r[i][d] = Then(e)
      BY <1>5, <1>6, <1>16, <2>5
    <3>4. CASE j = n
      <4>1. g[i] /\ Short(t, i)
        BY <2>4, <3>1, <3>2, <3>4
      <4>2. \A d \in Durations : r[i][d].ok = TRUE
        BY <3>3, <3>4, AnswerFields
      <4>3. \A p \in i..n : t[p] \in PartChars
        BY <1>13, <1>16, <2>3, <2>5, <3>4 DEF PartChars
      <4> QED BY <1>12, <4>1, <4>2, <4>3 DEF PartsAgree, g, r, n
    <3>5. CASE j # n
      <4>1. PartsAgree(t, j + 1)
        BY <2>2, <3>5 DEF n
      <4>2. /\ g[j + 1] => /\ Short(t, j + 1)
                           /\ \A p \in (j + 1)..n : t[p] \in PartChars
                           /\ \A d \in Durations : r[j + 1][d].ok = TRUE
            /\ ~g[j + 1] /\ Short(t, j + 1) => \A d \in Durations : r[j + 1][d].ok = FALSE
            /\ \A d \in Durations : r[j + 1][d].ok \in BOOLEAN
        BY <4>1 DEF PartsAgree, g, r, n
      <4>3. ASSUME NEW d \in Durations PROVE \E e \in Durations : r[i][d] = r[j + 1][e]
        BY <3>3, <3>5
      <4>4. g[i] => \A p \in i..n : t[p] \in PartChars
        BY <1>13, <1>16, <2>5, <3>1, <3>5, <4>2 DEF PartChars
      <4>5. g[i] <=> g[j + 1]
        BY <3>1, <3>5
      <4>6. Claim
        BY <3>2, <4>2, <4>3, <4>4, <4>5
      <4> QED BY <4>6 DEF PartsAgree, g, r, n
    <3> QED BY <3>4, <3>5
  <2>6. CASE t[j] = "S"
    <3>1. g[i] <=> j = n
      BY <1>4, <1>16, <2>1, <2>6
    <3>2. \A d \in Durations : IF j = n THEN r[i][d].ok = TRUE ELSE r[i][d] = Rejected
      BY <1>5, <1>16, <2>6, AnswerFields
    <3>3. CASE j # n
      BY <1>11, <3>1, <3>2, <3>3 DEF PartsAgree, g, r, n
    <3>4. CASE j = n
      <4>1. Short(t, i)
        BY <1>7, <2>1, <2>4, <2>6, <3>4
      <4>2. \A p \in i..n : t[p] \in PartChars
        BY <1>13, <1>16, <2>3, <2>6, <3>4 DEF PartChars
      <4> QED BY <1>12, <3>1, <3>2, <3>4, <4>1, <4>2 DEF PartsAgree, g, r, n
    <3> QED BY <3>3, <3>4
  <2>7. CASE t[j] = "."
    <3>1. g[i] <=> k - (j + 1) \in 1..NanoDigits /\ At(t, k) = "S" /\ k = n
      BY <1>4, <1>16, <2>1, <2>7
    <3>2. Short(t, i) <=> k - (j + 1) <= NanoDigits
      BY <1>7, <2>1, <2>7
    <3>3. k \in (j + 1)..(n + 1) /\ NanoDigits \in Nat
      BY <1>8, <1>16, NanoAssumption
    <3>4. k - (j + 1) \in 1..NanoDigits <=> k > j + 1 /\ k - (j + 1) <= NanoDigits
      BY <1>1, <1>16, <3>3
    <3>5. g[i] <=> (k > j + 1 /\ k = n /\ t[k] = "S") /\ Short(t, i)
      BY <1>9, <1>16, <3>1, <3>2, <3>4
    <3>6. \A d \in Durations : IF k > j + 1 /\ k = n /\ t[k] = "S" THEN r[i][d].ok = TRUE ELSE r[i][d] = Rejected
      <4> SUFFICES ASSUME NEW d \in Durations
                   PROVE  IF k > j + 1 /\ k = n /\ t[k] = "S" THEN r[i][d].ok = TRUE ELSE r[i][d] = Rejected
        OBVIOUS
      <4>1. r[i][d] = IF t[j] = "." /\ k > j + 1 /\ k = n /\ t[k] = "S"
                      THEN Decoded([d EXCEPT !.seconds = val, !.nanos = Nanos(SubSeq(t, j + 1, k - 1))])
                      ELSE Rejected
        BY <1>5, <1>16, <2>7
      <4>2. CASE k > j + 1 /\ k = n /\ t[k] = "S"
        BY <2>7, <4>1, <4>2, AnswerFields
      <4>3. CASE ~(k > j + 1 /\ k = n /\ t[k] = "S")
        BY <4>1, <4>3
      <4> QED BY <4>2, <4>3
    <3>7. g[i] => \A p \in (j + 1)..n : t[p] \in PartChars
      <4> SUFFICES ASSUME g[i], NEW p \in (j + 1)..n PROVE t[p] \in PartChars
        OBVIOUS
      <4>1. p \in (j + 1)..(k - 1) \/ p = k
        BY <1>1, <1>16, <3>3, <3>5
      <4> QED BY <1>8, <1>16, <3>5, <4>1 DEF PartChars
    <3>8. g[i] => \A p \in i..n : t[p] \in PartChars
      BY <1>13, <1>16, <2>7, <3>7 DEF PartChars
    <3>9. CASE k > j + 1 /\ k = n /\ t[k] = "S"
      BY <3>5, <3>6, <3>8, <3>9 DEF PartsAgree, g, r, n
    <3>10. CASE ~(k > j + 1 /\ k = n /\ t[k] = "S")
      BY <1>11, <3>5, <3>6, <3>10 DEF PartsAgree, g, r, n
    <3> QED BY <3>9, <3>10
  <2>8. CASE t[j] \notin {"H", "M", "S", "."}
    <3>1. ~g[i]
      BY <1>4, <2>1, <2>8
    <3>2. \A d \in Durations : r[i][d] = Rejected
      BY <1>5, <2>8
    <3> QED BY <1>11, <3>1, <3>2 DEF PartsAgree, g, r, n
  <2> QED BY <2>5, <2>6, <2>7, <2>8
<1> QED BY <1>10, <1>14, <1>15, <1>16

LEMMA AllPartsAgree ==
  ASSUME NEW t \in Texts, NEW i \in 1..(Len(t) + 1)
  PROVE  PartsAgree(t, i)
<1> DEFINE n == Len(t) + 1
           T == {m \in Nat : \A k \in 1..n : k > n - m => PartsAgree(t, k)}
<1>1. n \in Nat /\ n >= 1
  BY TextTypes
<1>2. T \in SUBSET Nat
  OBVIOUS
<1>3. 0 \in T
  BY <1>1
<1>4. ASSUME NEW m \in T PROVE m + 1 \in T
  <2> SUFFICES ASSUME NEW k \in 1..n, k > n - (m + 1) PROVE PartsAgree(t, k)
    BY <1>4
  <2>1. \A l \in (k + 1)..n : l \in 1..n /\ l > n - m
    BY <1>1
  <2>2. \A l \in (k + 1)..n : PartsAgree(t, l)
    BY <1>4, <2>1
  <2> QED BY <2>2, PartAgrees
<1> HIDE DEF T
<1>5. T = Nat
  BY <1>2, <1>3, <1>4, SetInduction
<1>6. n \in T /\ i > n - n
  BY <1>1, <1>5
<1> QED BY <1>6 DEF T

\* Short, said of the whole text, is what FractionDigits counts.
LEMMA ShortText ==
  ASSUME NEW t \in Texts
  PROVE  Short(t, 1) <=> FractionDigits(t) <= NanoDigits
<1> DEFINE S == {i \in DOMAIN t : t[i] = "."}
<1>1. Len(t) \in Nat /\ DOMAIN t = 1..Len(t)
  BY TextTypes
<1>2. Contains(t, ".") <=> S # {}
  BY <1>1 DEF Contains
<1>3. CASE S = {}
  <2>1. FractionDigits(t) = 0
    BY <1>2, <1>3 DEF FractionDigits
  <2>2. Short(t, 1)
    BY <1>1, <1>3 DEF Short, FirstPoint
  <2> QED BY <2>1, <2>2, NanoAssumption
<1>4. CASE S # {}
  <2>1. S \in SUBSET Nat
    BY <1>1
  <2>2. \E m \in S : \A k \in S : m <= k
    <3> HIDE DEF S
    <3> QED BY <1>4, <2>1, LeastElement
  <2>3. FirstOf(S) \in S /\ \A k \in S : FirstOf(S) <= k
    BY <2>2 DEF FirstOf
  <2> DEFINE p == FirstOf(S)
             a == AfterDigits(t, p + 1)
  <2>4. p \in 1..Len(t) /\ t[p] = "." /\ \A k \in 1..Len(t) : t[k] = "." => p <= k
    BY <1>1, <2>3
  <2>5. FractionDigits(t) = a - p - 1
    BY <1>2, <1>4 DEF FractionDigits
  <2>6. a \in (p + 1)..(Len(t) + 1)
    <3>1. p + 1 \in 1..(Len(t) + 1)
      BY <1>1, <2>4
    <3> HIDE DEF p
    <3> QED BY <3>1, AfterDigitsProperties
  <2>7. a - p - 1 = a - (p + 1)
    <3> HIDE DEF a, p
    <3> QED BY <1>1, <2>4, <2>6
  <2> HIDE DEF p, S
  <2>8. \A q \in 1..(p - 1) : q \in 1..Len(t) /\ ~(p <= q)
    BY <1>1, <2>4
  <2>9. FirstPoint(t, 1, p)
    BY <2>4, <2>8 DEF FirstPoint
  <2>10. \A q \in 1..Len(t) : FirstPoint(t, 1, q) => q = p
    <3> SUFFICES ASSUME NEW q \in 1..Len(t), FirstPoint(t, 1, q) PROVE q = p
      OBVIOUS
    <3>1. p <= q
      BY <2>4 DEF FirstPoint
    <3>2. p \notin 1..(q - 1)
      BY <2>4 DEF FirstPoint
    <3> QED BY <1>1, <2>4, <3>1, <3>2
  <2> QED BY <2>4, <2>5, <2>7, <2>9, <2>10 DEF Short
<1> QED BY <1>3, <1>4

\* validate/dfa and decode agree on duration, but for one whose fraction is longer than the
\* digits that are kept: the automaton refuses it and the decoder cuts it.
LEMMA DurationsAgree ==
  ASSUME NEW t \in Texts
  PROVE  /\ FractionDigits(t) <= NanoDigits => Agree(ValidateDuration(t), decodeDuration(t))
         /\ ValidateDuration(t) => FractionDigits(t) <= NanoDigits
         /\ ValidateDuration(t) => Plain(t)
<1> DEFINE days == AfterDigits(t, 2)
           hasDays == days > 2 /\ At(t, days) = "D"
           start == [NoDuration EXCEPT !.days = IF hasDays THEN Wrapped(Number(SubSeq(t, 2, days - 1))) ELSE 0]
           i == IF hasDays THEN days + 1 ELSE days
           n == Len(t)
           Starts == n >= 2 /\ t[1] = "P"
           g == PartsTaken(t)
           r == PartsRead(t)
<1>1. n \in Nat /\ DOMAIN t = 1..n
  BY TextTypes
<1>2. n < 2 <=> ~(n >= 2)
  BY <1>1
<1>3. ValidateDuration(t) <=> Starts /\ \/ hasDays /\ i > n
                                        \/ At(t, i) = "T" /\ i < n /\ g[i + 1]
  BY DurationLoops
<1>4. decodeDuration(t) = IF n < 2 \/ t[1] # "P" THEN Rejected
                          ELSE IF hasDays /\ i > n THEN Decoded(start)
                          ELSE IF At(t, i) = "T" /\ i < n THEN r[i + 1][start]
                          ELSE Rejected
  BY DurationLoops
<1>5. Starts => 2 \in 1..(n + 1)
  BY <1>1
<1>6. Starts => days \in 2..(n + 1) /\ \A q \in 2..(days - 1) : t[q] \in Digit
  BY <1>5, AfterDigitsProperties
<1>7. Starts => start \in Durations
  <2>1. Starts => Wrapped(Number(SubSeq(t, 2, days - 1))) \in Int
    BY <1>5, DigitsNumber
  <2> QED BY <2>1 DEF NoDuration, Durations
<1>8. Starts /\ hasDays => days \in 1..n /\ t[days] = "D"
  <2>1. Starts => days \in Int
    BY <1>6
  <2> QED BY <2>1, AtProperties DEF NoChar
<1>9. Starts /\ At(t, i) = "T" => i \in 1..n /\ t[i] = "T"
  <2>1. Starts => i \in Int
    BY <1>1, <1>6
  <2> QED BY <2>1, AtProperties DEF NoChar
<1> HIDE DEF days, start, g, r
\* What comes before the T is no point, no blank and no quote.
<1>10. ASSUME Starts, NEW q \in 1..n, q < i PROVE t[q] \in Digit \cup {"P", "D"}
  <2>1. q = 1 \/ q \in 2..(days - 1) \/ (hasDays /\ q = days)
    BY <1>1, <1>6, <1>10
  <2> QED BY <1>6, <1>8, <1>10, <2>1
<1>11. \A c \in Digit \cup {"P", "D", "T"} : c # "." /\ c \notin IsWhitespace \cup {Quote}
  BY DigitSet DEF IsWhitespace, Quote
<1>12. \A c \in PartChars : c \notin IsWhitespace \cup {Quote}
  BY DigitSet DEF IsWhitespace, Quote, PartChars
<1>13. CASE ~Starts
  <2>1. ~ValidateDuration(t) /\ decodeDuration(t) = Rejected
    BY <1>2, <1>3, <1>4, <1>13
  <2> QED BY <2>1, AnswerFields DEF Agree
<1>14. CASE Starts /\ hasDays /\ i > n
  <2>1. ValidateDuration(t) /\ decodeDuration(t).ok = TRUE
    BY <1>2, <1>3, <1>4, <1>14, AnswerFields
  <2>2. \A q \in 1..n : q < i
    BY <1>1, <1>8, <1>14
  <2>3. \A q \in 1..n : t[q] \in Digit \cup {"P", "D"}
    BY <1>10, <1>14, <2>2
  <2>4. Plain(t)
    BY <1>1, <1>11, <2>3 DEF Plain
  <2>5. Short(t, 1)
    BY <1>11, <2>3 DEF Short, FirstPoint
  <2> QED BY <2>1, <2>4, <2>5, ShortText DEF Agree
<1>15. CASE Starts /\ ~(hasDays /\ i > n) /\ At(t, i) = "T" /\ i < n
  <2>1. i \in 1..n /\ t[i] = "T" /\ i + 1 \in 1..(n + 1)
    BY <1>1, <1>9, <1>15
  <2> HIDE DEF i
  <2>2. PartsAgree(t, i + 1)
    BY <2>1, AllPartsAgree DEF n
  <2>3. ValidateDuration(t) <=> g[i + 1]
    BY <1>3, <1>15
  <2>4. decodeDuration(t) = r[i + 1][start]
    BY <1>2, <1>4, <1>15
  <2>5. \A q \in 1..i : t[q] \in Digit \cup {"P", "D", "T"}
    <3>1. \A q \in 1..i : q \in 1..n /\ (q = i \/ q < i)
      BY <1>1, <2>1
    <3> QED BY <1>10, <1>15, <2>1, <3>1
  <2>6. Short(t, 1) <=> Short(t, i + 1)
    <3>1. \A p \in 1..n : p \in 1..i \/ p \in (i + 1)..n
      BY <1>1, <2>1
    <3>2. \A p \in (i + 1)..n : p \in 1..n /\ (\A q \in 1..(p - 1) : q \in 1..i \/ q \in (i + 1)..(p - 1))
                                /\ (\A q \in (i + 1)..(p - 1) : q \in 1..(p - 1))
      BY <1>1, <2>1
    <3>3. \A q \in 1..i : t[q] # "."
      BY <1>11, <2>5
    <3>4. \A p \in (i + 1)..n : FirstPoint(t, 1, p) <=> FirstPoint(t, i + 1, p)
      BY <3>2, <3>3 DEF FirstPoint
    <3>5. \A p \in 1..n : FirstPoint(t, 1, p) => p \in (i + 1)..n
      BY <3>1, <3>3 DEF FirstPoint
    <3>6. \A p \in (i + 1)..n : p \in 1..n
      BY <3>2
    <3> QED BY <3>4, <3>5, <3>6 DEF Short, n
  <2>7. g[i + 1] => Plain(t)
    <3>1. \A p \in 1..n : p \in 1..i \/ p \in (i + 1)..n
      BY <1>1, <2>1
    <3>2. g[i + 1] => \A p \in (i + 1)..n : t[p] \in PartChars
      BY <2>2 DEF PartsAgree, g, n
    <3> QED BY <1>1, <1>11, <1>12, <2>5, <3>1, <3>2 DEF Plain
  <2>8. /\ g[i + 1] => Short(t, i + 1) /\ r[i + 1][start].ok = TRUE
        /\ ~g[i + 1] /\ Short(t, i + 1) => r[i + 1][start].ok = FALSE
    BY <1>7, <1>15, <2>2 DEF PartsAgree, g, r
  <2> HIDE DEF Starts, hasDays, n
  <2> QED BY <2>3, <2>4, <2>6, <2>7, <2>8, ShortText DEF Agree
<1>16. CASE Starts /\ ~(hasDays /\ i > n) /\ ~(At(t, i) = "T" /\ i < n)
  <2>1. ~ValidateDuration(t) /\ decodeDuration(t) = Rejected
    <3> HIDE DEF hasDays, i, n
    <3> QED BY <1>3, <1>4, <1>16
  <2> QED BY <2>1, AnswerFields DEF Agree
<1> HIDE DEF Starts, hasDays, i, n
<1> QED BY <1>13, <1>14, <1>15, <1>16

-----------------------------------------------------------------------------
(***************************************************************************)
(* The validator and the decoder are instances of FieldChecks and of       *)
(* FieldValues (Answers), and have the definitions of Scalars and          *)
(* Temporals once more; they are the same.                                 *)
(***************************************************************************)
LEMMA CheckScanners ==
  /\ \A t, i : Check!At(t, i) = At(t, i)
  /\ \A t, i : Check!AfterDigits(t, i) = AfterDigits(t, i)
  /\ \A t, i : Check!From(t, i) = From(t, i)
  /\ \A t, S : Check!AllIn(t, S) = AllIn(t, S)
  /\ \A c : Check!Lower(c) = Lower(c)
  /\ \A t : Check!LowerText(t) = LowerText(t)
  /\ \A t : Check!Unsigned(t) = Unsigned(t)
  /\ \A t : Check!Number(t) = Number(t)
  /\ Check!Digit = Digit /\ Check!DigitValue = DigitValue
  /\ Check!HexChar = HexChar /\ Check!Base64Char = Base64Char
BY DEF Check!At, Check!NoChar, Check!Digits, Check!Digit, Check!DigitValue, Check!AfterDigits, Check!After,
       Check!From, Check!AllIn, Check!Lower, Check!LowerOf, Check!UpperLetters, Check!LowerLetters,
       Check!LowerText, Check!Unsigned, Check!Number, Check!HexChar, Check!Base64Char,
       At, NoChar, Digits, Digit, DigitValue, AfterDigits, After, From, AllIn, Lower, LowerOf, UpperLetters,
       LowerLetters, LowerText, Unsigned, Number, HexChar, Base64Char

LEMMA CheckClocks ==
  /\ \A t, i : Check!TwoDigits(t, i) = TwoDigits(t, i)
  /\ \A t : Check!DateAtStart(t) = DateAtStart(t)
  /\ \A t, i : Check!ClockAt(t, i) = ClockAt(t, i)
  /\ \A z : Check!Zone(z) = Zone(z)
<1>1. \A t, i : Check!TwoDigits(t, i) = TwoDigits(t, i)
  BY CheckScanners DEF Check!TwoDigits, TwoDigits
<1>2. \A t, i : /\ Check!validHour(t, i) = validHour(t, i)
                /\ Check!validMinSec(t, i) = validMinSec(t, i)
                /\ Check!validMonth(t, i) = validMonth(t, i)
                /\ Check!validDay(t, i) = validDay(t, i)
  BY <1>1 DEF Check!validHour, validHour, Check!validMinSec, validMinSec, Check!validMonth, validMonth,
              Check!validDay, validDay
<1>3. \A y, m : Check!MaxDay(y, m) = MaxDay(y, m)
  BY DEF Check!MaxDay, MaxDay, Check!daysInMonth, daysInMonth
<1>4. \A t : Check!DateAtStart(t) = DateAtStart(t)
  BY <1>1, <1>2, <1>3, CheckScanners DEF Check!DateAtStart, DateAtStart, Check!isDateSep, isDateSep
<1>5. \A t, i : Check!ClockAt(t, i) = ClockAt(t, i)
  BY <1>2, CheckScanners DEF Check!ClockAt, ClockAt
<1>6. \A z : Check!Zone(z) = Zone(z)
  BY <1>2 DEF Check!Zone, Zone, Check!isTZSign, isTZSign
<1> QED BY <1>1, <1>4, <1>5, <1>6

LEMMA CheckIsTheSame ==
  \A t : /\ Check!ValidateInt(t) = ValidateInt(t)
         /\ Check!ValidateFloat(t) = ValidateFloat(t)
         /\ Check!ValidateDecimal(t) = ValidateDecimal(t)
         /\ Check!ValidateBool(t) = ValidateBool(t)
         /\ Check!ValidateDate(t) = ValidateDate(t)
         /\ Check!ValidateTime(t) = ValidateTime(t)
         /\ Check!ValidateTimestamp(t) = ValidateTimestamp(t)
         /\ Check!ValidateDatetime(t) = ValidateDatetime(t)
         /\ Check!ValidateDatetimeTZ(t) = ValidateDatetimeTZ(t)
         /\ Check!ValidateDuration(t) = ValidateDuration(t)
         /\ Check!ValidateUUID(t) = ValidateUUID(t)
         /\ Check!ValidateBytesHex(t) = ValidateBytesHex(t)
         /\ Check!ValidateBytesB64(t) = ValidateBytesB64(t)
         /\ \A enum : Check!Lookup(enum, t) = Lookup(enum, t)
<1>1. \A t : Check!ValidateInt(t) = ValidateInt(t)
  BY CheckScanners DEF Check!ValidateInt, ValidateInt, Check!PastLimit, PastLimit
<1>2. \A t : Check!ValidateFloat(t) = ValidateFloat(t)
  <2>1. \A t : Check!FloatSpans(t) = FloatSpans(t)
    BY CheckScanners DEF Check!FloatSpans, FloatSpans
  <2> QED BY <2>1, CheckScanners DEF Check!ValidateFloat, ValidateFloat, Check!FloatNames, FloatNames
<1>3. \A t : Check!ValidateDecimal(t) = ValidateDecimal(t)
  BY CheckScanners DEF Check!ValidateDecimal, ValidateDecimal, Check!NoChar, NoChar
<1>4. \A t : Check!ValidateBool(t) = ValidateBool(t)
  BY CheckScanners DEF Check!ValidateBool, ValidateBool, Check!TrueText, TrueText, Check!FalseText, FalseText
<1>5. \A t : Check!ValidateDate(t) = ValidateDate(t)
  BY CheckClocks DEF Check!ValidateDate, ValidateDate
<1>6. \A t : Check!ValidateTime(t) = ValidateTime(t)
  BY CheckScanners, CheckClocks DEF Check!ValidateTime, ValidateTime
<1>7. \A t, a, b, z : Check!DateTimeText(t, a, b, z) = DateTimeText(t, a, b, z)
  BY DEF Check!After, After, Check!AfterDigits, AfterDigits, Check!AllIn, AllIn, Check!At, At,
         Check!ClockAt, ClockAt, Check!DateAtStart, DateAtStart, Check!DateTimeText, DateTimeText,
         Check!Digit, Digit, Check!DigitValue, DigitValue, Check!Digits, Digits, Check!From, From,
         Check!MaxDay, MaxDay, Check!NoChar, NoChar, Check!Number, Number, Check!TwoDigits, TwoDigits,
         Check!Zone, Zone, Check!daysInMonth, daysInMonth, Check!isDateSep, isDateSep, Check!isDateTimeSep,
         isDateTimeSep, Check!isTZSign, isTZSign, Check!validDay, validDay, Check!validHour, validHour,
         Check!validMinSec, validMinSec, Check!validMonth, validMonth
<1>8. \A t : /\ Check!ValidateTimestamp(t) = ValidateTimestamp(t)
             /\ Check!ValidateDatetime(t) = ValidateDatetime(t)
             /\ Check!ValidateDatetimeTZ(t) = ValidateDatetimeTZ(t)
  <2> TAKE t
  <2>1. Check!ValidateTimestamp(t) = ValidateTimestamp(t)
    BY <1>7 DEF Check!ValidateTimestamp, ValidateTimestamp
  <2>2. Check!ValidateDatetime(t) = ValidateDatetime(t)
    BY <1>7 DEF Check!ValidateDatetime, ValidateDatetime
  <2>3. Check!ValidateDatetimeTZ(t) = ValidateDatetimeTZ(t)
    BY <1>7 DEF Check!ValidateDatetimeTZ, ValidateDatetimeTZ
  <2> QED BY <2>1, <2>2, <2>3
<1>9. \A t : Check!ValidateDuration(t) = ValidateDuration(t)
  BY DEF Check!After, After, Check!AfterDigits, AfterDigits, Check!At, At, Check!Digit, Digit, Check!Digits,
         Digits, Check!NoChar, NoChar, Check!ValidateDuration, ValidateDuration
<1>10. \A t : Check!ValidateUUID(t) = ValidateUUID(t)
  BY CheckScanners DEF Check!ValidateUUID, ValidateUUID, Check!UUIDDashes, UUIDDashes
<1>11. \A t : Check!ValidateBytesHex(t) = ValidateBytesHex(t)
  BY CheckScanners DEF Check!ValidateBytesHex, ValidateBytesHex
<1>12. \A t : Check!ValidateBytesB64(t) = ValidateBytesB64(t)
  BY CheckScanners DEF Check!ValidateBytesB64, ValidateBytesB64
<1>13. \A t, enum : Check!Lookup(enum, t) = Lookup(enum, t)
  BY DEF Check!Decoded, Decoded, Check!FirstOf, FirstOf, Check!Lookup, Lookup, Check!Lower, Lower,
         Check!LowerLetters, LowerLetters, Check!LowerOf, LowerOf, Check!LowerText, LowerText,
         Check!Rejected, Rejected, Check!UpperLetters, UpperLetters
<1> QED BY <1>1, <1>2, <1>3, <1>4, <1>5, <1>6, <1>8, <1>9, <1>10, <1>11, <1>12, <1>13

LEMMA ValueScanners ==
  /\ \A t, i : Value!At(t, i) = At(t, i)
  /\ \A t, i : Value!AfterDigits(t, i) = AfterDigits(t, i)
  /\ \A t, i : Value!From(t, i) = From(t, i)
  /\ \A t, S : Value!AllIn(t, S) = AllIn(t, S)
  /\ \A c : Value!Lower(c) = Lower(c)
  /\ \A t : Value!LowerText(t) = LowerText(t)
  /\ \A t : Value!Unsigned(t) = Unsigned(t)
  /\ \A t : Value!Number(t) = Number(t)
  /\ Value!Digit = Digit /\ Value!DigitValue = DigitValue
  /\ Value!HexChar = HexChar /\ Value!Base64Char = Base64Char
  /\ Value!Rejected = Rejected /\ \A v : Value!Decoded(v) = Decoded(v)
BY DEF Value!At, Value!NoChar, Value!Digits, Value!Digit, Value!DigitValue, Value!AfterDigits, Value!After,
       Value!From, Value!AllIn, Value!Lower, Value!LowerOf, Value!UpperLetters, Value!LowerLetters,
       Value!LowerText, Value!Unsigned, Value!Number, Value!HexChar, Value!Base64Char, Value!Rejected,
       Value!Decoded, At, NoChar, Digits, Digit, DigitValue, AfterDigits, After, From, AllIn, Lower, LowerOf,
       UpperLetters, LowerLetters, LowerText, Unsigned, Number, HexChar, Base64Char, Rejected, Decoded

LEMMA ValueClocks ==
  /\ \A t, i : Value!TwoDigits(t, i) = TwoDigits(t, i)
  /\ \A t, i : /\ Value!validHour(t, i) = validHour(t, i)
               /\ Value!validMinSec(t, i) = validMinSec(t, i)
  /\ \A t : Value!Nanos(t) = Nanos(t)
  /\ \A t : Value!DateOf(t) = DateOf(t)
  /\ \A t : Value!OffsetOf(t) = OffsetOf(t)
  /\ \A t, i, n : Value!ClockOf(t, i, n) = ClockOf(t, i, n)
  /\ \A t : Value!decodeDate(t) = decodeDate(t)
<1>1. \A t, i : Value!TwoDigits(t, i) = TwoDigits(t, i)
  BY ValueScanners DEF Value!TwoDigits, TwoDigits
<1>2. \A t, i : /\ Value!validHour(t, i) = validHour(t, i)
                /\ Value!validMinSec(t, i) = validMinSec(t, i)
                /\ Value!validMonth(t, i) = validMonth(t, i)
                /\ Value!validDay(t, i) = validDay(t, i)
  BY <1>1 DEF Value!validHour, validHour, Value!validMinSec, validMinSec, Value!validMonth, validMonth,
              Value!validDay, validDay
<1>3. \A y, m : Value!MaxDay(y, m) = MaxDay(y, m)
  BY DEF Value!MaxDay, MaxDay, Value!daysInMonth, daysInMonth
<1>4. \A t : Value!Nanos(t) = Nanos(t)
  BY ValueScanners DEF Value!Nanos, Nanos, Value!TenTo, TenTo
<1>5. /\ \A t : Value!DateOf(t) = DateOf(t)
      /\ \A t : Value!OffsetOf(t) = OffsetOf(t)
      /\ \A t, i, n : Value!ClockOf(t, i, n) = ClockOf(t, i, n)
  BY <1>1, ValueScanners DEF Value!DateOf, DateOf, Value!OffsetOf, OffsetOf, Value!ClockOf, ClockOf,
                             Value!Hour, Hour, Value!Minute, Minute
<1>6. \A t : Value!decodeDate(t) = decodeDate(t)
  BY <1>2, <1>3, <1>5, ValueScanners DEF Value!decodeDate, decodeDate, Value!isDateSep, isDateSep
<1> QED BY <1>1, <1>2, <1>4, <1>5, <1>6

LEMMA ValueIsTheSame ==
  \A t : /\ Value!decodeInt(t) = decodeInt(t)
         /\ Value!decodeFloat(t) = decodeFloat(t)
         /\ Value!decodeDecimal(t) = decodeDecimal(t)
         /\ Value!decodeBool(t) = decodeBool(t)
         /\ Value!decodeDate(t) = decodeDate(t)
         /\ Value!decodeTime(t) = decodeTime(t)
         /\ Value!decodeTimestamp(t) = decodeTimestamp(t)
         /\ Value!decodeDatetime(t) = decodeDatetime(t)
         /\ Value!decodeDatetimeTZ(t) = decodeDatetimeTZ(t)
         /\ Value!decodeDuration(t) = decodeDuration(t)
         /\ Value!decodeUUID(t) = decodeUUID(t)
         /\ Value!decodeBytesHex(t) = decodeBytesHex(t)
         /\ Value!decodeBytesB64(t) = decodeBytesB64(t)
         /\ \A enum : Value!Lookup(enum, t) = Lookup(enum, t)
<1>1. \A t : Value!decodeInt(t) = decodeInt(t)
  BY DEF Value!At, At, Value!Decoded, Decoded, Value!Digit, Digit, Value!DigitValue, DigitValue,
         Value!Digits, Digits, Value!NoChar, NoChar, Value!Rejected, Rejected, Value!TooHigh, TooHigh,
         Value!TooLow, TooLow, Value!Unsigned, Unsigned, Value!decodeInt, decodeInt
<1>2. \A t : Value!decodeFloat(t) = decodeFloat(t)
  <2>1. \A t : Value!FloatSpans(t) = FloatSpans(t)
    BY ValueScanners DEF Value!FloatSpans, FloatSpans
  <2>2. \A mantissa, top : Value!Largest(mantissa, top) = Largest(mantissa, top)
    BY ValueScanners DEF Value!Largest, Largest
  <2>3. ASSUME NEW t PROVE Value!OutOfRange(t) = OutOfRange(t)
    <3> DEFINE s == FloatSpans(t)
               m == SubSeq(t, s.first, s.whole - 1) \o SubSeq(t, s.whole + 1, s.fraction - 1)
               e == (IF At(t, s.power - 1) = "-" THEN -1 ELSE 1) * Number(SubSeq(t, s.power, s.end - 1))
               vs == Value!FloatSpans(t)
               vm == SubSeq(t, vs.first, vs.whole - 1) \o SubSeq(t, vs.whole + 1, vs.fraction - 1)
               ve == (IF Value!At(t, vs.power - 1) = "-" THEN -1 ELSE 1)
                       * Value!Number(SubSeq(t, vs.power, vs.end - 1))
               Beyond(x, top, power, whole) ==
                 /\ x[top] # "0" /\ \A j \in 1..(top - 1) : x[j] = "0"
                 /\ power > MaxExponent \/ (power = MaxExponent /\ whole >= FloatLimit)
    <3>1. OutOfRange(t) = \E top \in DOMAIN m : Beyond(m, top, s.whole - s.first - top + e, Largest(m, top))
      BY DEF OutOfRange
    <3>2. Value!OutOfRange(t)
            = \E top \in DOMAIN vm : Beyond(vm, top, vs.whole - vs.first - top + ve, Value!Largest(vm, top))
      BY DEF Value!OutOfRange
    <3>3. vs = s
      BY <2>1
    <3>4. vm = m /\ ve = e
      <4> HIDE DEF s, vs
      <4> QED BY <3>3, ValueScanners
    <3> HIDE DEF s, vs, m, vm, e, ve, Beyond
    <3> QED BY <2>2, <3>1, <3>2, <3>3, <3>4
  <2> QED BY <2>3, ValueScanners DEF Value!decodeFloat, decodeFloat, Value!FloatNames, FloatNames
<1>3. \A t : Value!decodeDecimal(t) = decodeDecimal(t)
  BY ValueScanners DEF Value!decodeDecimal, decodeDecimal, Value!BelowOne, BelowOne
<1>4. \A t : Value!decodeBool(t) = decodeBool(t)
  BY ValueScanners DEF Value!decodeBool, decodeBool, Value!TrueText, TrueText, Value!FalseText, FalseText
<1>5. \A t : Value!decodeTime(t) = decodeTime(t)
  BY ValueScanners, ValueClocks DEF Value!decodeTime, decodeTime
<1>6. \A t, a, b, r, z : Value!decodeDateTime(t, a, b, r, z) = decodeDateTime(t, a, b, r, z)
  BY ValueScanners, ValueClocks DEF Value!decodeDateTime, decodeDateTime, Value!isTZSign, isTZSign,
                                    Value!isDateTimeSep, isDateTimeSep
<1>7. \A t : /\ Value!decodeTimestamp(t) = decodeTimestamp(t)
             /\ Value!decodeDatetime(t) = decodeDatetime(t)
             /\ Value!decodeDatetimeTZ(t) = decodeDatetimeTZ(t)
  BY <1>6 DEF Value!decodeTimestamp, decodeTimestamp, Value!decodeDatetime, decodeDatetime,
              Value!decodeDatetimeTZ, decodeDatetimeTZ
<1>8. \A t : Value!decodeDuration(t) = decodeDuration(t)
  BY DEF Value!After, After, Value!AfterDigits, AfterDigits, Value!At, At, Value!Decoded, Decoded,
         Value!Digit, Digit, Value!DigitValue, DigitValue, Value!Digits, Digits, Value!Durations, Durations,
         Value!Nanos, Nanos, Value!NoChar, NoChar, Value!NoDuration, NoDuration, Value!Number, Number,
         Value!Rejected, Rejected, Value!TenTo, TenTo, Value!Wrapped, Wrapped, Value!decodeDuration,
         decodeDuration
<1>9. \A t : Value!decodeUUID(t) = decodeUUID(t)
  BY DEF Value!decodeUUID, decodeUUID, Value!UUIDDashes, UUIDDashes, Value!UUIDPositions, UUIDPositions,
         Value!HexChar, HexChar, Value!HexByte, HexByte, Value!hexCharToNibble, hexCharToNibble,
         Value!HexDigits, HexDigits, Value!Lower, Lower, Value!LowerOf, LowerOf, Value!LowerLetters,
         LowerLetters, Value!UpperLetters, UpperLetters, Value!Digit, Digit, Value!Digits, Digits,
         Value!DigitValue, DigitValue, Value!Rejected, Rejected, Value!Decoded, Decoded
<1>10. \A t : Value!decodeBytesHex(t) = decodeBytesHex(t)
  BY DEF Value!decodeBytesHex, decodeBytesHex, Value!AllIn, AllIn,
         Value!HexChar, HexChar, Value!HexByte, HexByte, Value!hexCharToNibble, hexCharToNibble,
         Value!HexDigits, HexDigits, Value!Lower, Lower, Value!LowerOf, LowerOf, Value!LowerLetters,
         LowerLetters, Value!UpperLetters, UpperLetters, Value!Digit, Digit, Value!Digits, Digits,
         Value!DigitValue, DigitValue, Value!Rejected, Rejected, Value!Decoded, Decoded
<1>11. \A t : Value!decodeBytesB64(t) = decodeBytesB64(t)
  BY ValueScanners DEF Value!decodeBytesB64, decodeBytesB64, Value!RawStdDecodes, RawStdDecodes,
                       Value!StdDecodes, StdDecodes
<1>12. \A t, enum : Value!Lookup(enum, t) = Lookup(enum, t)
  BY DEF Value!Decoded, Decoded, Value!FirstOf, FirstOf, Value!Lookup, Lookup, Value!Lower, Lower,
         Value!LowerLetters, LowerLetters, Value!LowerOf, LowerOf, Value!LowerText, LowerText,
         Value!Rejected, Rejected, Value!UpperLetters, UpperLetters
<1> QED BY <1>1, <1>2, <1>3, <1>4, <1>5, <1>7, <1>8, <1>9, <1>10, <1>11, <1>12, ValueClocks

-----------------------------------------------------------------------------
(***************************************************************************)
(* A field.                                                                *)
(***************************************************************************)
\* The differences that OnlyValid and OnlyDecoded name, of any text and kind.
Exceeds(k, t) == k = "float" /\ OutOfRange(t)
Overlong(k, t) == k = "duration" /\ FractionDigits(t) > NanoDigits

\* What a scalar type promises of its automaton and its decoder.
TypeAgrees(k, t, valid, answer) ==
  /\ Exceeds(k, t) => answer.ok = FALSE
  /\ Overlong(k, t) => ~valid
  /\ ~Exceeds(k, t) /\ ~Overlong(k, t) => Agree(valid, answer)
  /\ valid /\ k \notin Check!BlankAllowed => Plain(t)

LEMMA FractionIsNat ==
  ASSUME NEW t \in Texts
  PROVE  FractionDigits(t) \in Nat
<1> DEFINE S == {i \in DOMAIN t : t[i] = "."}
<1>1. Len(t) \in Nat /\ DOMAIN t = 1..Len(t)
  BY TextTypes
<1>2. Contains(t, ".") <=> S # {}
  BY <1>1 DEF Contains
<1>3. CASE S = {}
  BY <1>2, <1>3 DEF FractionDigits
<1>4. CASE S # {}
  <2>1. S \in SUBSET Nat
    BY <1>1
  <2>2. \E m \in S : \A k \in S : m <= k
    <3> HIDE DEF S
    <3> QED BY <1>4, <2>1, LeastElement
  <2> DEFINE p == FirstOf(S)
  <2>3. p \in 1..Len(t)
    BY <1>1, <2>2 DEF FirstOf
  <2>4. FractionDigits(t) = AfterDigits(t, p + 1) - p - 1
    BY <1>2, <1>4 DEF FractionDigits
  <2> HIDE DEF p
  <2>5. p + 1 \in 1..(Len(t) + 1)
    BY <1>1, <2>3
  <2>6. AfterDigits(t, p + 1) \in (p + 1)..(Len(t) + 1)
    BY <2>5, AfterDigitsProperties
  <2>7. \A a \in (p + 1)..(Len(t) + 1) : a - p - 1 \in Nat
    BY <1>1, <2>3
  <2> QED BY <2>4, <2>6, <2>7
<1> QED BY <1>3, <1>4

LEMMA KindsAre ==
  ASSUME NEW type, IsScalarType(type), type.kind \notin Stringy
  PROVE  type.kind \in {"int", "float", "decimal", "bool", "hex", "b64", "date", "time", "timestamp",
                        "datetime", "datetimetz", "duration", "uuid", "enum"}
BY DEF IsScalarType, ScalarKinds, scalarKindToCanonical, Stringy

\* The null literal is one character, and none that a number has or that is trimmed.
LEMMA NullText ==
  /\ Len(Null) = 1 /\ DOMAIN Null = 1..1
  /\ Null[1] \notin Digit \cup {".", "-", Quote} \cup IsWhitespace
<1>1. \E c : Null = <<c>> /\ c \notin Digit /\ c # "." /\ c # "-" /\ c # Quote /\ c \notin IsWhitespace
  <2>1. "_" \notin Digit
    BY Zenon, DigitSet
  <2>2. "_" # "." /\ "_" # "-" /\ "_" # Quote /\ "_" \notin IsWhitespace
    BY Zenon DEF Quote, IsWhitespace
  <2> QED BY Zenon, <2>1, <2>2 DEF Null
<1>2. PICK c : Null = <<c>> /\ c \notin Digit /\ c # "." /\ c # "-" /\ c # Quote /\ c \notin IsWhitespace
  BY <1>1
<1>3. Len(<<c>>) = 1 /\ DOMAIN <<c>> = 1..1 /\ <<c>>[1] = c
  OBVIOUS
<1> QED BY <1>2, <1>3

LEMMA TypesAgree ==
  ASSUME NEW t \in Texts, t # Null, NEW type, IsScalarType(type), type.kind \notin Stringy
  PROVE  TypeAgrees(type.kind, t, Check!validateFn(t, type), Value!decodeScalarValue(t, type))
<1> DEFINE k == type.kind
           valid == Check!validateFn(t, type)
           answer == Value!decodeScalarValue(t, type)
<1>1. t # Value!Null
  BY DEF Null, Value!Null
<1>2. CASE k = "int"
  <2>1. valid = Check!ValidateInt(t) /\ answer = Value!decodeInt(t)
    BY Zenon, <1>1, <1>2 DEF Check!validateFn, Value!decodeScalarValue
  <2>2. valid = ValidateInt(t) /\ answer = decodeInt(t)
    BY <2>1, CheckIsTheSame, ValueIsTheSame
  <2> QED BY <1>2, <2>2, IntsAgree DEF TypeAgrees, Exceeds, Overlong
<1>3. CASE k = "float"
  <2>1. valid = Check!ValidateFloat(t) /\ answer = Value!decodeFloat(t)
    BY Zenon, <1>1, <1>3 DEF Check!validateFn, Value!decodeScalarValue
  <2>2. valid = ValidateFloat(t) /\ answer = decodeFloat(t)
    BY <2>1, CheckIsTheSame, ValueIsTheSame
  <2> QED BY <1>3, <2>2, FloatsAgree DEF TypeAgrees, Exceeds, Overlong
<1>4. CASE k = "decimal"
  <2>1. valid = Check!ValidateDecimal(t) /\ answer = Value!decodeDecimal(t)
    BY Zenon, <1>1, <1>4 DEF Check!validateFn, Value!decodeScalarValue
  <2>2. valid = ValidateDecimal(t) /\ answer = decodeDecimal(t)
    BY <2>1, CheckIsTheSame, ValueIsTheSame
  <2> QED BY <1>4, <2>2, DecimalsAgree DEF TypeAgrees, Exceeds, Overlong
<1>5. CASE k = "bool"
  <2>1. valid = Check!ValidateBool(t) /\ answer = Value!decodeBool(t)
    BY Zenon, <1>1, <1>5 DEF Check!validateFn, Value!decodeScalarValue
  <2>2. valid = ValidateBool(t) /\ answer = decodeBool(t)
    BY <2>1, CheckIsTheSame, ValueIsTheSame
  <2> QED BY <1>5, <2>2, BoolsAgree DEF TypeAgrees, Exceeds, Overlong
<1>6. CASE k = "hex"
  <2>1. valid = Check!ValidateBytesHex(t) /\ answer = Value!decodeBytesHex(t)
    BY Zenon, <1>1, <1>6 DEF Check!validateFn, Value!decodeScalarValue
  <2>2. valid = ValidateBytesHex(t) /\ answer = decodeBytesHex(t)
    BY <2>1, CheckIsTheSame, ValueIsTheSame
  <2> QED BY <1>6, <2>2, HexesAgree DEF TypeAgrees, Exceeds, Overlong
<1>7. CASE k = "b64"
  <2>1. valid = Check!ValidateBytesB64(t) /\ answer = Value!decodeBytesB64(t)
    BY Zenon, <1>1, <1>7 DEF Check!validateFn, Value!decodeScalarValue
  <2>2. valid = ValidateBytesB64(t) /\ answer = decodeBytesB64(t)
    BY <2>1, CheckIsTheSame, ValueIsTheSame
  <2> QED BY <1>7, <2>2, Base64sAgree DEF TypeAgrees, Exceeds, Overlong
<1>8. CASE k = "date"
  <2>1. valid = Check!ValidateDate(t) /\ answer = Value!decodeDate(t)
    BY Zenon, <1>1, <1>8 DEF Check!validateFn, Value!decodeScalarValue
  <2>2. valid = ValidateDate(t) /\ answer = decodeDate(t)
    BY <2>1, CheckIsTheSame, ValueIsTheSame
  <2> QED BY <1>8, <2>2, DatesAgree DEF TypeAgrees, Exceeds, Overlong
<1>9. CASE k = "time"
  <2>1. valid = Check!ValidateTime(t) /\ answer = Value!decodeTime(t)
    BY Zenon, <1>1, <1>9 DEF Check!validateFn, Value!decodeScalarValue
  <2>2. valid = ValidateTime(t) /\ answer = decodeTime(t)
    BY <2>1, CheckIsTheSame, ValueIsTheSame
  <2> QED BY <1>9, <2>2, TimesAgree DEF TypeAgrees, Exceeds, Overlong
<1>10. CASE k = "timestamp"
  <2>1. valid = Check!ValidateTimestamp(t) /\ answer = Value!decodeTimestamp(t)
    BY Zenon, <1>1, <1>10 DEF Check!validateFn, Value!decodeScalarValue
  <2>2. valid = ValidateTimestamp(t) /\ answer = decodeTimestamp(t)
    BY <2>1, CheckIsTheSame, ValueIsTheSame
  <2> QED BY <1>10, <2>2, TimestampsAgreeWithDecoder DEF TypeAgrees, Exceeds, Overlong, Check!BlankAllowed
<1>11. CASE k = "datetime"
  <2>1. valid = Check!ValidateDatetime(t) /\ answer = Value!decodeDatetime(t)
    BY Zenon, <1>1, <1>11 DEF Check!validateFn, Value!decodeScalarValue
  <2>2. valid = ValidateDatetime(t) /\ answer = decodeDatetime(t)
    BY <2>1, CheckIsTheSame, ValueIsTheSame
  <2> QED BY <1>11, <2>2, TimestampsAgreeWithDecoder DEF TypeAgrees, Exceeds, Overlong, Check!BlankAllowed
<1>12. CASE k = "datetimetz"
  <2>1. valid = Check!ValidateDatetimeTZ(t) /\ answer = Value!decodeDatetimeTZ(t)
    BY Zenon, <1>1, <1>12 DEF Check!validateFn, Value!decodeScalarValue
  <2>2. valid = ValidateDatetimeTZ(t) /\ answer = decodeDatetimeTZ(t)
    BY <2>1, CheckIsTheSame, ValueIsTheSame
  <2> QED BY <1>12, <2>2, TimestampsAgreeWithDecoder DEF TypeAgrees, Exceeds, Overlong, Check!BlankAllowed
<1>13. CASE k = "duration"
  <2>1. valid = Check!ValidateDuration(t) /\ answer = Value!decodeDuration(t)
    BY Zenon, <1>1, <1>13 DEF Check!validateFn, Value!decodeScalarValue
  <2>2. valid = ValidateDuration(t) /\ answer = decodeDuration(t)
    BY <2>1, CheckIsTheSame, ValueIsTheSame
  <2>3. ~(FractionDigits(t) > NanoDigits) <=> FractionDigits(t) <= NanoDigits
    BY FractionIsNat, NanoAssumption
  <2> QED BY <1>13, <2>2, <2>3, DurationsAgree DEF TypeAgrees, Exceeds, Overlong
<1>14. CASE k = "uuid"
  <2>1. valid = Check!ValidateUUID(t)
        /\ answer = IF Value!decodeUUID(t).ok THEN Value!Decoded(t) ELSE Value!Rejected
    BY Zenon, <1>1, <1>14 DEF Check!validateFn, Value!decodeScalarValue
  <2>2. valid = ValidateUUID(t) /\ answer = IF decodeUUID(t).ok THEN Decoded(t) ELSE Rejected
    BY <2>1, CheckIsTheSame, ValueIsTheSame, ValueScanners
  <2>3. Agree(ValidateUUID(t), answer)
    BY <2>2, UUIDsAgree, AnswerFields DEF Agree
  <2> QED BY <1>14, <2>2, <2>3, UUIDsAgree DEF TypeAgrees, Exceeds, Overlong
<1>15. CASE k = "enum"
  <2>1. valid = Check!Lookup(type.enum, t).ok /\ answer = Value!Lookup(type.enum, t)
    BY Zenon, <1>1, <1>15 DEF Check!validateFn, Value!decodeScalarValue
  <2>2. valid = Lookup(type.enum, t).ok /\ answer = Lookup(type.enum, t)
    BY <2>1, CheckIsTheSame, ValueIsTheSame
  <2>3. Lookup(type.enum, t).ok \in BOOLEAN
    BY DEF Lookup, Decoded, Rejected
  <2>4. \A i \in DOMAIN type.enum : IsMember(type.enum[i])
    BY <1>15 DEF IsScalarType, ScalarKinds, scalarKindToCanonical
  <2>5. Lookup(type.enum, t).ok => Plain(t)
    BY <2>4, MembersPlain
  <2> QED BY <1>15, <2>2, <2>3, <2>5 DEF TypeAgrees, Exceeds, Overlong, Agree
<1> QED BY <1>2, <1>3, <1>4, <1>5, <1>6, <1>7, <1>8, <1>9, <1>10, <1>11, <1>12, <1>13, <1>14, <1>15, KindsAre

\* A quote in front is refused: no type but the string has one.
LEMMA NoQuoteInFront ==
  ASSUME NEW t \in Texts, NEW type, IsScalarType(type), type.kind \notin Stringy, Check!validateFn(t, type)
  PROVE  At(t, 1) # Quote
<1> DEFINE k == type.kind
<1>1. 1 \in Int /\ DOMAIN t = 1..Len(t)
  BY TextTypes
<1>2. \A c \in Digit : c # Quote
  BY PlainClasses
<1>3. Plain(t) => At(t, 1) # Quote
  BY <1>1, AtProperties DEF Plain, Quote, NoChar
<1>4. CASE k \in Check!BlankAllowed
  <2>1. k \in {"timestamp", "datetime", "datetimetz"}
    BY <1>4 DEF Check!BlankAllowed, Stringy
  <2>2. ValidateTimestamp(t) \/ ValidateDatetime(t) \/ ValidateDatetimeTZ(t)
    <3>1. CASE k = "timestamp"
      <4>1. Check!validateFn(t, type) = Check!ValidateTimestamp(t)
        BY Zenon, <3>1 DEF Check!validateFn
      <4> QED BY <4>1, CheckIsTheSame
    <3>2. CASE k = "datetime"
      <4>1. Check!validateFn(t, type) = Check!ValidateDatetime(t)
        BY Zenon, <3>2 DEF Check!validateFn
      <4> QED BY <4>1, CheckIsTheSame
    <3>3. CASE k = "datetimetz"
      <4>1. Check!validateFn(t, type) = Check!ValidateDatetimeTZ(t)
        BY Zenon, <3>3 DEF Check!validateFn
      <4> QED BY <4>1, CheckIsTheSame
    <3> QED BY <2>1, <3>1, <3>2, <3>3
  <2> QED BY <1>2, <2>2, TimestampsAgreeWithDecoder
<1>5. CASE k \notin Check!BlankAllowed /\ t # Null
  BY <1>3, <1>5, TypesAgree DEF TypeAgrees
<1>6. CASE t = Null
  <2>1. Plain(t)
    BY <1>6, NullText DEF Plain
  <2> QED BY <1>3, <2>1
<1> QED BY <1>4, <1>5, <1>6

\* The null literal exceeds nothing.
LEMMA NullExceedsNothing ==
  ASSUME Null \in Texts, NEW k PROVE ~Exceeds(k, Null) /\ ~Overlong(k, Null)
<1>2. FractionDigits(Null) = 0
  <2>1. ~Contains(Null, ".")
    BY NullText DEF Contains
  <2> QED BY <2>1 DEF FractionDigits
<1>3. ~Overlong(k, Null)
  BY <1>2, NanoAssumption DEF Overlong
<1>4. ~OutOfRange(Null)
  <2> DEFINE s == FloatSpans(Null)
             mantissa == SubSeq(Null, s.first, s.whole - 1) \o SubSeq(Null, s.whole + 1, s.fraction - 1)
  <2>1. 1 \in 1..(Len(Null) + 1) /\ 1 \in Int /\ 1 \in 1..Len(Null)
    BY NullText
  <2>2. At(Null, 1) = Null[1]
    BY NullText, <2>1, AtProperties
  <2>3. \A i \in 1..(1 - 1) : Null[i] \in Digit
    OBVIOUS
  <2>4. AfterDigits(Null, 1) = 1
    BY NullText, <2>1, <2>2, <2>3, NoDigitAtEnd, AfterIsUnique DEF AfterDigits
  <2>5. s.first = 1 /\ s.whole = 1 /\ s.fraction = 1
    BY NullText, <2>2, <2>4 DEF FloatSpans
  <2>6. mantissa = <<>>
    <3>1. SubSeq(Null, 1, 1 - 1) = <<>> /\ SubSeq(Null, 1 + 1, 1 - 1) = <<>>
      BY NullText, SubSeqProperties DEF Texts
    <3>2. \A u, v : u = <<>> /\ v = <<>> => u \o v = <<>>
      OBVIOUS
    <3>3. mantissa = SubSeq(Null, 1, 1 - 1) \o SubSeq(Null, 1 + 1, 1 - 1)
      BY <2>5
    <3> QED BY <3>1, <3>2, <3>3
  <2>7. DOMAIN mantissa = {}
    <3>1. \A u : u = <<>> => DOMAIN u = {}
      OBVIOUS
    <3> HIDE DEF mantissa
    <3> QED BY <2>6, <3>1
  <2> QED BY <2>7 DEF OutOfRange
<1> QED BY <1>3, <1>4 DEF Exceeds

\* What validateCol and the decoder say of a scalar field.
LEMMA FieldAgrees ==
  ASSUME NEW t \in Texts, t = TrimASCIISpace(t),
         NEW col, col.kind = "scalar", IsScalarType(col.element), col.element.kind \notin Stringy
  PROVE  LET k == col.element.kind
             answer == AskOfField(t, col)
         IN IF Exceeds(k, t) THEN ~answer.decoded.ok
            ELSE IF Overlong(k, t) \/ (maxFieldSize > 0 /\ Len(t) > maxFieldSize) THEN ~answer.accepted
            ELSE answer.accepted = answer.decoded.ok
<1> DEFINE type == col.element
           k == type.kind
           quoted == At(t, 1) = Quote
           taken == Check!validateCol(t, quoted, col)
           valid == Check!validateFn(t, type)
           answer == Value!decodeScalarValue(t, type)
           fits == maxFieldSize = 0 \/ Len(t) <= maxFieldSize
<1>1. AskOfField(t, col).accepted = taken /\ AskOfField(t, col).decoded = answer
  BY DEF AskOfField, Value!decodeFn
<1>2. Check!Null = Null /\ Value!Null = Null /\ Value!Nil = Nil
  BY DEF Check!Null, Value!Null, Null, Value!Nil, Nil
<1>3. Len(t) \in Nat /\ DOMAIN t = 1..Len(t) /\ maxFieldSize \in Nat
  BY TextTypes, SizeAssumption
<1>4. fits <=> ~(maxFieldSize > 0 /\ Len(t) > maxFieldSize)
  BY <1>3
<1>5. k \notin {"string", "timezone"}
  BY DEF Stringy
<1>6. CASE t = Null
  <2>1. ~quoted
    <3>1. At(t, 1) = Null[1]
      BY <1>6, NullText, AtProperties
    <3> QED BY <3>1, NullText
  <2>2. taken
    BY <1>2, <1>6, <2>1 DEF Check!validateCol
  <2>3. answer = Nil
    BY Zenon, <1>2, <1>6 DEF Value!decodeScalarValue
  <2>4. answer.ok = TRUE
    BY <2>3 DEF Nil
  <2>5. fits
    BY <1>3, <1>6, NullText
  <2>6. ~Exceeds(k, t) /\ ~Overlong(k, t)
    BY <1>6, NullExceedsNothing
  <2>7. taken = TRUE
    BY <2>2 DEF Check!validateCol
  <2> HIDE DEF taken, answer, fits
  <2> QED BY <1>1, <1>4, <2>4, <2>5, <2>6, <2>7
<1>7. CASE t # Null
  <2>1. TypeAgrees(k, t, valid, answer)
    BY <1>7, TypesAgree
  <2>2. Check!TrimASCIISpace(t) = t
    <3>1. Check!TrimASCIISpace(t) = TrimASCIISpace(t)
      BY DEF Check!TrimASCIISpace, TrimASCIISpace, Check!IsWhitespace, IsWhitespace
    <3> QED BY <3>1
  <2>3. taken <=> ~quoted /\ fits /\ (k \in Check!BlankAllowed \/ ~Check!hasInternalWhitespace(t)) /\ valid
    <3>1. taken <=> ~quoted /\ fits /\ Check!validateScalarField(t, quoted, type)
      BY <1>2, <1>5, <1>7 DEF Check!validateCol
    <3>2. Check!validateScalarField(t, quoted, type)
            <=> (k \in Check!BlankAllowed \/ ~Check!hasInternalWhitespace(t)) /\ valid
      BY <1>5, <2>2 DEF Check!validateScalarField
    <3> QED BY <3>1, <3>2
  <2>4. valid => ~quoted
    BY NoQuoteInFront
  <2>5. Plain(t) => ~Check!hasInternalWhitespace(t)
    BY DEF Plain, Check!hasInternalWhitespace, Check!IsWhitespace, IsWhitespace
  <2>6. taken \in BOOLEAN
    BY DEF Check!validateCol
  <2> HIDE DEF taken, valid, answer, fits, quoted, k
  <2>7. taken <=> fits /\ valid
    BY <2>1, <2>3, <2>4, <2>5 DEF TypeAgrees
  <2>8. CASE Exceeds(k, t)
    BY <1>1, <2>1, <2>8 DEF TypeAgrees, k
  <2>9. CASE ~Exceeds(k, t) /\ (Overlong(k, t) \/ ~fits)
    <3>1. ~taken
      BY <2>1, <2>7, <2>9 DEF TypeAgrees
    <3> QED BY <1>1, <1>4, <2>9, <3>1 DEF k
  <2>10. CASE ~Exceeds(k, t) /\ ~Overlong(k, t) /\ fits
    <3>1. Agree(valid, answer) /\ (taken <=> valid)
      BY <2>1, <2>7, <2>10 DEF TypeAgrees
    <3>2. valid => taken = TRUE /\ answer.ok = TRUE
      BY <2>6, <3>1 DEF Agree
    <3>3. ~valid => taken = FALSE /\ answer.ok = FALSE
      BY <2>6, <3>1 DEF Agree
    <3>4. taken = answer.ok
      BY <3>2, <3>3
    <3> QED BY <1>1, <1>4, <2>10, <3>4 DEF k
  <2> QED BY <2>8, <2>9, <2>10
<1> QED BY <1>6, <1>7

-----------------------------------------------------------------------------
(***************************************************************************)
(* The text under its author's hands.                                      *)
(***************************************************************************)
\* What is said is said of the text as it is, and the column is the one it was typed for.
Asked == /\ name \in DOMAIN Columns
         /\ column = Columns[name]
         /\ text \in Texts
         /\ said = Ask(text, column)

LEMMA EditedTexts ==
  ASSUME NEW t \in Texts
  PROVE  /\ \A i \in DOMAIN t, c \in Letter : [t EXCEPT ![i] = c] \in Texts
         /\ \A i \in DOMAIN t : RemoveAt(t, i) \in Texts
         /\ \A i \in 1..(Len(t) + 1), c \in Letter : InsertAt(t, i, c) \in Texts
<1>1. Len(t) \in Nat /\ DOMAIN t = 1..Len(t)
  BY TextTypes
<1>2. ASSUME NEW i \in DOMAIN t, NEW c \in Letter PROVE [t EXCEPT ![i] = c] \in Texts
  BY <1>1, <1>2, ExceptSeq DEF Texts
<1>3. \A i \in 1..(Len(t) + 1) : SubSeq(t, 1, i - 1) \in Texts /\ SubSeq(t, i, Len(t)) \in Texts
  <2> SUFFICES ASSUME NEW i \in 1..(Len(t) + 1)
               PROVE  SubSeq(t, 1, i - 1) \in Texts /\ SubSeq(t, i, Len(t)) \in Texts
    OBVIOUS
  <2>1. SubSeq(t, i, Len(t)) \in Texts
    BY FromProperties DEF From
  <2>2. SubSeq(t, 1, i - 1) \in Texts
    <3>1. \A k \in 1..(i - 1) : t[k] \in Letter
      BY <1>1, TextTypes
    <3> QED BY <1>1, <3>1, SubSeqProperties DEF Texts
  <2> QED BY <2>1, <2>2
<1>4. ASSUME NEW i \in DOMAIN t PROVE RemoveAt(t, i) \in Texts
  <2>1. i \in 1..(Len(t) + 1) /\ i + 1 \in 1..(Len(t) + 1)
    BY <1>1
  <2>2. SubSeq(t, 1, i - 1) \in Texts /\ SubSeq(t, i + 1, Len(t)) \in Texts
    BY <1>3, <2>1
  <2> QED BY <2>2, ConcatProperties DEF RemoveAt, Texts
<1>5. ASSUME NEW i \in 1..(Len(t) + 1), NEW c \in Letter PROVE InsertAt(t, i, c) \in Texts
  <2>1. <<c>> \in Texts
    BY DEF Texts
  <2>2. SubSeq(t, 1, i - 1) \in Texts /\ SubSeq(t, i, Len(t)) \in Texts
    BY <1>3
  <2>3. SubSeq(t, 1, i - 1) \o <<c>> \in Texts
    BY <2>1, <2>2, ConcatProperties DEF Texts
  <2> QED BY <2>2, <2>3, ConcatProperties DEF InsertAt, Texts
<1> QED BY <1>2, <1>4, <1>5

LEMMA AskedIsInductive == (Init => Asked) /\ (Asked /\ [Next]_vars => Asked')
<1>1. Init => Asked
  <2> SUFFICES ASSUME Init PROVE Asked
    OBVIOUS
  <2>1. name \in DOMAIN Columns /\ column = Columns[name] /\ text \in Seeds[name] /\ said = Ask(text, column)
    BY DEF Init
  <2>2. Seeds[name] \subseteq Texts
    <3>1. Seq(Char) \subseteq Texts
      BY SeqMonotonic DEF Texts, Letter
    <3> QED BY <2>1, <3>1, TextsAssumption
  <2> QED BY <2>1, <2>2 DEF Asked
<1>2. ASSUME Asked, Edit PROVE Asked'
  <2>1. name \in DOMAIN Columns /\ text \in Texts
    BY <1>2 DEF Asked
  <2>2. Alphabet[name] \subseteq Letter
    BY <2>1, TextsAssumption DEF Letter
  <2>3. text' \in Replaced \cup Dropped \cup Inserted
    BY <1>2 DEF Edit
  <2>4. text' \in Texts
    <3>1. CASE text' \in Replaced
      BY <2>1, <2>2, <3>1, EditedTexts DEF Replaced
    <3>2. CASE text' \in Dropped
      BY <2>1, <3>2, EditedTexts DEF Dropped
    <3>3. CASE text' \in Inserted
      BY <2>1, <2>2, <3>3, EditedTexts DEF Inserted
    <3> QED BY <2>3, <3>1, <3>2, <3>3
  <2>5. name' = name /\ column' = column /\ said' = Ask(text', column)
    BY <1>2 DEF Edit
  <2> QED BY <1>2, <2>4, <2>5 DEF Asked
<1>3. ASSUME Asked, UNCHANGED vars PROVE Asked'
  BY <1>3 DEF Asked, vars
<1> QED BY <1>1, <1>2, <1>3 DEF Next

\* Whatever the text: the validator accepts a scalar exactly when the decoder has a value for
\* it, but for the three differences with a name (validate/dfa, decode/decode_*.go).
THEOREM ValidatorAndDecoderAgreeOnScalars == Spec => []ScalarsAgree
<1>1. ASSUME Asked PROVE ScalarsAgree
  <2> SUFFICES ASSUME column.kind = "scalar", kind \notin Stringy, Trimmed
               PROVE  IF OnlyValid THEN ~decoded.ok
                      ELSE IF OnlyDecoded THEN ~accepted
                      ELSE accepted = decoded.ok
    BY DEF ScalarsAgree
  <2>1. text \in Texts /\ name \in DOMAIN Columns /\ column = Columns[name] /\ said = Ask(text, column)
    BY <1>1 DEF Asked
  <2>2. IsScalarType(column.element)
    BY <2>1, TypesAssumption
  <2>3. said = AskOfField(text, column)
    BY Zenon, <2>1 DEF Ask
  <2>4. LET k == column.element.kind
            answer == AskOfField(text, column)
        IN IF Exceeds(k, text) THEN ~answer.decoded.ok
           ELSE IF Overlong(k, text) \/ (maxFieldSize > 0 /\ Len(text) > maxFieldSize) THEN ~answer.accepted
           ELSE answer.accepted = answer.decoded.ok
    BY <2>1, <2>2, FieldAgrees DEF Trimmed, kind
  <2> QED BY <2>3, <2>4 DEF OnlyValid, OnlyDecoded, Exceeds, Overlong, accepted, decoded, kind
<1> QED BY <1>1, AskedIsInductive, PTL DEF Spec

-----------------------------------------------------------------------------
(***************************************************************************)
(* Powers of ten.                                                          *)
(***************************************************************************)
LEMMA PowersExist ==
  \E f : f = [n \in Nat |-> IF n = 0 THEN 1 ELSE 10 * f[n - 1]]
<1> DEFINE F(N) == [p \in (1..N) \X Nat |-> 10 * p[2]]
           P(N) == CHOOSE f : Repeats(f, N, Nat, 1, F(N))
           f == [n \in Nat |-> P(n)[n]]
<1>1. ASSUME NEW N \in Nat
      PROVE  P(N) \in [0..N -> Nat] /\ P(N)[0] = 1 /\ \A i \in 1..N : P(N)[i] = 10 * P(N)[i - 1]
  <2> DEFINE G == F(N)
             g == P(N)
  <2>1. G \in Steps(N, Nat)
    BY DEF Steps
  <2>2. \A i \in 1..N, v \in Nat : G[<<i, v>>] = 10 * v
    OBVIOUS
  <2>3. g = CHOOSE h : Repeats(h, N, Nat, 1, G)
    OBVIOUS
  <2> HIDE DEF G, g
  <2>4. Repeats(g, N, Nat, 1, G)
    <3>1. \E h : Repeats(h, N, Nat, 1, G)
      BY <2>1, PrimitiveRecursion
    <3> QED BY <2>3, <3>1
  <2>5. g \in [0..N -> Nat] /\ g[0] = 1 /\ \A i \in 1..N : g[i] = G[<<i, g[i - 1]>>]
    BY <2>4 DEF Repeats
  <2>6. \A i \in 1..N : i - 1 \in 0..N
    OBVIOUS
  <2>7. \A i \in 1..N : g[i] = 10 * g[i - 1]
    BY <2>2, <2>5, <2>6
  <2> QED BY <2>5, <2>7 DEF g
<1> HIDE DEF P
<1>2. ASSUME NEW N \in Nat, NEW i \in 0..N PROVE P(N)[i] = P(i)[i]
  <2> DEFINE T == {k \in Nat : k <= i => P(N)[k] = P(i)[k]}
  <2>1. i \in Nat /\ i <= N
    OBVIOUS
  <2>2. T \in SUBSET Nat /\ 0 \in T
    BY <1>1, <2>1
  <2>3. ASSUME NEW k \in T PROVE k + 1 \in T
    <3> SUFFICES ASSUME k + 1 <= i PROVE P(N)[k + 1] = P(i)[k + 1]
      BY <2>3
    <3>1. k <= i /\ k + 1 \in 1..i /\ k + 1 \in 1..N /\ (k + 1) - 1 = k
      BY <2>1
    <3>2. P(N)[k] = P(i)[k]
      BY <2>3, <3>1
    <3>3. P(N)[k + 1] = 10 * P(N)[(k + 1) - 1] /\ P(i)[k + 1] = 10 * P(i)[(k + 1) - 1]
      BY <1>1, <2>1, <3>1
    <3> QED BY <3>1, <3>2, <3>3
  <2> HIDE DEF T
  <2>4. T = Nat
    BY <2>2, <2>3, SetInduction
  <2>5. i \in T /\ i <= i
    BY <2>1, <2>4
  <2> QED BY <2>5 DEF T
<1>3. ASSUME NEW n \in Nat PROVE f[n] = IF n = 0 THEN 1 ELSE 10 * f[n - 1]
  <2>1. CASE n = 0
    BY <1>1, <2>1
  <2>2. CASE n # 0
    <3>1. n - 1 \in Nat /\ n - 1 \in 0..n /\ n \in 1..n
      BY <2>2
    <3>2. P(n)[n] = 10 * P(n)[n - 1]
      BY <1>1, <3>1
    <3>3. P(n)[n - 1] = P(n - 1)[n - 1]
      BY <1>2, <3>1
    <3>4. f[n] = P(n)[n] /\ f[n - 1] = P(n - 1)[n - 1]
      BY <3>1
    <3> QED BY <2>2, <3>2, <3>3, <3>4
  <2> QED BY <2>1, <2>2
<1>4. f = [n \in Nat |-> f[n]]
  OBVIOUS
<1> HIDE DEF f
<1>5. f = [n \in Nat |-> IF n = 0 THEN 1 ELSE 10 * f[n - 1]]
  BY <1>3, <1>4
<1> QED BY <1>5

LEMMA PowersOfTen ==
  /\ TenTo[0] = 1
  /\ \A n \in Nat : TenTo[n + 1] = 10 * TenTo[n]
  /\ \A n \in Nat : TenTo[n] \in Nat \ {0}
<1>1. TenTo = [n \in Nat |-> IF n = 0 THEN 1 ELSE 10 * TenTo[n - 1]]
  <2> DEFINE Is(f) == f = [n \in Nat |-> IF n = 0 THEN 1 ELSE 10 * f[n - 1]]
  <2>1. TenTo = CHOOSE f : Is(f)
    BY DEF TenTo
  <2>2. \E f : Is(f)
    BY PowersExist
  <2> HIDE DEF Is
  <2>3. Is(TenTo)
    BY <2>1, <2>2
  <2> QED BY <2>3 DEF Is
<1>2. TenTo[0] = 1
  BY <1>1
<1>3. ASSUME NEW n \in Nat PROVE TenTo[n + 1] = 10 * TenTo[n]
  <2>1. n + 1 \in Nat /\ n + 1 # 0 /\ (n + 1) - 1 = n
    OBVIOUS
  <2>2. TenTo[n + 1] = IF n + 1 = 0 THEN 1 ELSE 10 * TenTo[(n + 1) - 1]
    BY <1>1, <2>1
  <2> QED BY <2>1, <2>2
<1> DEFINE T == {n \in Nat : TenTo[n] \in Nat \ {0}}
<1>4. T \in SUBSET Nat /\ 0 \in T
  BY <1>2
<1>5. ASSUME NEW n \in T PROVE n + 1 \in T
  <2>1. \A x \in Nat \ {0} : 10 * x \in Nat \ {0}
    OBVIOUS
  <2> QED BY <1>3, <2>1
<1> HIDE DEF T
<1>6. T = Nat
  BY <1>4, <1>5, SetInduction
<1> QED BY <1>2, <1>3, <1>6 DEF T

LEMMA PowersAdd ==
  ASSUME NEW a \in Nat, NEW b \in Nat
  PROVE  TenTo[a] * TenTo[b] = TenTo[a + b]
<1> DEFINE T == {n \in Nat : TenTo[n] * TenTo[b] = TenTo[n + b]}
<1>1. T \in SUBSET Nat /\ 0 \in T
  <2>1. TenTo[0] = 1 /\ TenTo[b] \in Nat /\ 0 + b = b
    BY PowersOfTen
  <2>2. \A x \in Nat : 1 * x = x
    OBVIOUS
  <2> QED BY <2>1, <2>2
<1>2. ASSUME NEW n \in T PROVE n + 1 \in T
  <2>1. n \in Nat /\ n + b \in Nat /\ (n + 1) + b = (n + b) + 1 /\ n + 1 \in Nat
    OBVIOUS
  <2>2. TenTo[n + 1] = 10 * TenTo[n] /\ TenTo[(n + b) + 1] = 10 * TenTo[n + b]
    BY <2>1, PowersOfTen
  <2>3. TenTo[n] \in Nat /\ TenTo[b] \in Nat
    BY <2>1, PowersOfTen
  <2>4. \A x, y \in Nat : (10 * x) * y = 10 * (x * y)
    OBVIOUS
  <2>5. TenTo[n] * TenTo[b] = TenTo[n + b]
    BY <1>2
  <2>6. (10 * TenTo[n]) * TenTo[b] = 10 * (TenTo[n] * TenTo[b])
    BY ONLY <2>3, <2>4
  <2>7. TenTo[n + 1] * TenTo[b] = TenTo[(n + 1) + b]
    BY ONLY <2>1, <2>2, <2>5, <2>6
  <2> QED BY <2>1, <2>7
<1> HIDE DEF T
<1>3. T = Nat
  BY <1>1, <1>2, SetInduction
<1> QED BY <1>3 DEF T

\* A number has no more digits than its text.
LEMMA NumberIsSmall ==
  ASSUME NEW s \in Texts, AllIn(s, Digit)
  PROVE  Number(s) \in 0..(TenTo[Len(s)] - 1)
<1> DEFINE n == Len(s)
           f == Counted(s)
           T == {i \in Nat : i <= n => f[i] \in 0..(TenTo[i] - 1)}
<1>1. n \in Nat /\ DOMAIN s = 1..n
  BY TextTypes
<1>2. /\ Number(s) = f[n] /\ f[0] = 0
      /\ \A i \in 1..n : f[i] = f[i - 1] * 10 + DigitValue[s[i]]
  BY CountedProperties
<1> HIDE DEF f, n
<1>3. T \in SUBSET Nat /\ 0 \in T
  BY <1>2, PowersOfTen
<1>4. ASSUME NEW i \in T PROVE i + 1 \in T
  <2> SUFFICES ASSUME i + 1 <= n PROVE f[i + 1] \in 0..(TenTo[i + 1] - 1)
    BY <1>4
  <2>1. i \in Nat /\ i <= n /\ i + 1 \in 1..n /\ (i + 1) - 1 = i
    BY <1>1
  <2>2. f[i] \in 0..(TenTo[i] - 1) /\ TenTo[i] \in Nat /\ TenTo[i + 1] = 10 * TenTo[i]
    BY <1>4, <2>1, PowersOfTen
  <2>3. DigitValue[s[i + 1]] \in 0..9
    BY <1>1, <2>1, DigitValues DEF AllIn
  <2>4. f[i + 1] = f[i] * 10 + DigitValue[s[i + 1]]
    BY <1>2, <2>1
  <2>5. \A p \in Nat : \A x \in 0..(p - 1), d \in 0..9 : x * 10 + d \in 0..(10 * p - 1)
    OBVIOUS
  <2> QED BY ONLY <2>2, <2>3, <2>4, <2>5
<1> HIDE DEF T
<1>5. T = Nat
  BY <1>3, <1>4, SetInduction
<1>6. n \in T /\ n <= n
  BY <1>1, <1>5
<1> QED BY <1>2, <1>6 DEF T, n

LEMMA NanosInRange ==
  ASSUME NEW s \in Texts, AllIn(s, Digit)
  PROVE  Nanos(s) \in 0..(TenTo[NanoDigits] - 1)
<1>1. Len(s) \in Nat /\ NanoDigits \in Nat /\ NanoDigits >= 1
  BY TextTypes, NanoAssumption
<1>2. CASE Len(s) >= NanoDigits
  <2> DEFINE c == SubSeq(s, 1, NanoDigits)
  <2>1. c \in Texts /\ Len(c) = NanoDigits
    BY <1>1, <1>2, SubSeqProperties DEF Texts
  <2>2. \A i \in 1..NanoDigits : s[i] \in Digit
    BY <1>1, <1>2, TextTypes DEF AllIn
  <2>3. 1 \in Nat \ {0} /\ NanoDigits \in Int /\ NanoDigits <= Len(s)
    BY <1>1, <1>2
  <2>4. AllIn(c, Digit)
    BY <2>2, <2>3, AllInPart
  <2>5. Nanos(s) = Number(c)
    BY <1>2 DEF Nanos
  <2> HIDE DEF c
  <2> QED BY <2>1, <2>4, <2>5, NumberIsSmall
<1>3. CASE ~(Len(s) >= NanoDigits)
  <2> DEFINE k == NanoDigits - Len(s)
  <2>1. k \in Nat /\ Len(s) + k = NanoDigits
    BY <1>1, <1>3
  <2>2. Nanos(s) = Number(s) * TenTo[k]
    BY <1>3 DEF Nanos
  <2>3. Number(s) \in 0..(TenTo[Len(s)] - 1)
    BY NumberIsSmall
  <2>4. TenTo[Len(s)] \in Nat /\ TenTo[k] \in Nat \ {0} /\ TenTo[Len(s)] * TenTo[k] = TenTo[Len(s) + k]
    BY <1>1, <2>1, PowersOfTen, PowersAdd
  <2> HIDE DEF k
  <2>5. \A p \in Nat, q \in Nat \ {0} : \A x \in 0..(p - 1) : x * q \in 0..(p * q - 1)
    <3> SUFFICES ASSUME NEW p \in Nat, NEW q \in Nat \ {0}, NEW x \in 0..(p - 1) PROVE x * q \in 0..(p * q - 1)
      OBVIOUS
    <3>1. x * q \in Nat /\ p * q \in Nat
      OBVIOUS
    <3>2. (p - x) \in Nat \ {0}
      OBVIOUS
    <3>3. (p - x) * q >= 1
      <4>1. \A y, z \in Nat \ {0} : y * z >= 1
        OBVIOUS
      <4> QED BY ONLY <3>2, <4>1
    <3>4. (p - x) * q = p * q - x * q
      OBVIOUS
    <3>5. \A a, b, c \in Int : c >= 1 /\ c = a - b => b <= a - 1
      OBVIOUS
    <3>6. x * q <= p * q - 1
      BY ONLY <3>1, <3>3, <3>4, <3>5
    <3> QED BY ONLY <3>1, <3>6
  <2>6. Number(s) * TenTo[k] \in 0..(TenTo[Len(s)] * TenTo[k] - 1)
    BY ONLY <2>3, <2>4, <2>5
  <2> QED BY ONLY <2>1, <2>2, <2>4, <2>6
<1> QED BY <1>2, <1>3

-----------------------------------------------------------------------------
(***************************************************************************)
(* Dates that exist.                                                       *)
(***************************************************************************)
\* A year in which the rule of MaxDay adds a day is one by which the calendar gains one.
LEMMA LeapYears ==
  ASSUME NEW y \in Int
  PROVE  DaysThrough(y) - DaysThrough(y - 1) - 365
           = IF y % 4 = 0 /\ (y % 100 # 0 \/ y % 400 = 0) THEN 1 ELSE 0
<1>1. y \div 4 - (y - 1) \div 4 = IF y % 4 = 0 THEN 1 ELSE 0
  OBVIOUS
<1>2. y \div 100 - (y - 1) \div 100 = IF y % 100 = 0 THEN 1 ELSE 0
  OBVIOUS
<1>3. y \div 400 - (y - 1) \div 400 = IF y % 400 = 0 THEN 1 ELSE 0
  OBVIOUS
<1>4. (y % 400 = 0 => y % 100 = 0) /\ (y % 100 = 0 => y % 4 = 0)
  OBVIOUS
<1> DEFINE a == y \div 4
           b == (y - 1) \div 4
           c == y \div 100
           d == (y - 1) \div 100
           e == y \div 400
           f == (y - 1) \div 400
<1>5. a \in Int /\ b \in Int /\ c \in Int /\ d \in Int /\ e \in Int /\ f \in Int
  OBVIOUS
<1>6. DaysThrough(y) = 365 * y + a - c + e /\ DaysThrough(y - 1) = 365 * (y - 1) + b - d + f
  BY DEF DaysThrough
<1> HIDE DEF a, b, c, d, e, f
<1>7. DaysThrough(y) - DaysThrough(y - 1) - 365 = (a - b) - (c - d) + (e - f)
  BY <1>5, <1>6
<1>8. /\ a - b = IF y % 4 = 0 THEN 1 ELSE 0
      /\ c - d = IF y % 100 = 0 THEN 1 ELSE 0
      /\ e - f = IF y % 400 = 0 THEN 1 ELSE 0
  BY <1>1, <1>2, <1>3 DEF a, b, c, d, e, f
<1> QED BY ONLY <1>4, <1>5, <1>7, <1>8

LEMMA MonthLengths ==
  ASSUME NEW d, d.year \in Int, d.month \in 1..12, d.day \in Int,
         1 <= d.day, d.day <= MaxDay(d.year, d.month)
  PROVE  DateIsReal(d)
<1> DEFINE y == d.year
           m == d.month
           leap == DaysThrough(y) - DaysThrough(y - 1) - 365
           End(k) == IF k = 0 THEN 0 ELSE MonthEnds[k] + (IF k >= 2 THEN leap ELSE 0)
<1>1. leap = IF y % 4 = 0 /\ (y % 100 # 0 \/ y % 400 = 0) THEN 1 ELSE 0
  BY LeapYears
<1>2. DateIsReal(d) <=> m \in 1..12 /\ d.day \in 1..(End(m) - End(m - 1))
  BY DEF DateIsReal
<1>3. MaxDay(y, m) = daysInMonth[m] + (IF m = 2 THEN leap ELSE 0)
  <2>1. daysInMonth[2] = 28
    BY DEF daysInMonth
  <2>2. leap \in Int /\ daysInMonth[m] \in Int
    BY <1>1 DEF daysInMonth
  <2> HIDE DEF leap, m, y
  <2>3. CASE m = 2
    BY <1>1, <2>1, <2>2, <2>3 DEF MaxDay
  <2>4. CASE m # 2
    <3>1. MaxDay(y, m) = daysInMonth[m]
      BY <2>4 DEF MaxDay
    <3> QED BY <2>2, <2>4, <3>1
  <2> QED BY <2>3, <2>4
<1> HIDE DEF leap, y
<1>4. leap \in 0..1
  <2>1. leap = 0 \/ leap = 1
    BY Zenon, <1>1
  <2> QED BY ONLY <2>1
<1>5. End(m) - End(m - 1) = daysInMonth[m] + (IF m = 2 THEN leap ELSE 0)
  <2>1. ASSUME NEW k \in 1..12 PROVE End(k) - End(k - 1) = daysInMonth[k] + (IF k = 2 THEN leap ELSE 0)
    BY <1>4 DEF MonthEnds, daysInMonth
  <2> QED BY <2>1
<1>6. End(m) - End(m - 1) = MaxDay(y, m)
  BY <1>3, <1>5
<1>7. MaxDay(y, m) \in 28..31
  BY MaxDayIsInt
<1>8. d.day \in 1..MaxDay(y, m)
  <2>1. \A x, z \in Int : 1 <= x /\ x <= z => x \in 1..z
    OBVIOUS
  <2> QED BY <1>7, <2>1 DEF y
<1> QED BY <1>2, <1>6, <1>8

\* decodeDate: what is decoded is the date of the text, and it exists.
LEMMA DecodedDates ==
  ASSUME NEW t \in Texts, decodeDate(t).ok
  PROVE  decodeDate(t) = Decoded(DateOf(t)) /\ DateIsReal(DateOf(t))
<1> DEFINE Bad == \/ Len(t) # 10
                  \/ t[5] \notin isDateSep \/ t[8] # t[5]
                  \/ \E i \in 1..4 : t[i] \notin Digit
                  \/ ~validMonth(t, 6) \/ ~validDay(t, 9)
                  \/ DateOf(t).day > MaxDay(DateOf(t).year, DateOf(t).month)
<1>1. Bad => decodeDate(t) = Rejected
  BY DEF decodeDate
<1>2. ~Bad
  BY <1>1, AnswerFields
<1>3. decodeDate(t) = Decoded(DateOf(t))
  BY <1>2 DEF decodeDate
<1> DEFINE d == DateOf(t)
<1>4. d.year = Number(SubSeq(t, 1, 4)) /\ d.month \in 1..12 /\ d.day \in 1..31
  BY <1>2 DEF DateOf, validMonth, validDay
<1>5. d.year \in Nat
  <2>1. 1 \in Nat \ {0} /\ 4 \in Int /\ 4 <= Len(t)
    BY <1>2
  <2>2. AllIn(SubSeq(t, 1, 4), Digit)
    BY <1>2, <2>1, AllInPart
  <2>3. SubSeq(t, 1, 4) \in Texts
    BY <1>2 DEF Texts
  <2> QED BY <1>4, <2>2, <2>3, NumbersAreInts
<1>6. ~(d.day > MaxDay(d.year, d.month))
  BY <1>2
<1>7. MaxDay(d.year, d.month) \in 28..31
  BY <1>4, MaxDayIsInt
<1> HIDE DEF d, Bad
<1>8. d.year \in Int /\ d.day \in Int /\ 1 <= d.day /\ d.day <= MaxDay(d.year, d.month)
  BY <1>4, <1>5, <1>6, <1>7
<1>9. DateIsReal(d)
  BY <1>4, <1>8, MonthLengths
<1> QED BY <1>3, <1>9 DEF d

-----------------------------------------------------------------------------
(***************************************************************************)
(* Times of day, offsets and durations.                                    *)
(***************************************************************************)
LEMMA ClocksAreChecked ==
  ASSUME NEW t, NEW i, NEW nanos \in 0..(TenTo[NanoDigits] - 1),
         validHour(t, i), validMinSec(t, i + 3), validMinSec(t, i + 6)
  PROVE  ClockIsReal(ClockOf(t, i, nanos))
BY DEF ClockIsReal, ClockOf, validHour, validMinSec

\* The characters from a to b are a text.
LEMMA PartOfText ==
  ASSUME NEW t \in Texts, NEW a \in Nat \ {0}, NEW b \in Int, b <= Len(t)
  PROVE  SubSeq(t, a, b) \in Texts
<1>1. Len(t) \in Nat /\ \A i \in 1..Len(t) : t[i] \in Letter
  BY TextTypes
<1>2. \A i \in a..b : i \in 1..Len(t)
  BY <1>1
<1>3. \A i \in a..b : t[i] \in Letter
  BY <1>1, <1>2
<1>4. a \in Int /\ b \in Int
  OBVIOUS
<1> QED BY <1>3, <1>4, SubSeqProperties DEF Texts

LEMMA DecodedTimes ==
  ASSUME NEW t \in Texts, decodeTime(t).ok
  PROVE  ClockIsReal(decodeTime(t).value)
<1> DEFINE Bad == \/ Len(t) < 8 \/ Len(t) > 9 + NanoDigits
                  \/ t[3] # ":" \/ t[6] # ":"
                  \/ ~validHour(t, 1) \/ ~validMinSec(t, 4) \/ ~validMinSec(t, 7)
                  \/ Len(t) > 8 /\ t[9] # "."
                  \/ Len(t) = 9
                  \/ \E i \in 10..Len(t) : t[i] \notin Digit
<1>1. Bad => decodeTime(t) = Rejected
  BY DEF decodeTime
<1>2. ~Bad
  BY <1>1, AnswerFields
<1>3. decodeTime(t) = Decoded(ClockOf(t, 1, Nanos(From(t, 10))))
  BY <1>2 DEF decodeTime
<1>4. Len(t) \in Nat /\ 10 \in Nat \ {0} /\ Len(t) \in Int /\ Len(t) <= Len(t)
  BY TextTypes
<1>5. From(t, 10) \in Texts
  BY <1>4, PartOfText DEF From
<1>6. AllIn(From(t, 10), Digit)
  BY <1>2, <1>4, AllInFrom
<1>7. Nanos(From(t, 10)) \in 0..(TenTo[NanoDigits] - 1)
  BY <1>5, <1>6, NanosInRange
<1>8. validHour(t, 1) /\ validMinSec(t, 1 + 3) /\ validMinSec(t, 1 + 6)
  BY <1>2
<1> HIDE DEF Bad
<1>9. ClockIsReal(ClockOf(t, 1, Nanos(From(t, 10))))
  BY <1>7, <1>8, ClocksAreChecked
<1> QED BY <1>3, <1>9, AnswerFields

LEMMA Sixtieths ==
  ASSUME NEW n \in Nat, NEW k \in 0..(n - 1), NEW m \in 0..59
  PROVE  k * 60 + m \in 0..(n * 60 - 1)
OBVIOUS

LEMMA LessThanADay ==
  ASSUME NEW h \in 0..23, NEW m \in 0..59
  PROVE  h * Hour + m * Minute \in 0..(Day - 1)
<1> DEFINE n == 24 * 60
           k == h * 60 + m
<1>1. n \in Nat /\ k \in 0..(n - 1)
  OBVIOUS
<1>2. h * Hour + m * Minute = k * 60 + 0
  BY DEF Hour, Minute
<1>3. Day = n * 60
  BY DEF Day, Hour, Minute
<1>4. 0 \in 0..59
  OBVIOUS
<1> HIDE DEF n, k
<1>5. k * 60 + 0 \in 0..(n * 60 - 1)
  BY ONLY <1>1, <1>4, Sixtieths
<1> QED BY <1>2, <1>3, <1>5

LEMMA DayIsNat == Day \in Nat \ {0} /\ 0 \in (1 - Day)..(Day - 1)
<1>1. Day \in Nat /\ Day >= 1
  BY DEF Day, Hour, Minute
<1> QED BY <1>1

LEMMA EitherSign ==
  ASSUME NEW d \in Int, NEW n \in 0..(d - 1)
  PROVE  (-1) * n \in (1 - d)..(d - 1) /\ 1 * n \in (1 - d)..(d - 1)
OBVIOUS

LEMMA OffsetsAreChecked ==
  ASSUME NEW z \in Texts, NEW required \in BOOLEAN, NEW allowed \in BOOLEAN,
         ~ZoneRefused(z, required, allowed), z # <<>>
  PROVE  OffsetOf(z) \in (1 - Day)..(Day - 1)
<1>1. CASE z[1] = "Z"
  <2>1. OffsetOf(z) = 0
    BY <1>1 DEF OffsetOf
  <2> QED BY <2>1, DayIsNat
<1>2. CASE z[1] # "Z"
  <2> DEFINE n == TwoDigits(z, 2) * Hour + TwoDigits(z, 5) * Minute
  <2>1. validHour(z, 2) /\ validMinSec(z, 5)
    BY <1>2 DEF ZoneRefused
  <2>2. n \in 0..(Day - 1)
    BY <2>1, LessThanADay DEF validHour, validMinSec
  <2>3. OffsetOf(z) = (IF z[1] = "-" THEN -1 ELSE 1) * n
    BY <1>2 DEF OffsetOf
  <2> HIDE DEF n
  <2>4. (-1) * n \in (1 - Day)..(Day - 1) /\ 1 * n \in (1 - Day)..(Day - 1)
    BY <2>2, DayIsNat, EitherSign
  <2>5. CASE z[1] = "-"
    BY <2>3, <2>4, <2>5
  <2>6. CASE z[1] # "-"
    BY <2>3, <2>4, <2>6
  <2> QED BY <2>5, <2>6
<1> QED BY <1>1, <1>2

(***************************************************************************)
(* decodeTimestamp, decodeDatetime, decodeDatetimeTZ: where the fraction   *)
(* ends, what they refuse and what they read.                              *)
(***************************************************************************)
FractionEnd(t) == IF At(t, 20) = "." THEN AfterDigits(t, 21) - 1 ELSE 19
ZonePart(t) == From(t, FractionEnd(t) + 1)
DateTimeRefused(t, shortest, longest, required, allowed) ==
  \/ Len(t) \notin shortest..longest
  \/ ~decodeDate(SubSeq(t, 1, 10)).ok
  \/ t[11] \notin isDateTimeSep
  \/ t[14] # ":" \/ t[17] # ":"
  \/ ~validHour(t, 12) \/ ~validMinSec(t, 15) \/ ~validMinSec(t, 18)
  \/ At(t, 20) = "." /\ FractionEnd(t) = 20
  \/ ZoneRefused(ZonePart(t), required, allowed)
NanosRead(t) == Nanos(SubSeq(t, 21, FractionEnd(t)))
OffsetRead(t) == IF ZonePart(t) = <<>> THEN 0 ELSE OffsetOf(ZonePart(t))
DateTimeRead(t) == [date |-> DateOf(t), clock |-> ClockOf(t, 12, NanosRead(t)), offset |-> OffsetRead(t)]

LEMMA DateTimeCases ==
  ASSUME NEW t, NEW shortest, NEW longest, NEW required, NEW allowed
  PROVE  /\ DateTimeRefused(t, shortest, longest, required, allowed)
              => decodeDateTime(t, shortest, longest, required, allowed) = Rejected
         /\ ~DateTimeRefused(t, shortest, longest, required, allowed)
              => decodeDateTime(t, shortest, longest, required, allowed) = Decoded(DateTimeRead(t))
BY DEF decodeDateTime, ZoneRefused, DateTimeRefused, DateTimeRead, NanosRead, OffsetRead, ZonePart, FractionEnd

\* The fraction ends within the text, and is of digits.
LEMMA FractionPart ==
  ASSUME NEW t \in Texts, Len(t) >= 19
  PROVE  /\ FractionEnd(t) \in Int /\ FractionEnd(t) + 1 \in 20..(Len(t) + 1) /\ FractionEnd(t) <= Len(t)
         /\ \A i \in 21..FractionEnd(t) : t[i] \in Digit
<1>1. Len(t) \in Nat /\ Len(t) >= 19
  BY TextTypes
<1>2. CASE At(t, 20) = "."
  <2>1. 20 \in 1..Len(t)
    BY <1>2, AtProperties DEF NoChar
  <2>2. 21 \in 1..(Len(t) + 1)
    BY <1>1, <2>1
  <2>3. AfterDigits(t, 21) \in 21..(Len(t) + 1) /\ \A i \in 21..(AfterDigits(t, 21) - 1) : t[i] \in Digit
    BY <2>2, AfterDigitsProperties
  <2>4. FractionEnd(t) = AfterDigits(t, 21) - 1
    BY <1>2 DEF FractionEnd
  <2> QED BY <1>1, <2>3, <2>4
<1>3. CASE At(t, 20) # "."
  <2>1. FractionEnd(t) = 19 /\ 21..19 = {}
    BY <1>3 DEF FractionEnd
  <2> QED BY <1>1, <2>1
<1> QED BY <1>2, <1>3

LEMMA DecodedDateTimes ==
  ASSUME NEW t \in Texts, NEW shortest \in Nat, NEW longest \in Nat, shortest >= 19,
         NEW required \in BOOLEAN, NEW allowed \in BOOLEAN,
         decodeDateTime(t, shortest, longest, required, allowed).ok
  PROVE  LET v == decodeDateTime(t, shortest, longest, required, allowed).value
         IN DateIsReal(v.date) /\ ClockIsReal(v.clock) /\ v.offset \in (1 - Day)..(Day - 1)
<1>1. ~DateTimeRefused(t, shortest, longest, required, allowed)
  BY DateTimeCases, AnswerFields
<1>2. decodeDateTime(t, shortest, longest, required, allowed).value = DateTimeRead(t)
  BY <1>1, DateTimeCases, AnswerFields
<1>3. /\ Len(t) \in shortest..longest
      /\ decodeDate(SubSeq(t, 1, 10)).ok
      /\ validHour(t, 12) /\ validMinSec(t, 15) /\ validMinSec(t, 18)
      /\ ~ZoneRefused(ZonePart(t), required, allowed)
  BY <1>1 DEF DateTimeRefused
<1>4. Len(t) \in Nat /\ Len(t) >= 19
  BY <1>3, TextTypes
<1>5. /\ FractionEnd(t) \in Int /\ FractionEnd(t) + 1 \in 20..(Len(t) + 1) /\ FractionEnd(t) <= Len(t)
      /\ \A i \in 21..FractionEnd(t) : t[i] \in Digit
  BY <1>4, FractionPart
<1>6. DateIsReal(DateOf(t))
  <2>1. Len(t) >= 10
    BY <1>4
  <2>2. SubSeq(t, 1, 10) \in Texts
    BY <1>4, PartOfText
  <2>3. DateIsReal(DateOf(SubSeq(t, 1, 10)))
    BY <1>3, <2>2, DecodedDates
  <2> QED BY <2>1, <2>3, DateOfStart
<1>7. NanosRead(t) \in 0..(TenTo[NanoDigits] - 1)
  <2>1. 21 \in Nat \ {0}
    OBVIOUS
  <2>2. SubSeq(t, 21, FractionEnd(t)) \in Texts /\ AllIn(SubSeq(t, 21, FractionEnd(t)), Digit)
    BY <1>5, <2>1, PartOfText, AllInPart
  <2> QED BY <2>2, NanosInRange DEF NanosRead
<1>8. OffsetRead(t) \in (1 - Day)..(Day - 1)
  <2>1. FractionEnd(t) + 1 \in Nat \ {0} /\ Len(t) \in Int /\ Len(t) <= Len(t)
    BY <1>4, <1>5
  <2>2. ZonePart(t) \in Texts
    BY <2>1, PartOfText DEF From, ZonePart
  <2>3. ZonePart(t) # <<>> => OffsetOf(ZonePart(t)) \in (1 - Day)..(Day - 1)
    BY <1>3, <2>2, OffsetsAreChecked
  <2> QED BY <2>3, DayIsNat DEF OffsetRead
<1>9. ClockIsReal(ClockOf(t, 12, NanosRead(t)))
  <2>1. validHour(t, 12) /\ validMinSec(t, 12 + 3) /\ validMinSec(t, 12 + 6)
    BY <1>3
  <2> QED BY <1>7, <2>1, ClocksAreChecked
<1>10. /\ DateTimeRead(t).date = DateOf(t)
       /\ DateTimeRead(t).clock = ClockOf(t, 12, NanosRead(t))
       /\ DateTimeRead(t).offset = OffsetRead(t)
  BY DEF DateTimeRead
<1> QED BY <1>2, <1>6, <1>8, <1>9, <1>10

(***************************************************************************)
(* No part of a duration is negative, unless an int does not hold its      *)
(* digits: PartRead by PartRead from the end of the text, as the loops     *)
(* agree.                                                                  *)
(***************************************************************************)
WholeDurations == [days : Nat, hours : Nat, minutes : Nat, seconds : Nat, nanos : Nat]
WholeAnswers == {Rejected} \cup {Decoded(e) : e \in WholeDurations}
NumbersFit(t) == ~\E i \in DOMAIN t : Number(SubSeq(t, i, AfterDigits(t, i) - 1)) > MaxInt

LEMMA WholeParts ==
  /\ WholeDurations \subseteq Durations
  /\ \A d \in WholeDurations, v \in Nat : [d EXCEPT !.hours = v] \in WholeDurations
  /\ \A d \in WholeDurations, v \in Nat : [d EXCEPT !.minutes = v] \in WholeDurations
  /\ \A d \in WholeDurations, v \in Nat : [d EXCEPT !.seconds = v] \in WholeDurations
  /\ \A d \in WholeDurations, v \in Nat, w \in Nat : [d EXCEPT !.seconds = v, !.nanos = w] \in WholeDurations
  /\ \A v \in Nat : [NoDuration EXCEPT !.days = v] \in WholeDurations
  /\ \A d \in WholeDurations : \A part \in DOMAIN NoDuration : d[part] >= 0
<1>1. WholeDurations \subseteq Durations
  BY DEF WholeDurations, Durations
<1>2. ASSUME NEW d \in WholeDurations, NEW v \in Nat, NEW w \in Nat
      PROVE  /\ [d EXCEPT !.hours = v] \in WholeDurations
             /\ [d EXCEPT !.minutes = v] \in WholeDurations
             /\ [d EXCEPT !.seconds = v] \in WholeDurations
             /\ [d EXCEPT !.seconds = v, !.nanos = w] \in WholeDurations
  BY DEF WholeDurations
<1>3. \A v \in Nat : [NoDuration EXCEPT !.days = v] \in WholeDurations
  BY DEF WholeDurations, NoDuration
<1>4. DOMAIN NoDuration = {"days", "hours", "minutes", "seconds", "nanos"}
  BY DEF NoDuration
<1>5. \A d \in WholeDurations : d.days >= 0 /\ d.hours >= 0 /\ d.minutes >= 0 /\ d.seconds >= 0 /\ d.nanos >= 0
  BY DEF WholeDurations
<1> QED BY <1>1, <1>2, <1>3, <1>4, <1>5

LEMMA SmallRemainder == \A a \in Nat, b \in Nat \ {0} : a < b => a % b = a
OBVIOUS

LEMMA FittingIsKept ==
  ASSUME NEW n \in Nat, n <= MaxInt
  PROVE  Wrapped(n) = n
<1> DEFINE m == MaxInt + 1
           a == n + MaxInt + 1
<1>1. MaxInt \in Nat
  BY WidthAssumption
<1>2. m \in Nat \ {0} /\ 2 * m \in Nat \ {0} /\ a \in Nat /\ a < 2 * m /\ a - m = n
  BY <1>1
<1>3. Wrapped(n) = (a % (2 * m)) - m
  BY DEF Wrapped
<1> HIDE DEF a, m
<1>4. a % (2 * m) = a
  BY <1>2, SmallRemainder
<1> QED BY <1>2, <1>3, <1>4

LEMMA FittingDigits ==
  ASSUME NEW t \in Texts, NumbersFit(t), NEW i \in 1..Len(t)
  PROVE  Wrapped(Number(SubSeq(t, i, AfterDigits(t, i) - 1))) \in Nat
<1> DEFINE s == SubSeq(t, i, AfterDigits(t, i) - 1)
<1>1. Len(t) \in Nat /\ DOMAIN t = 1..Len(t)
  BY TextTypes
<1>2. i \in 1..(Len(t) + 1)
  BY <1>1
<1>3. /\ AfterDigits(t, i) \in i..(Len(t) + 1)
      /\ \A q \in i..(AfterDigits(t, i) - 1) : t[q] \in Digit
  BY <1>2, AfterDigitsProperties
<1>4. i \in Nat \ {0} /\ AfterDigits(t, i) - 1 \in Int /\ AfterDigits(t, i) - 1 <= Len(t)
  BY <1>1, <1>3
<1>5. s \in Texts /\ AllIn(s, Digit)
  BY <1>3, <1>4, PartOfText, AllInPart
<1>6. ~(Number(s) > MaxInt)
  BY <1>1 DEF NumbersFit
<1> HIDE DEF s
<1>7. Number(s) \in Nat /\ MaxInt \in Nat
  BY <1>5, NumbersAreInts, WidthAssumption
<1>8. Number(s) <= MaxInt
  BY <1>6, <1>7
<1>9. Wrapped(Number(s)) \in Nat
  BY <1>7, <1>8, FittingIsKept
<1> QED BY <1>9 DEF s

LEMMA PartIsWhole ==
  ASSUME NEW t \in Texts, NumbersFit(t), NEW i \in 1..(Len(t) + 1),
         \A m \in (i + 1)..(Len(t) + 1) : \A d \in WholeDurations : PartsRead(t)[m][d] \in WholeAnswers
  PROVE  \A d \in WholeDurations : PartsRead(t)[i][d] \in WholeAnswers
<1> DEFINE j == AfterDigits(t, i)
           k == AfterDigits(t, j + 1)
           val == Wrapped(Number(SubSeq(t, i, j - 1)))
           nanos == Nanos(SubSeq(t, j + 1, k - 1))
           r == PartsRead(t)
           n == Len(t)
           Then(e) == IF j = n THEN Decoded(e) ELSE r[j + 1][e]
<1> TAKE d \in WholeDurations
<1>1. n \in Nat
  BY TextTypes
<1>2. j \in i..(n + 1)
  BY AfterDigitsProperties
<1>3. d \in Durations
  BY WholeParts
<1>4. r[i][d] = IF j = i \/ j > n THEN Rejected
                ELSE IF t[j] = "H" THEN Then([d EXCEPT !.hours = val])
                ELSE IF t[j] = "M" THEN Then([d EXCEPT !.minutes = val])
                ELSE IF t[j] = "S" /\ j = n THEN Decoded([d EXCEPT !.seconds = val])
                ELSE IF t[j] = "." /\ k > j + 1 /\ k = n /\ t[k] = "S"
                THEN Decoded([d EXCEPT !.seconds = val, !.nanos = nanos])
                ELSE Rejected
  <2>1. r[i] = PartRead(t, r, i)
    BY PartsUnfold
  <2> QED BY <1>3, <2>1 DEF PartRead
<1>5. Rejected \in WholeAnswers /\ \A e \in WholeDurations : Decoded(e) \in WholeAnswers
  BY DEF WholeAnswers
<1>6. CASE j = i \/ j > n
  BY <1>4, <1>5, <1>6
<1>7. CASE ~(j = i \/ j > n)
  <2>1. i \in 1..n /\ j \in 1..n /\ j + 1 \in 1..(n + 1) /\ (j # n => j + 1 \in (i + 1)..(n + 1))
    <3> HIDE DEF j, n
    <3> QED BY <1>1, <1>2, <1>7
  <2>2. val \in Nat
    BY <2>1, FittingDigits
  <2>3. nanos \in Nat
    <3>1. k \in (j + 1)..(n + 1) /\ \A q \in (j + 1)..(k - 1) : t[q] \in Digit
      BY <2>1, AfterDigitsProperties
    <3> HIDE DEF k, j
    <3>2. j + 1 \in Nat \ {0} /\ k - 1 \in Int /\ k - 1 <= n
      BY <1>1, <2>1, <3>1
    <3>3. SubSeq(t, j + 1, k - 1) \in Texts /\ AllIn(SubSeq(t, j + 1, k - 1), Digit)
      BY <3>1, <3>2, PartOfText, AllInPart
    <3>4. nanos \in 0..(TenTo[NanoDigits] - 1)
      BY <3>3, NanosInRange
    <3>5. NanoDigits \in Nat
      BY NanoAssumption
    <3>6. TenTo[NanoDigits] \in Nat
      BY <3>5, PowersOfTen
    <3> HIDE DEF nanos
    <3> QED BY ONLY <3>4, <3>6
  <2>4. \A e \in WholeDurations : j # n => r[j + 1][e] \in WholeAnswers
    BY <2>1
  <2> HIDE DEF val, nanos, r, j, k, n
  <2>5. \A e \in WholeDurations : Then(e) \in WholeAnswers
    BY <1>5, <2>4
  <2>6. /\ [d EXCEPT !.hours = val] \in WholeDurations
        /\ [d EXCEPT !.minutes = val] \in WholeDurations
        /\ [d EXCEPT !.seconds = val] \in WholeDurations
        /\ [d EXCEPT !.seconds = val, !.nanos = nanos] \in WholeDurations
    BY <2>2, <2>3, WholeParts
  <2> HIDE DEF Then
  <2>7. r[i][d] \in WholeAnswers
    BY <1>4, <1>5, <2>5, <2>6
  <2> QED BY <2>7 DEF r
<1> QED BY <1>6, <1>7

LEMMA AllPartsAreWhole ==
  ASSUME NEW t \in Texts, NumbersFit(t), NEW i \in 1..(Len(t) + 1)
  PROVE  \A d \in WholeDurations : PartsRead(t)[i][d] \in WholeAnswers
<1> DEFINE n == Len(t) + 1
           Whole(k) == \A d \in WholeDurations : PartsRead(t)[k][d] \in WholeAnswers
           T == {m \in Nat : \A k \in 1..n : k > n - m => Whole(k)}
<1>1. n \in Nat /\ n >= 1
  BY TextTypes
<1>2. T \in SUBSET Nat
  OBVIOUS
<1>3. 0 \in T
  <2>1. \A k \in 1..n : ~(k > n - 0)
    BY <1>1
  <2> HIDE DEF Whole
  <2> QED BY <2>1
<1>4. ASSUME NEW m \in T PROVE m + 1 \in T
  <2> SUFFICES ASSUME NEW k \in 1..n, k > n - (m + 1) PROVE Whole(k)
    BY <1>4
  <2>1. \A l \in (k + 1)..n : l \in 1..n /\ l > n - m
    <3>1. m \in Nat
      OBVIOUS
    <3> HIDE DEF T, n
    <3> QED BY <1>1, <3>1
  <2>2. \A l \in (k + 1)..n : Whole(l)
    <3> HIDE DEF Whole
    <3> QED BY <1>4, <2>1
  <2> QED BY <2>2, PartIsWhole
<1> HIDE DEF T, Whole
<1>5. T = Nat
  BY <1>2, <1>3, <1>4, SetInduction
<1>6. n \in T /\ i > n - n
  BY <1>1, <1>5
<1>7. Whole(i)
  BY <1>6 DEF T
<1> QED BY <1>7 DEF Whole

LEMMA DecodedDurations ==
  ASSUME NEW t \in Texts, NumbersFit(t), decodeDuration(t).ok
  PROVE  \A part \in DOMAIN NoDuration : decodeDuration(t).value[part] >= 0
<1> DEFINE days == AfterDigits(t, 2)
           hasDays == days > 2 /\ At(t, days) = "D"
           first == IF hasDays THEN Wrapped(Number(SubSeq(t, 2, days - 1))) ELSE 0
           start == [NoDuration EXCEPT !.days = first]
           i == IF hasDays THEN days + 1 ELSE days
           r == PartsRead(t)
           n == Len(t)
<1>1. n \in Nat
  BY TextTypes
<1>2. decodeDuration(t) = IF n < 2 \/ t[1] # "P" THEN Rejected
                          ELSE IF hasDays /\ i > n THEN Decoded(start)
                          ELSE IF At(t, i) = "T" /\ i < n THEN r[i + 1][start]
                          ELSE Rejected
  BY DurationLoops
<1>3. Rejected \in WholeAnswers /\ \A e \in WholeDurations : Decoded(e) \in WholeAnswers
  BY DEF WholeAnswers
<1>4. ~(n < 2) => start \in WholeDurations
  <2>1. ~(n < 2) => 2 \in 1..n
    BY <1>1
  <2>2. ~(n < 2) => Wrapped(Number(SubSeq(t, 2, days - 1))) \in Nat
    BY <2>1, FittingDigits
  <2>3. ~(n < 2) => first \in Nat
    BY <2>2
  <2> HIDE DEF first
  <2> QED BY <2>3, WholeParts
<1>5. ~(n < 2) => days \in 2..(n + 1)
  <2>1. ~(n < 2) => 2 \in 1..(n + 1)
    BY <1>1
  <2> QED BY <2>1, AfterDigitsProperties
<1>6. ~(n < 2) /\ i < n => i + 1 \in 1..(n + 1)
  <2> HIDE DEF days, n
  <2> QED BY <1>1, <1>5
<1>7. ~(n < 2) /\ i < n => r[i + 1][start] \in WholeAnswers
  <2> HIDE DEF i, start
  <2> QED BY <1>4, <1>6, AllPartsAreWhole
<1> HIDE DEF start, i, hasDays, r, n
<1>8. decodeDuration(t) \in WholeAnswers
  BY <1>2, <1>3, <1>4, <1>7
<1>9. PICK e \in WholeDurations : decodeDuration(t) = Decoded(e)
  BY <1>8, AnswerFields DEF WholeAnswers
<1>10. decodeDuration(t).value = e
  BY <1>9, AnswerFields
<1> QED BY <1>10, WholeParts

(***************************************************************************)
(* The three automata for dates with times have one form and differ in     *)
(* their lengths and zones.                                                *)
(***************************************************************************)
FractionStop(t) == IF At(t, 20) = "." THEN AfterDigits(t, 21) ELSE 20
DateTimeForm(t) == /\ DateAtStart(t)
                   /\ t[11] \in isDateTimeSep
                   /\ ClockAt(t, 12)
                   /\ At(t, 20) = "." => FractionStop(t) > 21
ZoneTaken(t) == Zone(From(t, FractionStop(t)))

LEMMA DateTimeForms ==
  ASSUME NEW t, NEW shortest, NEW longest, NEW zones
  PROVE  DateTimeText(t, shortest, longest, zones)
           <=> Len(t) \in shortest..longest /\ DateTimeForm(t) /\ ZoneTaken(t) \in zones
BY DEF DateTimeText, DateTimeForm, ZoneTaken, FractionStop

\* No point comes before the one that a fraction begins with.
LEMMA PointIsFirst ==
  ASSUME NEW t \in Texts, DateTimeForm(t), Len(t) >= 19
  PROVE  \A q \in 1..19 : t[q] # "."
<1>1. Len(t) \in Nat
  BY TextTypes
<1>2. \A q \in 1..4 : t[q] \in Digit
  <2>1. 1 \in Nat \ {0} /\ 4 \in Int /\ 4 <= Len(t)
    BY <1>1
  <2> QED BY <2>1, AllInPart DEF DateTimeForm, DateAtStart
<1>3. t[6] \in Digit /\ t[6 + 1] \in Digit /\ t[9] \in Digit /\ t[9 + 1] \in Digit
  <2>1. validMonth(t, 6) /\ validDay(t, 9)
    BY DEF DateTimeForm, DateAtStart
  <2> QED BY <2>1, TwoDigitsInRange
<1>4. /\ t[12] \in Digit /\ t[12 + 1] \in Digit /\ t[15] \in Digit /\ t[15 + 1] \in Digit
      /\ t[18] \in Digit /\ t[18 + 1] \in Digit
  <2>1. validHour(t, 12) /\ validMinSec(t, 12 + 3) /\ validMinSec(t, 12 + 6)
    BY DEF DateTimeForm, ClockAt
  <2>2. 12 + 3 = 15 /\ 12 + 6 = 18
    OBVIOUS
  <2> QED BY <2>1, <2>2, TwoDigitsInRange
<1>5. t[5] \in isDateSep /\ t[8] \in isDateSep /\ t[11] \in isDateTimeSep /\ t[14] = ":" /\ t[17] = ":"
  <2>1. \A q \in 1..19 : q \in 1..Len(t) /\ q \in Int
    BY <1>1
  <2>2. \A q \in 1..19 : At(t, q) = t[q]
    BY <2>1, AtProperties
  <2>3. At(t, 5) = t[5] /\ At(t, 8) = t[8] /\ At(t, 14) = t[14] /\ At(t, 17) = t[17]
    BY <2>2
  <2>4. At(t, 5) \in isDateSep /\ At(t, 8) = t[5] /\ t[11] \in isDateTimeSep
    BY DEF DateTimeForm, DateAtStart
  <2>5. At(t, 12 + 2) = ":" /\ At(t, 12 + 5) = ":"
    BY DEF DateTimeForm, ClockAt
  <2>6. 12 + 2 = 14 /\ 12 + 5 = 17
    OBVIOUS
  <2> QED BY <2>3, <2>4, <2>5, <2>6
<1>6. \A c \in Digit \cup isDateSep \cup isDateTimeSep \cup {":"} : c # "."
  BY DigitSet DEF isDateSep, isDateTimeSep
<1>7. \A q \in 1..19 : q \in 1..4 \/ q \in {5, 6, 7, 8, 9, 10, 11, 12, 13, 14, 15, 16, 17, 18, 19}
  OBVIOUS
<1>8. 6 + 1 = 7 /\ 9 + 1 = 10 /\ 12 + 1 = 13 /\ 15 + 1 = 16 /\ 18 + 1 = 19
  OBVIOUS
<1>9. \A q \in 5..11 : t[q] # "."
  <2>1. \A q \in 5..11 : q \in {5, 6, 7, 8, 9, 10, 11}
    OBVIOUS
  <2> QED BY <1>3, <1>5, <1>6, <1>8, <2>1
<1>10. \A q \in 12..19 : t[q] # "."
  <2>1. \A q \in 12..19 : q \in {12, 13, 14, 15, 16, 17, 18, 19}
    OBVIOUS
  <2> QED BY <1>4, <1>5, <1>6, <1>8, <2>1
<1>11. \A q \in 1..19 : q \in 1..4 \/ q \in 5..11 \/ q \in 12..19
  OBVIOUS
<1> QED BY <1>2, <1>6, <1>9, <1>10, <1>11

\* Where the text ends without a zone, its length is that of its fraction.
LEMMA LengthWithoutZone ==
  ASSUME NEW t \in Texts, DateTimeForm(t), Len(t) >= 19, FractionStop(t) = Len(t) + 1,
         FractionDigits(t) <= NanoDigits
  PROVE  Len(t) <= 20 + NanoDigits
<1>1. Len(t) \in Nat /\ NanoDigits \in Nat
  BY TextTypes, NanoAssumption
<1>2. CASE At(t, 20) = "."
  <2>1. 20 \in 1..Len(t) /\ t[20] = "."
    BY <1>2, AtProperties DEF NoChar
  <2>2. \A q \in 1..(20 - 1) : q \in 1..19
    OBVIOUS
  <2>3. FirstPoint(t, 1, 20)
    BY <2>1, <2>2, PointIsFirst DEF FirstPoint
  <2>4. AfterDigits(t, 20 + 1) - (20 + 1) <= NanoDigits
    BY <2>1, <2>3, ShortText DEF Short
  <2>5. 20 + 1 = 21
    OBVIOUS
  <2>6. AfterDigits(t, 21) = Len(t) + 1
    BY <1>2 DEF FractionStop
  <2>7. (Len(t) + 1) - 21 <= NanoDigits
    BY <2>4, <2>5, <2>6
  <2> QED BY ONLY <1>1, <2>7
<1>3. CASE At(t, 20) # "."
  <2>1. Len(t) + 1 = 20
    BY <1>3 DEF FractionStop
  <2> QED BY ONLY <1>1, <2>1
<1> QED BY <1>2, <1>3

LEMMA TimestampIsEither ==
  ASSUME NEW t \in Texts, FractionDigits(t) <= NanoDigits
  PROVE  ValidateTimestamp(t) <=> ValidateDatetime(t) \/ ValidateDatetimeTZ(t)
<1>1. Len(t) \in Nat /\ NanoDigits \in Nat
  BY TextTypes, NanoAssumption
<1>2. /\ ValidateTimestamp(t) <=> /\ Len(t) \in 19..(26 + NanoDigits) /\ DateTimeForm(t)
                                  /\ ZoneTaken(t) \in {"none", "Z", "offset"}
      /\ ValidateDatetime(t) <=> /\ Len(t) \in 19..(20 + NanoDigits) /\ DateTimeForm(t)
                                 /\ ZoneTaken(t) \in {"none"}
      /\ ValidateDatetimeTZ(t) <=> /\ Len(t) \in 20..(26 + NanoDigits) /\ DateTimeForm(t)
                                   /\ ZoneTaken(t) \in {"Z", "offset"}
  BY DateTimeForms DEF ValidateTimestamp, ValidateDatetime, ValidateDatetimeTZ
<1>3. /\ Len(t) \in 19..(20 + NanoDigits) => Len(t) \in 19..(26 + NanoDigits)
      /\ Len(t) \in 20..(26 + NanoDigits) => Len(t) \in 19..(26 + NanoDigits)
      /\ Len(t) \in 19..(26 + NanoDigits) => Len(t) >= 19
  BY <1>1
<1>4. ASSUME Len(t) >= 19 PROVE FractionStop(t) \in 20..(Len(t) + 1)
  <2>1. CASE At(t, 20) = "."
    <3>1. 20 \in 1..Len(t)
      BY <2>1, AtProperties DEF NoChar
    <3>2. 21 \in 1..(Len(t) + 1)
      BY <1>1, <3>1
    <3>3. AfterDigits(t, 21) \in 21..(Len(t) + 1)
      BY <3>2, AfterDigitsProperties
    <3>4. FractionStop(t) = AfterDigits(t, 21)
      BY <2>1 DEF FractionStop
    <3> QED BY <3>3, <3>4
  <2>2. CASE At(t, 20) # "."
    <3>1. FractionStop(t) = 20
      BY <2>2 DEF FractionStop
    <3> QED BY <1>1, <1>4, <3>1
  <2> QED BY <2>1, <2>2
<1>5. ASSUME Len(t) >= 19 PROVE Len(From(t, FractionStop(t))) = Len(t) - FractionStop(t) + 1
  <2>1. FractionStop(t) \in 1..(Len(t) + 1)
    BY <1>1, <1>4, <1>5
  <2> QED BY <2>1, FromProperties
<1>6. ASSUME Len(t) \in 19..(26 + NanoDigits), DateTimeForm(t), ZoneTaken(t) = "none"
      PROVE  Len(t) \in 19..(20 + NanoDigits)
  <2> DEFINE z == From(t, FractionStop(t))
  <2>1. z = <<>>
    <3>1. CASE z # <<>> /\ z = <<"Z">>
      <4>1. ~IsOffset(z)
        BY <3>1 DEF IsOffset
      <4>2. Zone(z) = "Z"
        BY <3>1, <4>1, ZoneCases
      <4> QED BY <1>6, <4>2 DEF ZoneTaken
    <3>2. CASE z # <<>> /\ z # <<"Z">>
      <4>1. Zone(z) \in {"offset", "bad"}
        BY <3>2, ZoneCases
      <4> QED BY <1>6, <4>1 DEF ZoneTaken
    <3> QED BY <3>1, <3>2
  <2>2. Len(z) = 0
    BY <2>1
  <2>3. Len(t) >= 19
    BY <1>3, <1>6
  <2>4. FractionStop(t) = Len(t) + 1
    BY <1>1, <1>4, <1>5, <2>2, <2>3
  <2>5. Len(t) <= 20 + NanoDigits
    BY <1>6, <2>3, <2>4, LengthWithoutZone
  <2> QED BY ONLY <1>1, <2>3, <2>5
<1>7. ASSUME Len(t) \in 19..(26 + NanoDigits), ZoneTaken(t) \in {"Z", "offset"}
      PROVE  Len(t) \in 20..(26 + NanoDigits)
  <2> DEFINE z == From(t, FractionStop(t))
  <2>1. z # <<>>
    <3>1. Zone(z) # "none"
      BY <1>7 DEF ZoneTaken
    <3> HIDE DEF z
    <3>2. z = <<>> => ~IsOffset(z)
      BY DEF IsOffset
    <3>3. z = <<>> => Zone(z) = "none"
      BY <3>2, ZoneCases
    <3> QED BY <3>1, <3>3
  <2>2. Len(t) >= 19
    BY <1>3, <1>7
  <2>3. FractionStop(t) \in 1..(Len(t) + 1)
    BY <1>1, <1>4, <2>2
  <2>4. z \in Texts
    BY <2>3, FromProperties
  <2>5. Len(z) # 0
    <3> HIDE DEF z
    <3> QED BY <2>1, <2>4, ShortTexts
  <2>6. Len(t) # 19
    <3>1. Len(z) = Len(t) - FractionStop(t) + 1 /\ FractionStop(t) \in 20..(Len(t) + 1)
      BY <1>4, <1>5, <2>2
    <3> HIDE DEF z
    <3>2. \A n \in Nat : \A stop \in 20..(n + 1) : n = 19 => n - stop + 1 = 0
      OBVIOUS
    <3>3. Len(t) = 19 => Len(z) = 0
      BY <1>1, <3>1, <3>2
    <3> QED BY <2>5, <3>3
  <2>7. \A n \in Nat, m \in Nat : n \in 19..(26 + m) /\ n # 19 => n \in 20..(26 + m)
    OBVIOUS
  <2> QED BY <1>1, <1>7, <2>6, <2>7
<1>8. ValidateTimestamp(t) => ValidateDatetime(t) \/ ValidateDatetimeTZ(t)
  BY <1>2, <1>6, <1>7
<1>9. ValidateDatetime(t) \/ ValidateDatetimeTZ(t) => ValidateTimestamp(t)
  BY <1>2, <1>3
<1> QED BY <1>8, <1>9

\* What the decoder makes of a calendar type, by its kind.
LEMMA CalendarValues ==
  ASSUME NEW t \in Texts, t # Null, NEW type
  PROVE  LET answer == Value!decodeScalarValue(t, type)
         IN /\ type.kind = "date" => answer = decodeDate(t)
            /\ type.kind = "time" => answer = decodeTime(t)
            /\ type.kind = "timestamp" => answer = decodeTimestamp(t)
            /\ type.kind = "datetime" => answer = decodeDatetime(t)
            /\ type.kind = "datetimetz" => answer = decodeDatetimeTZ(t)
            /\ type.kind = "duration" => answer = decodeDuration(t)
<1> DEFINE answer == Value!decodeScalarValue(t, type)
<1>1. t # Value!Null
  BY DEF Null, Value!Null
<1>2. ASSUME type.kind = "date" PROVE answer = Value!decodeDate(t)
  BY Zenon, <1>1, <1>2 DEF Value!decodeScalarValue
<1>3. ASSUME type.kind = "time" PROVE answer = Value!decodeTime(t)
  BY Zenon, <1>1, <1>3 DEF Value!decodeScalarValue
<1>4. ASSUME type.kind = "timestamp" PROVE answer = Value!decodeTimestamp(t)
  BY Zenon, <1>1, <1>4 DEF Value!decodeScalarValue
<1>5. ASSUME type.kind = "datetime" PROVE answer = Value!decodeDatetime(t)
  BY Zenon, <1>1, <1>5 DEF Value!decodeScalarValue
<1>6. ASSUME type.kind = "datetimetz" PROVE answer = Value!decodeDatetimeTZ(t)
  BY Zenon, <1>1, <1>6 DEF Value!decodeScalarValue
<1>7. ASSUME type.kind = "duration" PROVE answer = Value!decodeDuration(t)
  BY Zenon, <1>1, <1>7 DEF Value!decodeScalarValue
<1> HIDE DEF answer
<1>8. /\ type.kind = "date" => answer = decodeDate(t)
      /\ type.kind = "time" => answer = decodeTime(t)
      /\ type.kind = "timestamp" => answer = decodeTimestamp(t)
      /\ type.kind = "datetime" => answer = decodeDatetime(t)
      /\ type.kind = "datetimetz" => answer = decodeDatetimeTZ(t)
      /\ type.kind = "duration" => answer = decodeDuration(t)
  BY <1>2, <1>3, <1>4, <1>5, <1>6, <1>7, ValueIsTheSame
<1> QED BY <1>8 DEF answer

\* The three decoders of a date with a time.
LEMMA DecodedTimestamps ==
  ASSUME NEW t \in Texts, NEW answer, answer.ok,
         answer \in {decodeTimestamp(t), decodeDatetime(t), decodeDatetimeTZ(t)}
  PROVE  /\ DateIsReal(answer.value.date) /\ ClockIsReal(answer.value.clock)
         /\ answer.value.offset \in (1 - Day)..(Day - 1)
<1>1. /\ 19 \in Nat /\ 20 \in Nat /\ 19 >= 19 /\ 20 >= 19
      /\ 26 + NanoDigits \in Nat /\ 20 + NanoDigits \in Nat
  BY NanoAssumption
<1>2. TRUE \in BOOLEAN /\ FALSE \in BOOLEAN
  OBVIOUS
<1>3. CASE answer = decodeTimestamp(t)
  <2>1. answer = decodeDateTime(t, 19, 26 + NanoDigits, FALSE, TRUE)
    BY <1>3 DEF decodeTimestamp
  <2> QED BY <1>1, <1>2, <2>1, DecodedDateTimes
<1>4. CASE answer = decodeDatetime(t)
  <2>1. answer = decodeDateTime(t, 19, 20 + NanoDigits, FALSE, FALSE)
    BY <1>4 DEF decodeDatetime
  <2> QED BY <1>1, <1>2, <2>1, DecodedDateTimes
<1>5. CASE answer = decodeDatetimeTZ(t)
  <2>1. answer = decodeDateTime(t, 20, 26 + NanoDigits, TRUE, TRUE)
    BY <1>5 DEF decodeDatetimeTZ
  <2> QED BY <1>1, <1>2, <2>1, DecodedDateTimes
<1> QED BY <1>3, <1>4, <1>5

\* Whatever is typed: a date that is decoded is a day of the calendar, a time of day is one, an
\* offset is less than a day and no part of a duration is negative unless its digits wrap
\* (decode/decode_date.go, decode_time.go, decode_timestamp.go, decode_datetime.go,
\* decode_datetimetz.go, decode_duration.go), and a text is a timestamp exactly when it is a
\* datetime with or without a zone (validate/dfa).
THEOREM DecodedCalendarIsReal == Spec => []CalendarIsReal
<1>1. ASSUME Asked PROVE CalendarIsReal
  <2>1. text \in Texts /\ column = Columns[name] /\ said = Ask(text, column)
    BY <1>1 DEF Asked
  <2>2. ASSUME column.kind = "scalar" PROVE decoded = Value!decodeScalarValue(text, column.element)
    <3>1. said = AskOfField(text, column)
      BY Zenon, <2>1, <2>2 DEF Ask
    <3> QED BY <2>2, <3>1 DEF AskOfField, Value!decodeFn, decoded
  <2>3. ASSUME column.kind = "scalar", HasValue PROVE text # Null
    <3> SUFFICES ASSUME text = Null PROVE FALSE
      OBVIOUS
    <3>1. text = Value!Null /\ Value!Nil = Nil
      BY DEF Null, Value!Null, Value!Nil, Nil
    <3>2. Value!decodeScalarValue(text, column.element) = Value!Nil
      BY Zenon, <3>1 DEF Value!decodeScalarValue
    <3> QED BY <2>2, <2>3, <3>1, <3>2 DEF HasValue
  <2>4. ASSUME column.kind = "scalar", HasValue
        PROVE  /\ decoded.ok
               /\ kind = "date" => decoded = decodeDate(text)
               /\ kind = "time" => decoded = decodeTime(text)
               /\ kind = "timestamp" => decoded = decodeTimestamp(text)
               /\ kind = "datetime" => decoded = decodeDatetime(text)
               /\ kind = "datetimetz" => decoded = decodeDatetimeTZ(text)
               /\ kind = "duration" => decoded = decodeDuration(text)
    BY <2>1, <2>2, <2>3, <2>4, CalendarValues DEF HasValue, kind
  <2>5. ASSUME IsScalar({"timestamp", "datetime", "datetimetz"}), HasValue
        PROVE  /\ DateIsReal(decoded.value.date) /\ ClockIsReal(decoded.value.clock)
               /\ decoded.value.offset \in (1 - Day)..(Day - 1)
    <3>1. decoded.ok /\ decoded \in {decodeTimestamp(text), decodeDatetime(text), decodeDatetimeTZ(text)}
      BY <2>4, <2>5 DEF IsScalar
    <3> QED BY <2>1, <3>1, DecodedTimestamps
  <2>6. Calendar \ {"date"} = {"timestamp", "datetime", "datetimetz"}
    BY DEF Calendar
  <2>7. DatesAreReal
    <3> SUFFICES ASSUME IsScalar(Calendar), HasValue
                 PROVE  DateIsReal(IF kind = "date" THEN decoded.value ELSE decoded.value.date)
      BY DEF DatesAreReal
    <3>1. CASE kind = "date"
      <4>1. decoded.ok /\ decoded = decodeDate(text)
        BY <2>4, <3>1 DEF IsScalar
      <4>2. DateIsReal(decoded.value)
        BY <2>1, <4>1, DecodedDates, AnswerFields
      <4> QED BY <3>1, <4>2
    <3>2. CASE kind # "date"
      <4>1. IsScalar({"timestamp", "datetime", "datetimetz"})
        BY <3>2 DEF IsScalar, Calendar
      <4> QED BY <2>5, <3>2, <4>1
    <3> QED BY <3>1, <3>2
  <2>8. ClocksAreReal
    <3> SUFFICES ASSUME column.kind = "scalar", HasValue
                 PROVE  /\ IsScalar({"time"}) => ClockIsReal(decoded.value)
                        /\ IsScalar({"timestamp", "datetime", "datetimetz"}) =>
                             /\ ClockIsReal(decoded.value.clock)
                             /\ decoded.value.offset \in (1 - Day)..(Day - 1)
                        /\ IsScalar({"duration"}) =>
                             NumberWraps \/ \A part \in DOMAIN NoDuration : decoded.value[part] >= 0
      BY <2>6 DEF ClocksAreReal
    <3>1. ASSUME IsScalar({"time"}) PROVE ClockIsReal(decoded.value)
      <4>1. decoded.ok /\ decoded = decodeTime(text)
        BY <2>4, <3>1 DEF IsScalar
      <4> QED BY <2>1, <4>1, DecodedTimes
    <3>2. ASSUME IsScalar({"duration"}), ~NumberWraps
          PROVE  \A part \in DOMAIN NoDuration : decoded.value[part] >= 0
      <4>1. decoded.ok /\ decoded = decodeDuration(text)
        BY <2>4, <3>2 DEF IsScalar
      <4>2. NumbersFit(text)
        BY <3>2 DEF NumbersFit, NumberWraps
      <4> QED BY <2>1, <4>1, <4>2, DecodedDurations
    <3> QED BY <2>5, <3>1, <3>2
  <2>9. TimestampsAgree
    BY <2>1, TimestampIsEither DEF TimestampsAgree
  <2> QED BY <2>7, <2>8, <2>9 DEF CalendarIsReal
<1> QED BY <1>1, AskedIsInductive, PTL DEF Spec

-----------------------------------------------------------------------------
(***************************************************************************)
(* enum.                                                                   *)
(***************************************************************************)
\* The first member: what Lookup finds is the first with that name or else the first with that
\* value, and no member before it fits.
LEMMA FirstMember ==
  ASSUME NEW t \in Texts, NEW enum, DOMAIN enum \in SUBSET Nat, Lookup(enum, t).ok
  PROVE  LET chosen == Lookup(enum, t).value
             Means(i) == LowerText(t) \in {LowerText(enum[i].name), LowerText(enum[i].value)}
         IN /\ Means(chosen)
            /\ \A i \in DOMAIN enum : Means(i) => \/ i >= chosen
                                                  \/ LowerText(enum[chosen].name) = LowerText(t)
<1> DEFINE named == {i \in DOMAIN enum : LowerText(enum[i].name) = LowerText(t)}
           valued == {i \in DOMAIN enum : enum[i].value # <<>> /\ LowerText(enum[i].value) = LowerText(t)}
           first == IF named # {} THEN named ELSE valued
           chosen == FirstOf(first)
<1>1. /\ t # <<>> /\ named \cup valued # {}
      /\ Lookup(enum, t) = Decoded(chosen)
  BY AnswerFields DEF Lookup
<1>2. first \in SUBSET Nat /\ first # {}
  BY <1>1
<1>3. chosen \in first /\ \A j \in first : chosen <= j
  <2>1. \E m \in first : \A j \in first : m <= j
    BY <1>2, LeastElement
  <2>2. chosen = CHOOSE m \in first : \A j \in first : m <= j
    BY DEF FirstOf
  <2> HIDE DEF first, chosen
  <2> QED BY <2>1, <2>2
<1>4. ASSUME NEW s, LowerText(s) = LowerText(t) PROVE s # <<>>
  <2>1. DOMAIN LowerText(s) = DOMAIN s /\ DOMAIN LowerText(t) = DOMAIN t
    BY DEF LowerText
  <2>2. 1 \in DOMAIN t
    <3>1. DOMAIN t = 1..Len(t) /\ Len(t) \in Nat /\ Len(t) # 0
      BY <1>1, TextTypes, ShortTexts
    <3> QED BY <3>1
  <2>3. 1 \notin DOMAIN <<>>
    <3>1. <<>> \in Texts /\ Len(<<>>) = 0
      BY DEF Texts
    <3>2. DOMAIN <<>> = 1..0
      BY <3>1, TextTypes
    <3> QED BY <3>2
  <2> QED BY <1>4, <2>1, <2>2, <2>3
<1> HIDE DEF chosen
<1> DEFINE Means(i) == LowerText(t) \in {LowerText(enum[i].name), LowerText(enum[i].value)}
<1> SUFFICES /\ Means(chosen)
             /\ \A i \in DOMAIN enum : Means(i) => \/ i >= chosen
                                                   \/ LowerText(enum[chosen].name) = LowerText(t)
  <2>1. Lookup(enum, t).value = chosen
    BY <1>1, AnswerFields
  <2> QED BY <2>1
<1>5. CASE named # {}
  BY <1>3, <1>5
<1>6. CASE named = {}
  <2>1. ASSUME NEW i \in DOMAIN enum, Means(i)
        PROVE  i >= chosen
    <3>1. LowerText(enum[i].value) = LowerText(t)
      BY <1>6, <2>1
    <3>2. i \in valued
      BY <1>4, <3>1
    <3>3. i \in first
      BY <1>6, <3>2
    <3>4. i \in Nat /\ chosen \in Nat /\ chosen <= i
      <4> HIDE DEF first
      <4> QED BY <1>2, <1>3, <3>3
    <3> QED BY <3>4
  <2>2. LowerText(enum[chosen].value) = LowerText(t)
    BY <1>3, <1>6
  <2> QED BY <2>1, <2>2
<1> QED BY <1>5, <1>6

-----------------------------------------------------------------------------
(***************************************************************************)
(* bytes:hex.                                                              *)
(***************************************************************************)
\* A hexadecimal character that is no digit is one of six letters, in either case.
LEMMA HexLetters ==
  /\ \A k \in 1..6 : HexDigits[k] = LowerLetters[k]
  /\ \A c \in HexChar \ Digit : \E k \in 1..6 : Lower(c) = LowerLetters[k]
<1> DEFINE at(d) == CHOOSE i \in 1..26 : UpperLetters[i] = d
<1>1. \A d : (\E i \in 1..26 : UpperLetters[i] = d) => at(d) \in 1..26 /\ UpperLetters[at(d)] = d
  OBVIOUS
<1>2. \A d \in DOMAIN LowerOf : LowerOf[d] = LowerLetters[at(d)] /\ \E i \in 1..26 : UpperLetters[i] = d
  BY DEF LowerOf
<1>3. \A d : (\E i \in 1..26 : UpperLetters[i] = d) => d \in DOMAIN LowerOf
  BY DEF LowerOf
<1> HIDE DEF at
<1>4. \A k \in 1..6 : \A i \in 1..26 : UpperLetters[i] = UpperLetters[k] => i = k
  BY DEF UpperLetters
<1>5. \A k \in 1..6 : \A i \in 1..26 : UpperLetters[i] # LowerLetters[k]
  BY DEF UpperLetters, LowerLetters
<1>6. \A c \in HexChar \ Digit : \E k \in 1..6 : c = LowerLetters[k] \/ c = UpperLetters[k]
  <2>1. /\ LowerLetters[1] = "a" /\ LowerLetters[2] = "b" /\ LowerLetters[3] = "c"
        /\ LowerLetters[4] = "d" /\ LowerLetters[5] = "e" /\ LowerLetters[6] = "f"
    BY DEF LowerLetters
  <2>2. /\ UpperLetters[1] = "A" /\ UpperLetters[2] = "B" /\ UpperLetters[3] = "C"
        /\ UpperLetters[4] = "D" /\ UpperLetters[5] = "E" /\ UpperLetters[6] = "F"
    BY DEF UpperLetters
  <2>3. 1 \in 1..6 /\ 2 \in 1..6 /\ 3 \in 1..6 /\ 4 \in 1..6 /\ 5 \in 1..6 /\ 6 \in 1..6
    OBVIOUS
  <2> QED BY Zenon, <2>1, <2>2, <2>3 DEF HexChar
<1>7. ASSUME NEW c, NEW k \in 1..6, c = LowerLetters[k] PROVE Lower(c) = LowerLetters[k]
  <2>1. c \notin DOMAIN LowerOf
    BY <1>2, <1>5, <1>7
  <2> QED BY <1>7, <2>1 DEF Lower
<1>8. ASSUME NEW c, NEW k \in 1..6, c = UpperLetters[k] PROVE Lower(c) = LowerLetters[k]
  <2>1. k \in 1..26
    OBVIOUS
  <2>2. c \in DOMAIN LowerOf /\ at(c) \in 1..26 /\ UpperLetters[at(c)] = c
    BY <1>1, <1>3, <1>8, <2>1
  <2>3. at(c) = k
    BY <1>4, <1>8, <2>2
  <2> QED BY <1>2, <2>2, <2>3 DEF Lower
<1>9. \A k \in 1..6 : HexDigits[k] = LowerLetters[k]
  <2> DEFINE S == {LowerLetters[i] : i \in 1..6}
  <2>1. 1 \in Int /\ 6 \in Int /\ \A i \in 1..6 : LowerLetters[i] \in S
    OBVIOUS
  <2> HIDE DEF S
  <2>2. \A i \in 1..(6 - 1 + 1) : SubSeq(LowerLetters, 1, 6)[i] = LowerLetters[1 + i - 1]
    BY <2>1, SubSeqProperties
  <2>3. ASSUME NEW k \in 1..6 PROVE SubSeq(LowerLetters, 1, 6)[k] = LowerLetters[k]
    <3>1. k \in 1..(6 - 1 + 1) /\ 1 + k - 1 = k
      OBVIOUS
    <3> QED BY <2>2, <3>1
  <2> QED BY <2>3 DEF HexDigits
<1> QED BY <1>6, <1>7, <1>8, <1>9

\* A nibble is a number below 16, and is written as the character it was read from, in lower case.
Nibble(n) == IF n < 10 THEN Digits[n + 1] ELSE HexDigits[n - 9]
LEMMA HexNibbles ==
  ASSUME NEW c \in HexChar
  PROVE  hexCharToNibble(c) \in 0..15 /\ Nibble(hexCharToNibble(c)) = Lower(c)
<1> DEFINE n == hexCharToNibble(c)
<1>1. CASE c \in Digit
  <2> DEFINE at == CHOOSE i \in DOMAIN Digits : Digits[i] = c
  <2>1. at \in DOMAIN Digits /\ Digits[at] = c
    BY <1>1 DEF Digit
  <2>2. DOMAIN Digits = 1..10
    BY DEF Digits
  <2>3. DigitValue[c] = at - 1
    BY <1>1 DEF DigitValue
  <2> HIDE DEF at
  <2>4. n = at - 1 /\ at \in 1..10
    BY <1>1, <2>1, <2>2, <2>3 DEF hexCharToNibble
  <2>5. n < 10 /\ n + 1 = at
    BY <2>4
  <2>6. Lower(c) = c
    BY <1>1, LowerKeeps
  <2> QED BY <2>1, <2>4, <2>5, <2>6 DEF Nibble
<1>2. CASE c \notin Digit
  <2> DEFINE at == CHOOSE i \in 1..6 : HexDigits[i] = Lower(c)
  <2>1. at \in 1..6 /\ HexDigits[at] = Lower(c)
    <3>1. \E i \in 1..6 : HexDigits[i] = Lower(c)
      BY <1>2, HexLetters
    <3> QED BY <3>1
  <2>2. n = 9 + at
    BY <1>2 DEF hexCharToNibble
  <2> HIDE DEF at, n
  <2>3. ~(n < 10) /\ n - 9 = at /\ n \in 0..15
    BY <2>1, <2>2
  <2> QED BY <2>1, <2>3 DEF Nibble, n
<1> QED BY <1>1, <1>2

\* What is decoded from a hexadecimal text is written as that text, in lower case.
LEMMA HexReadsBack ==
  ASSUME NEW t \in Texts, decodeBytesHex(t).ok
  PROVE  HexText(decodeBytesHex(t).value) = LowerText(t)
<1> DEFINE n == Len(t) \div 2
           bytes == [k \in 1..n |-> HexByte(t, 2 * k - 1)]
<1>1. /\ ~(Len(t) = 0 \/ ~AllIn(t, HexChar) \/ Len(t) % 2 # 0)
      /\ decodeBytesHex(t).value = bytes
  BY AnswerFields DEF decodeBytesHex
<1>2. n \in Nat /\ Len(t) = 2 * n /\ DOMAIN t = 1..Len(t)
  <2>1. \A m \in Nat : m % 2 = 0 => m \div 2 \in Nat /\ m = 2 * (m \div 2)
    OBVIOUS
  <2> QED BY <1>1, <2>1, TextTypes
<1> HIDE DEF n
<1>3. Len(bytes) = n
  <2> DEFINE S == {bytes[k] : k \in 1..n}
  <2>1. DOMAIN bytes = 1..n /\ bytes \in [1..n -> S]
    OBVIOUS
  <2> HIDE DEF bytes, S
  <2>2. bytes \in Seq(S)
    BY <1>2, <2>1
  <2>3. Len(bytes) \in Nat /\ DOMAIN bytes = 1..Len(bytes)
    BY <2>2
  <2>4. \A x, y \in Nat : 1..x = 1..y => x = y
    <3>1. ASSUME NEW x \in Nat, NEW y \in Nat, 1..x = 1..y, x < y PROVE FALSE
      <4>1. y \in 1..y /\ y \notin 1..x
        BY <3>1
      <4> QED BY <3>1, <4>1
    <3> QED BY <3>1
  <2> QED BY <1>2, <2>1, <2>3, <2>4
<1>4. ASSUME NEW i \in 1..(2 * n)
      PROVE  Nibble(IF i % 2 = 1 THEN bytes[(i + 1) \div 2] \div 16 ELSE bytes[i \div 2] % 16) = Lower(t[i])
  <2> DEFINE k == IF i % 2 = 1 THEN (i + 1) \div 2 ELSE i \div 2
             a == hexCharToNibble(t[2 * k - 1])
             b == hexCharToNibble(t[2 * k])
  <2>1. /\ k \in 1..n /\ 2 * k - 1 \in 1..(2 * n) /\ 2 * k \in 1..(2 * n) /\ (2 * k - 1) + 1 = 2 * k
        /\ i = IF i % 2 = 1 THEN 2 * k - 1 ELSE 2 * k
    BY <1>2
  <2> HIDE DEF k
  <2>2. t[2 * k - 1] \in HexChar /\ t[2 * k] \in HexChar
    BY <1>1, <1>2, <2>1 DEF AllIn
  <2>3. a \in 0..15 /\ b \in 0..15 /\ Nibble(a) = Lower(t[2 * k - 1]) /\ Nibble(b) = Lower(t[2 * k])
    BY <2>2, HexNibbles
  <2>4. bytes[k] = 16 * a + b
    BY <2>1 DEF HexByte
  <2> HIDE DEF a, b, bytes
  <2>5. \A x, y \in 0..15 : (16 * x + y) \div 16 = x /\ (16 * x + y) % 16 = y
    OBVIOUS
  <2>6. bytes[k] \div 16 = a /\ bytes[k] % 16 = b
    BY <2>3, <2>4, <2>5
  <2>7. CASE i % 2 = 1
    <3>1. (i + 1) \div 2 = k /\ i = 2 * k - 1
      BY <2>1, <2>7 DEF k
    <3> QED BY <2>3, <2>6, <2>7, <3>1
  <2>8. CASE i % 2 # 1
    <3>1. i \div 2 = k /\ i = 2 * k
      BY <2>1, <2>8 DEF k
    <3> QED BY <2>3, <2>6, <2>8, <3>1
  <2> QED BY <2>7, <2>8
<1>5. HexText(bytes) = [i \in 1..(2 * n) |-> Lower(t[i])]
  <2> HIDE DEF bytes
  <2> QED BY <1>3, <1>4 DEF HexText, Nibble
<1>6. LowerText(t) = [i \in 1..(2 * n) |-> Lower(t[i])]
  BY <1>2 DEF LowerText
<1> QED BY <1>1, <1>5, <1>6

-----------------------------------------------------------------------------
(***************************************************************************)
(* decimal.                                                                *)
(***************************************************************************)
\* A decimal by its places: the first digit is at i, the digits before the point end before p.
DecimalShape(t, i, p) ==
  /\ p \in (i + 1)..(Len(t) + 1)
  /\ \A j \in i..(p - 1) : t[j] \in Digit
  /\ t[i] = "0" => p = i + 1
  /\ IF p = Len(t) + 1 THEN i = 2 => t[i] # "0"
     ELSE /\ t[p] = "." /\ p < Len(t) /\ \A j \in (p + 1)..Len(t) : t[j] \in Digit
          /\ IF i = 2 /\ t[i] = "0" THEN \E j \in (p + 1)..Len(t) : t[j] # "0"
             ELSE Len(t) - p <= MaxFraction

\* The parts of a decimal with a sign of length s and k digits before the point.
Body(t, s) == SubSeq(t, s + 1, Len(t))
WholePart(t, s, k) == SubSeq(Body(t, s), 1, k)
Behind(t, s, k) == SubSeq(Body(t, s), k + 2, Len(Body(t, s)))

LEMMA PlacesInBody ==
  ASSUME NEW t \in Texts, NEW s \in {0, 1}, s <= Len(t), NEW k \in 1..(Len(t) - s)
  PROVE  /\ Len(Body(t, s)) = Len(t) - s
         /\ AllIn(WholePart(t, s, k), Digit) <=> \A j \in (s + 1)..(s + k) : t[j] \in Digit
         /\ WholePart(t, s, k)[1] = t[s + 1]
         /\ WholePart(t, s, k) = <<"0">> <=> k = 1 /\ t[s + 1] = "0"
         /\ k < Len(Body(t, s)) =>
              /\ Body(t, s)[k + 1] = t[s + k + 1]
              /\ Len(Behind(t, s, k)) = Len(t) - s - k - 1
              /\ Behind(t, s, k) # <<>> <=> Len(t) - s - k - 1 # 0
              /\ \A S : AllIn(Behind(t, s, k), S) <=> \A j \in (s + k + 2)..Len(t) : t[j] \in S
<1> DEFINE body == SubSeq(t, s + 1, Len(t))
           whole == SubSeq(body, 1, k)
           fraction == SubSeq(body, k + 2, Len(body))
           n == Len(t)
<1>1. n \in Nat /\ s \in Nat /\ k \in Nat /\ 1 <= k /\ k <= n - s
  BY TextTypes
<1>2. body \in Texts /\ Len(body) = n - s /\ \A j \in 1..(n - s) : body[j] = t[s + j]
  <2>1. s + 1 \in 1..(n + 1) /\ n - (s + 1) + 1 = n - s
    BY <1>1
  <2>2. \A j \in 1..(n - s) : s + 1 + j - 1 = s + j
    BY <1>1
  <2>3. /\ body \in Texts /\ Len(body) = n - (s + 1) + 1
        /\ \A j \in 1..(n - (s + 1) + 1) : body[j] = t[s + 1 + j - 1]
    BY <2>1, FromProperties DEF From
  <2> HIDE DEF body, n
  <2> QED BY <2>1, <2>2, <2>3
<1> HIDE DEF body, n
<1>3. AllIn(whole, Digit) <=> \A j \in (s + 1)..(s + k) : t[j] \in Digit
  <2>1. AllIn(whole, Digit) <=> \A j \in 1..k : body[j] \in Digit
    <3>1. 1 \in Nat \ {0} /\ k \in Int /\ k <= Len(body)
      BY <1>1, <1>2
    <3> QED BY <1>2, <3>1, AllInPart
  <2>2. \A j \in 1..k : body[j] = t[s + j] /\ s + j \in (s + 1)..(s + k)
    BY <1>1, <1>2
  <2>3. \A j \in (s + 1)..(s + k) : j - s \in 1..k /\ s + (j - s) = j
    BY <1>1
  <2> QED BY <2>1, <2>2, <2>3
<1>4. whole \in Texts /\ Len(whole) = k /\ whole[1] = t[s + 1]
  <2>1. 1 \in Int /\ k \in Int /\ \A j \in 1..k : body[j] \in Letter
    BY <1>1, <1>2, TextTypes
  <2>2. /\ whole \in Seq(Letter) /\ Len(whole) = IF 1 <= k THEN k - 1 + 1 ELSE 0
        /\ \A j \in 1..(k - 1 + 1) : whole[j] = body[1 + j - 1]
    BY <2>1, SubSeqProperties
  <2> HIDE DEF whole
  <2>3. Len(whole) = k /\ whole[1] = body[1] /\ body[1] = t[s + 1]
    BY <1>1, <1>2, <2>2
  <2> QED BY <2>2, <2>3 DEF Texts
<1>5. whole = <<"0">> <=> k = 1 /\ t[s + 1] = "0"
  <2> HIDE DEF whole
  <2>1. ASSUME whole = <<"0">> PROVE k = 1 /\ t[s + 1] = "0"
    <3>1. Len(<<"0">>) = 1 /\ <<"0">>[1] = "0"
      OBVIOUS
    <3> QED BY <1>4, <2>1, <3>1
  <2>2. ASSUME k = 1, t[s + 1] = "0" PROVE whole = <<"0">>
    BY <1>4, <2>2, ShortTexts
  <2> QED BY <2>1, <2>2
<1>6. ASSUME k < Len(body)
      PROVE  /\ body[k + 1] = t[s + k + 1]
             /\ Len(fraction) = n - s - k - 1
             /\ fraction # <<>> <=> n - s - k - 1 # 0
             /\ \A S : AllIn(fraction, S) <=> \A j \in (s + k + 2)..n : t[j] \in S
  <2>1. body[k + 1] = t[s + k + 1]
    <3>1. k + 1 \in 1..(n - s) /\ s + (k + 1) = s + k + 1
      BY <1>1, <1>2, <1>6
    <3> QED BY <1>2, <3>1
  <2>2. k + 2 \in 1..(Len(body) + 1) /\ Len(body) - (k + 2) + 1 = n - s - k - 1
    BY <1>1, <1>2, <1>6
  <2>3. fraction \in Texts /\ Len(fraction) = n - s - k - 1
    BY <1>2, <2>2, FromProperties DEF From
  <2>4. fraction # <<>> <=> n - s - k - 1 # 0
    <3> HIDE DEF fraction
    <3>1. Len(<<>>) = 0
      OBVIOUS
    <3> QED BY <2>3, <3>1, ShortTexts
  <2>5. ASSUME NEW S PROVE AllIn(fraction, S) <=> \A j \in (s + k + 2)..n : t[j] \in S
    <3>1. AllIn(fraction, S) <=> \A j \in (k + 2)..(n - s) : body[j] \in S
      <4>1. k + 2 \in Nat \ {0}
        BY <1>1
      <4> QED BY <1>2, <4>1, AllInFrom DEF From
    <3>2. \A j \in (k + 2)..(n - s) : body[j] = t[s + j] /\ s + j \in (s + k + 2)..n
      BY <1>1, <1>2
    <3>3. \A j \in (s + k + 2)..n : j - s \in (k + 2)..(n - s) /\ s + (j - s) = j
      BY <1>1
    <3> HIDE DEF fraction
    <3> QED BY <3>1, <3>2, <3>3
  <2> QED BY <2>1, <2>3, <2>4, <2>5
<1> QED BY <1>2, <1>3, <1>4, <1>5, <1>6 DEF body, n, Body, WholePart, Behind

LEMMA SignsInFront ==
  ASSUME NEW t \in Texts
  PROVE  /\ IsPrefix(<<>>, t)
         /\ IsPrefix(<<"-">>, t) <=> 1 <= Len(t) /\ t[1] = "-"
<1>1. Len(t) \in Nat
  BY TextTypes
<1>2. Len(<<>>) = 0 /\ Len(<<"-">>) = 1 /\ <<"-">>[1] = "-"
  OBVIOUS
<1>3. IsPrefix(<<>>, t)
  <2>1. SubSeq(<<>>, 1, 0) = <<>> /\ SubSeq(t, 1, 0) = <<>>
    BY SubSeqEmpty
  <2> QED BY <1>1, <1>2, <2>1 DEF IsPrefix
<1>4. ASSUME 1 <= Len(t) PROVE SubSeq(<<"-">>, 1, 1) = SubSeq(t, 1, 1) <=> t[1] = "-"
  <2> DEFINE a == SubSeq(<<"-">>, 1, 1)
             b == SubSeq(t, 1, 1)
             S == {"-", t[1]}
  <2>1. 1 \in Int /\ (\A j \in 1..1 : <<"-">>[j] \in S) /\ (\A j \in 1..1 : t[j] \in S)
    BY <1>2
  <2>2. a \in Seq(S) /\ Len(a) = IF 1 <= 1 THEN 1 - 1 + 1 ELSE 0
    BY <2>1, SubSeqProperties
  <2>3. \A j \in 1..(1 - 1 + 1) : a[j] = <<"-">>[1 + j - 1]
    BY <2>1, SubSeqProperties
  <2>4. b \in Seq(S) /\ Len(b) = IF 1 <= 1 THEN 1 - 1 + 1 ELSE 0
    BY <2>1, SubSeqProperties
  <2>5. \A j \in 1..(1 - 1 + 1) : b[j] = t[1 + j - 1]
    BY <2>1, SubSeqProperties
  <2> HIDE DEF a, b, S
  <2>6. Len(a) = 1 /\ Len(b) = 1 /\ a[1] = <<"-">>[1] /\ b[1] = t[1]
    BY <2>2, <2>3, <2>4, <2>5
  <2>7. a[1] = "-"
    BY <1>2, <2>6
  <2>8. ASSUME t[1] = "-" PROVE a = b
    <3>1. \A j \in 1..Len(a) : a[j] = b[j]
      BY <2>6, <2>7, <2>8
    <3> QED BY <2>2, <2>4, <2>6, <3>1, SeqEqual
  <2>9. a = b => t[1] = "-"
    BY <2>6, <2>7
  <2> QED BY <2>8, <2>9 DEF a, b
<1>5. IsPrefix(<<"-">>, t) <=> 1 <= Len(t) /\ t[1] = "-"
  BY <1>2, <1>4 DEF IsPrefix
<1> QED BY <1>3, <1>5

\* What a decimal is, said of its parts and said of their places.
SignedDecimal(t, sign) ==
  \E k \in 0..Len(t) :
    LET body == SubSeq(t, Len(sign) + 1, Len(t))
        whole == SubSeq(body, 1, k)
        fraction == SubSeq(body, k + 2, Len(body))
    IN /\ IsPrefix(sign, t) /\ k \in 1..Len(body)
       /\ AllIn(whole, Digit) /\ (whole[1] = "0" => k = 1)
       /\ IF k = Len(body) THEN sign = <<"-">> => whole # <<"0">>
          ELSE /\ body[k + 1] = "." /\ fraction # <<>> /\ AllIn(fraction, Digit)
               /\ IF sign = <<"-">> /\ whole = <<"0">> THEN ~AllIn(fraction, {"0"})
                  ELSE Len(fraction) <= MaxFraction

PartsOf(s, k, size, whole, next, fraction) ==
  /\ AllIn(whole, Digit) /\ (whole[1] = "0" => k = 1)
  /\ IF k = size THEN s = 1 => whole # <<"0">>
     ELSE /\ next = "." /\ fraction # <<>> /\ AllIn(fraction, Digit)
          /\ IF s = 1 /\ whole = <<"0">> THEN ~AllIn(fraction, {"0"})
             ELSE Len(fraction) <= MaxFraction

LEMMA PartsHaveShape ==
  ASSUME NEW t \in Texts, NEW s \in {0, 1}, s <= Len(t), NEW k \in 1..(Len(t) - s)
  PROVE  PartsOf(s, k, Len(Body(t, s)), WholePart(t, s, k), Body(t, s)[k + 1], Behind(t, s, k))
           <=> DecimalShape(t, s + 1, s + k + 1)
<1> DEFINE w == WholePart(t, s, k)
           f == Behind(t, s, k)
           c == Body(t, s)[k + 1]
           size == Len(Body(t, s))
           n == Len(t)
           p == s + k + 1
           WholeIn == \A j \in (s + 1)..(s + k) : t[j] \in Digit
           RestIn == \A j \in (s + k + 2)..n : t[j] \in Digit
           Zeros == \A j \in (s + k + 2)..n : t[j] \in {"0"}
<1>1. /\ size = n - s
      /\ AllIn(w, Digit) <=> WholeIn
      /\ w[1] = t[s + 1]
      /\ w = <<"0">> <=> k = 1 /\ t[s + 1] = "0"
  BY PlacesInBody
<1>2. k < size =>
        /\ c = t[p]
        /\ Len(f) = n - s - k - 1
        /\ f # <<>> <=> n - s - k - 1 # 0
        /\ AllIn(f, Digit) <=> RestIn
        /\ AllIn(f, {"0"}) <=> Zeros
  <2>1. k < size =>
          /\ c = t[p]
          /\ Len(f) = n - s - k - 1
          /\ f # <<>> <=> n - s - k - 1 # 0
          /\ \A S : AllIn(f, S) <=> \A j \in (s + k + 2)..n : t[j] \in S
    BY PlacesInBody
  <2> HIDE DEF size, c, f, n, p
  <2> QED BY <2>1
<1>3. n \in Nat /\ s \in Nat /\ k \in Nat /\ 1 <= k /\ k <= n - s
  BY TextTypes
<1> HIDE DEF w, f, c, size, n
<1>4. /\ p \in (s + 1 + 1)..(n + 1) /\ p - 1 = s + k /\ p + 1 = s + k + 2
      /\ p = s + 1 + 1 <=> k = 1
      /\ p = n + 1 <=> k = size
      /\ k # size => k < size
      /\ n - p = n - s - k - 1
      /\ k < size => (n - s - k - 1 # 0 <=> p < n)
      /\ s + 1 = 2 <=> s = 1
  BY <1>1, <1>3
<1> HIDE DEF p
<1>5. DecimalShape(t, s + 1, p) <=>
        /\ WholeIn /\ (t[s + 1] = "0" => k = 1)
        /\ IF k = size THEN s = 1 => t[s + 1] # "0"
           ELSE /\ t[p] = "." /\ p < n /\ RestIn
                /\ IF s = 1 /\ t[s + 1] = "0" THEN ~Zeros ELSE n - s - k - 1 <= MaxFraction
  <2>1. Len(t) = n
    BY DEF n
  <2>2. DecimalShape(t, s + 1, p) <=>
          /\ WholeIn /\ (t[s + 1] = "0" => k = 1)
          /\ IF k = size THEN s = 1 => t[s + 1] # "0"
             ELSE /\ t[p] = "." /\ p < n /\ RestIn
                  /\ IF s = 1 /\ t[s + 1] = "0" THEN \E j \in (s + k + 2)..n : t[j] # "0"
                     ELSE n - s - k - 1 <= MaxFraction
    BY ONLY <1>4, <2>1 DEF DecimalShape
  <2>3. (\E j \in (s + k + 2)..n : t[j] # "0") <=> ~Zeros
    OBVIOUS
  <2> HIDE DEF WholeIn, RestIn, Zeros
  <2> QED BY ONLY <2>2, <2>3
<1> HIDE DEF WholeIn, RestIn, Zeros
<1>6. CASE k = size
  <2>1. PartsOf(s, k, size, w, c, f) <=> AllIn(w, Digit) /\ (w[1] = "0" => k = 1) /\ (s = 1 => w # <<"0">>)
    BY ONLY <1>6 DEF PartsOf
  <2>2. PartsOf(s, k, size, w, c, f) <=> DecimalShape(t, s + 1, p)
    BY Zenon, <1>1, <1>5, <1>6, <2>1
  <2> QED BY <2>2 DEF w, f, c, size, n, p
<1>7. CASE k # size
  <2>1. /\ c = t[p] /\ Len(f) = n - s - k - 1 /\ (f # <<>> <=> p < n)
        /\ (AllIn(f, Digit) <=> RestIn) /\ (AllIn(f, {"0"}) <=> Zeros)
    BY ONLY <1>2, <1>4, <1>7
  <2>2. PartsOf(s, k, size, w, c, f) <=>
          /\ AllIn(w, Digit) /\ (w[1] = "0" => k = 1)
          /\ c = "." /\ f # <<>> /\ AllIn(f, Digit)
          /\ IF s = 1 /\ w = <<"0">> THEN ~AllIn(f, {"0"}) ELSE Len(f) <= MaxFraction
    BY ONLY <1>7 DEF PartsOf
  <2>3. (s = 1 /\ w = <<"0">>) /\ (w[1] = "0" => k = 1) <=> (s = 1 /\ t[s + 1] = "0") /\ (t[s + 1] = "0" => k = 1)
    BY Zenon, <1>1
  <2>4. PartsOf(s, k, size, w, c, f) <=> DecimalShape(t, s + 1, p)
    BY Zenon, <1>1, <1>5, <1>7, <2>1, <2>2, <2>3
  <2> QED BY <2>4 DEF w, f, c, size, n, p
<1> QED BY <1>6, <1>7

LEMMA DecimalPlaces ==
  ASSUME NEW t \in Texts, NEW s \in {0, 1}, NEW sign, sign = (IF s = 0 THEN <<>> ELSE <<"-">>)
  PROVE  SignedDecimal(t, sign) <=> /\ s = 1 => 1 <= Len(t) /\ t[1] = "-"
                                    /\ \E p \in Nat : DecimalShape(t, s + 1, p)
<1> DEFINE n == Len(t)
           body == SubSeq(t, s + 1, n)
           Parts(k) == PartsOf(s, k, Len(body), SubSeq(body, 1, k), body[k + 1], SubSeq(body, k + 2, Len(body)))
<1>1. n \in Nat
  BY TextTypes
<1>2. /\ Len(sign) = s /\ (sign = <<"-">> <=> s = 1)
      /\ IsPrefix(sign, t) <=> (s = 1 => 1 <= n /\ t[1] = "-")
  <2>1. Len(<<>>) = 0 /\ Len(<<"-">>) = 1
    OBVIOUS
  <2>2. CASE s = 0
    BY <2>1, <2>2, SignsInFront
  <2>3. CASE s = 1
    BY <2>1, <2>3, SignsInFront
  <2> QED BY <2>2, <2>3
<1>3. SignedDecimal(t, sign) <=> IsPrefix(sign, t) /\ \E k \in 0..n : k \in 1..Len(body) /\ Parts(k)
  BY <1>2 DEF SignedDecimal, PartsOf
<1>4. SUFFICES ASSUME s = 1 => 1 <= n /\ t[1] = "-"
               PROVE  (\E k \in 0..n : k \in 1..Len(body) /\ Parts(k)) <=> \E p \in Nat : DecimalShape(t, s + 1, p)
  BY <1>2, <1>3
<1>5. Len(body) = n - s /\ s <= n
  <2>1. s + 1 \in 1..(n + 1) /\ n - (s + 1) + 1 = n - s
    BY <1>1, <1>4
  <2>2. Len(body) = n - (s + 1) + 1
    BY <2>1, FromProperties DEF From
  <2> HIDE DEF body, n
  <2> QED BY <1>1, <1>4, <2>1, <2>2
<1>6. ASSUME NEW k \in 1..(n - s) PROVE Parts(k) <=> DecimalShape(t, s + 1, s + k + 1)
  BY <1>5, PartsHaveShape DEF Body, WholePart, Behind
<1> HIDE DEF Parts, n, body
<1>7. ASSUME NEW k \in 0..n, k \in 1..Len(body), Parts(k) PROVE \E p \in Nat : DecimalShape(t, s + 1, p)
  <2>1. k \in 1..(n - s) /\ s + k + 1 \in Nat
    BY <1>1, <1>5, <1>7
  <2> QED BY <1>6, <1>7, <2>1
<1>8. ASSUME NEW p \in Nat, DecimalShape(t, s + 1, p) PROVE \E k \in 0..n : k \in 1..Len(body) /\ Parts(k)
  <2>1. p \in (s + 1 + 1)..(n + 1)
    BY <1>8 DEF DecimalShape, n
  <2>2. p - s - 1 \in 1..(n - s) /\ p - s - 1 \in 0..n /\ s + (p - s - 1) + 1 = p
    BY <1>1, <2>1
  <2>3. Parts(p - s - 1)
    BY <1>6, <1>8, <2>2
  <2> QED BY <1>5, <2>2, <2>3
<1> QED BY <1>7, <1>8

\* decodeDecimal takes the texts that have a shape, and no longer ones.
LEMMA DecodedDecimals ==
  ASSUME NEW t \in Texts
  PROVE  LET i == IF At(t, 1) = "-" THEN 2 ELSE 1
         IN decodeDecimal(t).ok <=> /\ Len(t) <= MaxDecimal
                                    /\ \E p \in Nat : DecimalShape(t, i, p)
<1> DEFINE neg == At(t, 1) = "-"
           i == IF neg THEN 2 ELSE 1
           n == Len(t)
           whole == AfterDigits(t, i + 1)
           end == IF At(t, whole) = "." THEN AfterDigits(t, whole + 1) ELSE whole
           Starts == n \in 1..MaxDecimal /\ At(t, i) \in Digit
           Below == BelowOne(t)
           BelowTaken == (\A k \in 4..n : t[k] \in Digit) /\ ~(\A k \in 4..n : t[k] = "0")
           Lead == t[i] = "0" /\ n > i /\ t[i + 1] # "."
           Point == At(t, whole) = "." /\ end - whole - 1 \notin 1..MaxFraction
           Taken == /\ Starts /\ t # <<"-", "0">>
                    /\ IF Below THEN BelowTaken ELSE ~Lead /\ ~Point /\ end = n + 1
<1>1. n \in Nat /\ DOMAIN t = 1..n /\ MaxFraction \in Nat /\ MaxDecimal \in Nat
  BY TextTypes, DecimalAssumption
<1>2. i \in {1, 2} /\ i \in Nat /\ i \in Int /\ (i = 2 <=> neg)
  OBVIOUS
<1>3. neg => 1 <= n /\ t[1] = "-"
  BY AtProperties DEF NoChar
<1>4. decodeDecimal(t).ok <=> Taken
  <2>1. decodeDecimal(t) =
          IF \/ n \notin 1..MaxDecimal \/ At(t, i) \notin Digit \/ t = <<"-", "0">>
             \/ Below /\ (\E k \in 4..n : t[k] \notin Digit)
             \/ Below /\ (\A k \in 4..n : t[k] = "0")
          THEN Rejected
          ELSE IF Below THEN Decoded(t)
          ELSE IF Lead \/ Point \/ end # n + 1 THEN Rejected ELSE Decoded(t)
    BY DEF decodeDecimal
  <2>2. Decoded(t).ok = TRUE /\ Rejected.ok = FALSE
    BY AnswerFields
  <2> HIDE DEF i, n, whole, end
  <2>3. CASE ~Starts \/ t = <<"-", "0">>
    <3>1. decodeDecimal(t) = Rejected
      BY ONLY <2>1, <2>3
    <3> QED BY <2>2, <2>3, <3>1
  <2>4. CASE Starts /\ t # <<"-", "0">> /\ Below
    <3>1. CASE BelowTaken
      <4>1. decodeDecimal(t) = Decoded(t)
        BY ONLY <2>1, <2>4, <3>1
      <4> QED BY <2>2, <2>4, <3>1, <4>1
    <3>2. CASE ~BelowTaken
      <4>1. decodeDecimal(t) = Rejected
        BY ONLY <2>1, <2>4, <3>2
      <4> QED BY <2>2, <2>4, <3>2, <4>1
    <3> QED BY <3>1, <3>2
  <2>5. CASE Starts /\ t # <<"-", "0">> /\ ~Below
    <3>1. decodeDecimal(t) = IF Lead \/ Point \/ end # n + 1 THEN Rejected ELSE Decoded(t)
      BY ONLY <2>1, <2>5
    <3> HIDE DEF Lead, Point, Below
    <3>2. CASE Lead \/ Point \/ end # n + 1
      <4>1. decodeDecimal(t) = Rejected
        BY ONLY <3>1, <3>2
      <4> QED BY <2>2, <2>5, <3>2, <4>1
    <3>3. CASE ~(Lead \/ Point \/ end # n + 1)
      <4>1. decodeDecimal(t) = Decoded(t)
        BY ONLY <3>1, <3>3
      <4> QED BY <2>2, <2>5, <3>3, <4>1
    <3> QED BY <3>2, <3>3
  <2> QED BY <2>3, <2>4, <2>5
<1> HIDE DEF i, whole, end, Below, n
<1>5. ASSUME At(t, i) \in Digit
      PROVE  i \in 1..n /\ t[i] \in Digit /\ i + 1 \in 1..(n + 1) /\ i + 1 \in Int
  <2>1. i \in 1..n
    BY <1>2, <1>5, AtProperties, NoDigitAtEnd DEF n
  <2>2. At(t, i) = t[i]
    BY <1>2, <2>1, AtProperties DEF n
  <2> QED BY <1>1, <1>5, <2>1, <2>2
<1>6. ASSUME At(t, i) \in Digit
      PROVE  /\ whole \in (i + 1)..(n + 1)
             /\ \A k \in (i + 1)..(whole - 1) : t[k] \in Digit
             /\ At(t, whole) \notin Digit
  <2>1. i + 1 \in 1..(Len(t) + 1)
    BY <1>5, <1>6 DEF n
  <2> QED BY <2>1, AfterDigitsProperties DEF whole, n
<1>7. ASSUME NEW p \in Nat, DecimalShape(t, i, p)
      PROVE  At(t, i) \in Digit /\ whole = p
  <2>1. /\ p \in (i + 1)..(n + 1) /\ \A j \in i..(p - 1) : t[j] \in Digit
        /\ p # n + 1 => t[p] = "."
    BY <1>7 DEF DecimalShape, n
  <2>2. i \in 1..n /\ i \in i..(p - 1) /\ i + 1 \in 1..(n + 1)
    BY <1>1, <1>2, <2>1
  <2>3. At(t, i) = t[i]
    BY <1>2, <2>2, AtProperties DEF n
  <2>4. At(t, i) \in Digit
    BY <2>1, <2>2, <2>3
  <2>5. At(t, p) \notin Digit
    <3>1. CASE p = n + 1
      <4>1. p \in Int /\ p \notin 1..n
        BY <1>1, <3>1
      <4> QED BY <4>1, AtProperties, NoDigitAtEnd DEF n
    <3>2. CASE p # n + 1
      <4>1. p \in Int /\ p \in 1..n
        BY <1>1, <1>2, <2>1, <3>2
      <4>2. At(t, p) = "."
        BY <2>1, <3>2, <4>1, AtProperties DEF n
      <4> QED BY <4>2, DigitSet
    <3> QED BY <3>1, <3>2
  <2>6. \A k \in (i + 1)..(p - 1) : t[k] \in Digit
    BY <1>2, <2>1
  <2>7. whole = p
    BY <2>1, <2>2, <2>5, <2>6, AfterIsUnique, NoDigitAtEnd DEF whole, AfterDigits, n
  <2> QED BY <2>4, <2>7
<1>8. t = <<"-", "0">> <=> n = 2 /\ t[1] = "-" /\ t[2] = "0"
  <2>1. ASSUME t = <<"-", "0">> PROVE n = 2 /\ t[1] = "-" /\ t[2] = "0"
    <3>1. Len(<<"-", "0">>) = 2 /\ <<"-", "0">>[1] = "-" /\ <<"-", "0">>[2] = "0"
      OBVIOUS
    <3> QED BY <2>1, <3>1 DEF n
  <2>2. n = 2 => t = <<t[1], t[2]>>
    BY ShortTexts DEF n
  <2> QED BY <2>1, <2>2
<1>9. Below <=> n > 3 /\ t[1] = "-" /\ t[2] = "0" /\ t[3] = "."
  BY BelowOneText DEF Below, n
<1>10. ASSUME NEW p \in Nat
       PROVE  DecimalShape(t, i, p) <=>
                /\ p \in (i + 1)..(n + 1)
                /\ \A j \in i..(p - 1) : t[j] \in Digit
                /\ t[i] = "0" => p = i + 1
                /\ IF p = n + 1 THEN i = 2 => t[i] # "0"
                   ELSE /\ t[p] = "." /\ p < n /\ \A j \in (p + 1)..n : t[j] \in Digit
                        /\ IF i = 2 /\ t[i] = "0" THEN \E j \in (p + 1)..n : t[j] # "0"
                           ELSE n - p <= MaxFraction
  BY DEF DecimalShape, n
<1>11. ASSUME At(t, i) \in Digit, Below
       PROVE  DecimalShape(t, i, whole) <=> t # <<"-", "0">> /\ BelowTaken
  <2>1. i = 2 /\ n > 3 /\ t[2] = "0" /\ t[3] = "." /\ t # <<"-", "0">>
    <3>1. 1 \in 1..n /\ At(t, 1) = "-"
      <4>1. 1 \in Int /\ 1 \in 1..n
        BY <1>1, <1>9, <1>11
      <4> QED BY <1>9, <1>11, <4>1, AtProperties DEF n
    <3>2. i = 2
      BY <3>1 DEF i
    <3>3. n # 2
      BY <1>1, <1>9, <1>11
    <3> QED BY <1>8, <1>9, <1>11, <3>2, <3>3
  <2>2. whole = 3
    <3>1. 3 \in Int /\ 3 \in 1..n /\ 3 \in 3..(n + 1) /\ 3 \in 1..(n + 1) /\ 3..(3 - 1) = {} /\ i + 1 = 3
      BY <1>1, <2>1
    <3>2. At(t, 3) \notin Digit
      BY <2>1, <3>1, AtProperties, DigitSet DEF n
    <3>3. \A k \in 3..(3 - 1) : t[k] \in Digit
      BY <3>1
    <3>4. After(t, 3, Digit) = 3
      BY <3>1, <3>2, <3>3, AfterIsUnique, NoDigitAtEnd DEF n
    <3> QED BY <3>1, <3>4 DEF whole, AfterDigits
  <2>3. /\ 3 \in Nat /\ 3 \in (2 + 1)..(n + 1) /\ 3 # n + 1 /\ 3 < n /\ 3 = 2 + 1 /\ 3 + 1 = 4
        /\ \A j \in 2..(3 - 1) : j = 2
    BY <1>1, <2>1
  <2>4. t[2] \in Digit
    BY <2>1, DigitSet
  <2>5. DecimalShape(t, 2, 3) <=> (\A j \in 4..n : t[j] \in Digit) /\ (\E j \in 4..n : t[j] # "0")
    <3>1. \A j \in 2..(3 - 1) : t[j] \in Digit
      BY <2>3, <2>4
    <3> QED BY <1>10, <2>1, <2>3, <3>1
  <2>6. BelowTaken <=> (\A j \in 4..n : t[j] \in Digit) /\ (\E j \in 4..n : t[j] # "0")
    OBVIOUS
  <2> HIDE DEF BelowTaken
  <2> QED BY <2>1, <2>2, <2>5, <2>6
<1>12. ASSUME At(t, i) \in Digit, ~Below, whole = n + 1
       PROVE  DecimalShape(t, i, whole) <=> t # <<"-", "0">> /\ ~Lead /\ ~Point /\ end = n + 1
  <2>1. i \in 1..n /\ t[i] \in Digit /\ whole \in Nat /\ whole \in (i + 1)..(n + 1)
    BY <1>1, <1>5, <1>12
  <2>2. At(t, whole) = NoChar
    <3>1. whole \in Int /\ whole \notin 1..n
      BY <1>1, <1>12
    <3> QED BY <3>1, AtProperties DEF n
  <2>3. ~Point /\ end = n + 1
    BY <1>12, <2>2 DEF end, NoChar
  <2>4. \A j \in i..(whole - 1) : t[j] \in Digit
    <3>1. \A j \in i..(whole - 1) : j = i \/ j \in (i + 1)..(whole - 1)
      BY <1>2
    <3> QED BY <1>6, <1>12, <2>1, <3>1
  <2>5. Lead <=> t[i] = "0" /\ n > i
    <3>1. n > i => i + 1 \in (i + 1)..(whole - 1)
      BY <1>1, <1>2, <1>12
    <3>2. "." \notin Digit
      BY DigitSet
    <3> QED BY <1>6, <1>12, <3>1, <3>2
  <2>6. whole = i + 1 <=> ~(n > i)
    BY <1>1, <1>2, <1>12, <2>1
  <2>7. DecimalShape(t, i, whole) <=> (t[i] = "0" => whole = i + 1) /\ (i = 2 => t[i] # "0")
    BY <1>10, <1>12, <2>1, <2>4
  <2>8. t = <<"-", "0">> <=> n = 2 /\ i = 2 /\ t[2] = "0"
    <3>1. ASSUME t[1] = "-", n = 2 PROVE i = 2
      <4>1. 1 \in Int /\ 1 \in 1..n
        BY <3>1
      <4>2. At(t, 1) = "-"
        BY <3>1, <4>1, AtProperties DEF n
      <4> QED BY <4>2 DEF i
    <3> QED BY <1>2, <1>3, <1>8, <3>1
  <2>9. i = 2 => (~(n > i) <=> n = 2)
    BY <1>1, <2>1
  <2> HIDE DEF Lead, Point
  <2> QED BY <2>3, <2>5, <2>6, <2>7, <2>8, <2>9
<1>13. ASSUME At(t, i) \in Digit, ~Below, whole # n + 1
       PROVE  DecimalShape(t, i, whole) <=> t # <<"-", "0">> /\ ~Lead /\ ~Point /\ end = n + 1
  <2>1. /\ i \in 1..n /\ t[i] \in Digit /\ whole \in Nat /\ whole \in (i + 1)..(n + 1) /\ whole \in 1..n
        /\ whole \in Int /\ whole + 1 \in 1..(n + 1)
    BY <1>1, <1>2, <1>5, <1>6, <1>13
  <2>2. At(t, whole) = t[whole]
    BY <2>1, AtProperties DEF n
  <2>3. \A j \in i..(whole - 1) : t[j] \in Digit
    <3>1. \A j \in i..(whole - 1) : j = i \/ j \in (i + 1)..(whole - 1)
      BY <1>2
    <3> QED BY <1>6, <1>13, <2>1, <3>1
  <2> DEFINE RestIn == \A j \in (whole + 1)..n : t[j] \in Digit
  <2>4. DecimalShape(t, i, whole) <=>
          /\ t[i] = "0" => whole = i + 1
          /\ t[whole] = "." /\ whole < n /\ RestIn
          /\ IF i = 2 /\ t[i] = "0" THEN \E j \in (whole + 1)..n : t[j] # "0" ELSE n - whole <= MaxFraction
    BY <1>10, <1>13, <2>1, <2>3
  <2>5. CASE t[whole] # "."
    <3>1. end = whole
      BY <2>2, <2>5 DEF end
    <3> QED BY <1>13, <2>4, <2>5, <3>1
  <2>6. CASE t[whole] = "."
    <3>1. end = AfterDigits(t, whole + 1)
      BY <2>2, <2>6 DEF end
    <3>2. end = n + 1 <=> RestIn
      BY <2>1, <3>1, DigitsToTheEnd DEF n
    <3>3. end = n + 1 => (~Point <=> whole < n /\ n - whole <= MaxFraction)
      <4>1. ASSUME end = n + 1 PROVE end - whole - 1 \notin 1..MaxFraction <=> ~(whole < n /\ n - whole <= MaxFraction)
        <5>1. \A a, b, m \in Nat : (a + 1) - b - 1 \notin 1..m <=> ~(b < a /\ a - b <= m)
          OBVIOUS
        <5> QED BY <1>1, <2>1, <4>1, <5>1
      <4> QED BY <2>2, <2>6, <4>1
    <3>4. ~Lead <=> (t[i] = "0" => whole = i + 1)
      <4>1. CASE whole = i + 1
        BY <2>6, <4>1
      <4>2. CASE whole # i + 1
        <5>1. i + 1 \in (i + 1)..(whole - 1) /\ n > i
          BY <1>1, <1>2, <2>1, <4>2
        <5>2. t[i + 1] \in Digit /\ "." \notin Digit
          BY <1>6, <1>13, <5>1, DigitSet
        <5> QED BY <4>2, <5>1, <5>2
      <4> QED BY <4>1, <4>2
    <3>5. t # <<"-", "0">>
      <4> SUFFICES ASSUME t = <<"-", "0">> PROVE FALSE
        OBVIOUS
      <4>1. n = 2 /\ t[1] = "-" /\ t[2] = "0"
        BY <1>8
      <4>2. whole = 2 \/ whole = 1
        BY <2>1, <4>1
      <4> QED BY <2>6, <4>1, <4>2
    <3>6. ASSUME i = 2, t[i] = "0", whole = i + 1, whole < n PROVE FALSE
      <4>1. t[1] = "-" /\ t[2] = "0" /\ t[3] = "." /\ n > 3
        BY <1>1, <1>2, <1>3, <2>6, <3>6
      <4> QED BY <1>9, <1>13, <4>1
    <3> HIDE DEF Lead, Point, RestIn
    <3> QED BY <2>4, <2>6, <3>2, <3>3, <3>4, <3>5, <3>6
  <2> QED BY <2>5, <2>6
<1>14. ASSUME At(t, i) \in Digit PROVE Taken <=> n <= MaxDecimal /\ DecimalShape(t, i, whole)
  <2>1. n \in 1..MaxDecimal <=> n <= MaxDecimal
    BY <1>1, <1>2, <1>5, <1>14
  <2> HIDE DEF Lead, Point, BelowTaken
  <2> QED BY <1>11, <1>12, <1>13, <1>14, <2>1
<1>15. ASSUME At(t, i) \in Digit PROVE DecimalShape(t, i, whole) <=> \E p \in Nat : DecimalShape(t, i, p)
  <2>1. whole \in Nat
    BY <1>1, <1>2, <1>5, <1>6, <1>15
  <2> QED BY <1>7, <2>1
<1>16. At(t, i) \notin Digit => ~Taken /\ ~(\E p \in Nat : DecimalShape(t, i, p))
  BY <1>7
<1>17. decodeDecimal(t).ok <=> n <= MaxDecimal /\ \E p \in Nat : DecimalShape(t, i, p)
  <2> HIDE DEF Taken
  <2> QED BY <1>4, <1>14, <1>15, <1>16
<1> QED BY <1>17 DEF i, n

\* What the decoder takes for a decimal: the limit on the fraction is not applied below one.
DecimalForm(t) == SignedDecimal(t, <<>>) \/ SignedDecimal(t, <<"-">>)

LEMMA DecimalsHaveForm ==
  ASSUME NEW t \in Texts
  PROVE  decodeDecimal(t).ok <=> DecimalForm(t) /\ Len(t) <= MaxDecimal
<1> DEFINE i == IF At(t, 1) = "-" THEN 2 ELSE 1
           Shaped(j) == \E p \in Nat : DecimalShape(t, j, p)
<1>1. Len(t) \in Nat
  BY TextTypes
<1>2. DecimalForm(t) <=> SignedDecimal(t, <<>>) \/ SignedDecimal(t, <<"-">>)
  BY DEF DecimalForm
<1>3. SignedDecimal(t, <<>>) <=> Shaped(1)
  <2>1. 0 \in {0, 1} /\ 0 + 1 = 1 /\ 0 # 1
    OBVIOUS
  <2>2. SignedDecimal(t, <<>>) <=> /\ 0 = 1 => 1 <= Len(t) /\ t[1] = "-"
                                   /\ \E p \in Nat : DecimalShape(t, 0 + 1, p)
    BY <2>1, DecimalPlaces
  <2> QED BY <2>1, <2>2
<1>4. SignedDecimal(t, <<"-">>) <=> 1 <= Len(t) /\ t[1] = "-" /\ Shaped(2)
  <2>1. 1 \in {0, 1} /\ 1 + 1 = 2 /\ 1 # 0
    OBVIOUS
  <2>2. SignedDecimal(t, <<"-">>) <=> /\ 1 = 1 => 1 <= Len(t) /\ t[1] = "-"
                                      /\ \E p \in Nat : DecimalShape(t, 1 + 1, p)
    BY <2>1, DecimalPlaces
  <2> QED BY <2>1, <2>2
<1>5. At(t, 1) = "-" <=> 1 <= Len(t) /\ t[1] = "-"
  <2>1. 1 \in Int /\ (1 \in 1..Len(t) <=> 1 <= Len(t))
    BY <1>1
  <2> QED BY <2>1, AtProperties DEF NoChar
<1>6. Shaped(1) => At(t, 1) # "-"
  <2> SUFFICES ASSUME NEW p \in Nat, DecimalShape(t, 1, p) PROVE At(t, 1) # "-"
    OBVIOUS
  <2>1. p \in (1 + 1)..(Len(t) + 1) /\ \A j \in 1..(p - 1) : t[j] \in Digit
    BY DEF DecimalShape
  <2>2. 1 \in 1..(p - 1)
    BY <1>1, <2>1
  <2>3. t[1] # "-"
    BY <2>1, <2>2, DigitSet
  <2> QED BY <1>5, <2>3
<1>7. decodeDecimal(t).ok <=> Len(t) <= MaxDecimal /\ Shaped(i)
  BY DecodedDecimals
<1> HIDE DEF Shaped
<1> QED BY <1>2, <1>3, <1>4, <1>5, <1>6, <1>7

\* A decimal within its limits has that form, and the form allows for nothing more than
\* fractions that are too long.
LEMMA FormsAreTexts ==
  ASSUME NEW t \in Texts
  PROVE  /\ DecimalText(t) => DecimalForm(t)
         /\ DecimalForm(t) => DecimalText(t) \/ OverlongFraction(t)
<1> DEFINE body(sign) == SubSeq(t, Len(sign) + 1, Len(t))
           whole(sign, k) == SubSeq(body(sign), 1, k)
           fraction(sign, k) == SubSeq(body(sign), k + 2, Len(body(sign)))
           WholeFits(sign, k) == /\ IsPrefix(sign, t) /\ k \in 1..Len(body(sign))
                                 /\ AllIn(whole(sign, k), Digit) /\ (whole(sign, k)[1] = "0" => k = 1)
           Pointed(sign, k) == /\ body(sign)[k + 1] = "." /\ fraction(sign, k) # <<>>
                               /\ AllIn(fraction(sign, k), Digit)
           Lead(sign, k) == sign = <<"-">> /\ whole(sign, k) = <<"0">>
           Zeros(sign, k) == AllIn(fraction(sign, k), {"0"})
           Limited(sign, k) == Len(fraction(sign, k)) <= MaxFraction
           last(sign, k) == k = Len(body(sign))
           OfText(sign, k) == /\ WholeFits(sign, k)
                              /\ IF last(sign, k) THEN sign = <<"-">> => whole(sign, k) # <<"0">>
                                 ELSE /\ Pointed(sign, k) /\ Limited(sign, k)
                                      /\ Lead(sign, k) => ~Zeros(sign, k)
           OfForm(sign, k) == /\ WholeFits(sign, k)
                              /\ IF last(sign, k) THEN sign = <<"-">> => whole(sign, k) # <<"0">>
                                 ELSE /\ Pointed(sign, k)
                                      /\ IF Lead(sign, k) THEN ~Zeros(sign, k) ELSE Limited(sign, k)
<1>1. DecimalText(t) <=> \E sign \in {<<>>, <<"-">>}, k \in 0..Len(t) : OfText(sign, k)
  BY DEF DecimalText
<1>2. \A sign : SignedDecimal(t, sign) <=> \E k \in 0..Len(t) : OfForm(sign, k)
  BY DEF SignedDecimal
<1>3. DecimalForm(t) <=> \E sign \in {<<>>, <<"-">>}, k \in 0..Len(t) : OfForm(sign, k)
  <2> HIDE DEF OfForm
  <2> QED BY <1>2 DEF DecimalForm
<1>4. \A sign, k : OfText(sign, k) => OfForm(sign, k)
  <2> HIDE DEF WholeFits, Pointed, Lead, Zeros, Limited, last
  <2> QED OBVIOUS
<1>5. \A sign, k : OfForm(sign, k) =>
        \/ OfText(sign, k)
        \/ WholeFits(sign, k) /\ ~last(sign, k) /\ Pointed(sign, k) /\ Lead(sign, k) /\ ~Zeros(sign, k) /\ ~Limited(sign, k)
  <2> HIDE DEF WholeFits, Pointed, Lead, Zeros, Limited, last
  <2> QED OBVIOUS
<1>6. ASSUME NEW sign, NEW k \in 0..Len(t),
             WholeFits(sign, k), ~last(sign, k), Pointed(sign, k), Lead(sign, k), ~Zeros(sign, k), ~Limited(sign, k)
      PROVE  OverlongFraction(t)
  <2>1. sign = <<"-">> /\ Len(sign) = 1 /\ body(sign) = Body(t, 1) /\ 1 \in {0, 1}
    BY <1>6 DEF Body
  <2>2. 1 <= Len(t) /\ t[1] = "-"
    BY <1>6, <2>1, SignsInFront
  <2>3. k \in 1..Len(Body(t, 1)) /\ k # Len(Body(t, 1)) /\ Body(t, 1)[k + 1] = "."
        /\ WholePart(t, 1, k) = <<"0">>
        /\ Behind(t, 1, k) # <<>> /\ AllIn(Behind(t, 1, k), Digit) /\ ~AllIn(Behind(t, 1, k), {"0"})
        /\ ~(Len(Behind(t, 1, k)) <= MaxFraction)
    BY <1>6, <2>1 DEF WholePart, Behind
  <2>4. Len(t) \in Nat /\ Len(Body(t, 1)) = Len(t) - 1
    <3>1. 1 + 1 \in 1..(Len(t) + 1) /\ Len(t) - (1 + 1) + 1 = Len(t) - 1 /\ Len(t) \in Nat
      BY <2>2, TextTypes
    <3> QED BY <3>1, FromProperties DEF From, Body
  <2>5. k \in 1..(Len(t) - 1) /\ k < Len(Body(t, 1))
    BY <2>3, <2>4
  <2>6. /\ k = 1 /\ t[1 + 1] = "0" /\ Body(t, 1)[k + 1] = t[1 + k + 1]
        /\ Len(Behind(t, 1, k)) = Len(t) - 1 - k - 1
        /\ \A S : AllIn(Behind(t, 1, k), S) <=> \A j \in (1 + k + 2)..Len(t) : t[j] \in S
        /\ Behind(t, 1, k) # <<>> <=> Len(t) - 1 - k - 1 # 0
    BY <2>1, <2>2, <2>3, <2>5, PlacesInBody
  <2>7. Len(t) > 3 /\ 4 \in 1..(Len(t) + 1) /\ 1 + 1 = 2 /\ 1 + k + 1 = 3 /\ 1 + k + 2 = 4
        /\ Len(t) - 1 - k - 1 = Len(t) - 4 + 1
    BY <2>3, <2>4, <2>5, <2>6
  <2>8. \A S : AllIn(From(t, 4), S) <=> \A j \in 4..Len(t) : t[j] \in S
    BY <2>7, AllInFrom
  <2>9. Len(From(t, 4)) = Len(t) - 4 + 1
    BY <2>7, FromProperties
  <2>10. AllIn(From(t, 4), Digit) /\ ~AllIn(From(t, 4), {"0"}) /\ Len(From(t, 4)) = Len(Behind(t, 1, k))
    BY <2>3, <2>6, <2>7, <2>8, <2>9
  <2>11. Len(From(t, 4)) > MaxFraction
    BY <2>3, <2>4, <2>9, <2>10, DecimalAssumption
  <2> QED BY <2>2, <2>3, <2>6, <2>7, <2>10, <2>11 DEF OverlongFraction
<1> HIDE DEF OfText, OfForm, WholeFits, Pointed, Lead, Zeros, Limited, last
<1>7. DecimalText(t) => DecimalForm(t)
  BY <1>1, <1>3, <1>4
<1>8. DecimalForm(t) => DecimalText(t) \/ OverlongFraction(t)
  BY <1>1, <1>3, <1>5, <1>6
<1> QED BY <1>7, <1>8

-----------------------------------------------------------------------------
(***************************************************************************)
(* int: the canonical text of a number.                                    *)
(***************************************************************************)
LEMMA DigitTexts ==
  /\ \A v \in 0..9 : Digits[v + 1] \in Digit /\ DigitValue[Digits[v + 1]] = v
  /\ \A c \in Digit : Digits[DigitValue[c] + 1] = c
  /\ \A c \in Digit : c \in Letter
<1> DEFINE at(c) == CHOOSE i \in DOMAIN Digits : Digits[i] = c
<1>1. DOMAIN Digits = 1..10
  BY DEF Digits
<1>2. \A c \in Digit : at(c) \in 1..10 /\ Digits[at(c)] = c /\ DigitValue[c] = at(c) - 1
  <2> SUFFICES ASSUME NEW c \in Digit
               PROVE  at(c) \in 1..10 /\ Digits[at(c)] = c /\ DigitValue[c] = at(c) - 1
    OBVIOUS
  <2>1. at(c) \in DOMAIN Digits /\ Digits[at(c)] = c
    BY DEF Digit
  <2>2. DigitValue[c] = at(c) - 1
    BY DEF DigitValue
  <2> QED BY <1>1, <2>1, <2>2
<1> HIDE DEF at
<1>3. \A c \in Digit : Digits[DigitValue[c] + 1] = c
  <2>1. \A c \in Digit : (at(c) - 1) + 1 = at(c)
    BY <1>2
  <2> QED BY <1>2, <2>1
<1>4. \A i, j \in 1..10 : Digits[i] = Digits[j] => i = j
  BY DEF Digits
<1>5. ASSUME NEW v \in 0..9 PROVE Digits[v + 1] \in Digit /\ DigitValue[Digits[v + 1]] = v
  <2>1. v + 1 \in 1..10
    OBVIOUS
  <2>2. Digits[v + 1] \in Digit
    BY <1>1, <2>1 DEF Digit
  <2>3. at(Digits[v + 1]) = v + 1
    BY <1>2, <1>4, <2>1, <2>2
  <2>4. (v + 1) - 1 = v
    OBVIOUS
  <2> QED BY <1>2, <2>2, <2>3, <2>4
<1>6. \A c \in Digit : c \in Letter
  BY DEF Letter
<1> QED BY <1>3, <1>5, <1>6

\* All digits but the last, and what the last adds to the number.
AllDigits(d) == d \in Texts /\ AllIn(d, Digit)
AllButLast(d) == SubSeq(d, 1, Len(d) - 1)
LEMMA LastDigit ==
  ASSUME NEW d, AllDigits(d), Len(d) >= 1
  PROVE  /\ AllDigits(AllButLast(d)) /\ Len(AllButLast(d)) = Len(d) - 1
         /\ \A i \in 1..(Len(d) - 1) : AllButLast(d)[i] = d[i]
         /\ d[Len(d)] \in Digit
         /\ Number(d) = 10 * Number(AllButLast(d)) + DigitValue[d[Len(d)]]
         /\ Number(d) \in Nat /\ Number(AllButLast(d)) \in Nat
<1> DEFINE n == Len(d)
           f == Counted(d)
           s == AllButLast(d)
<1>1. d \in Texts /\ AllIn(d, Digit) /\ n \in Nat /\ n >= 1 /\ DOMAIN d = 1..n
  BY TextTypes DEF AllDigits
<1>2. \A i \in 1..n : d[i] \in Digit
  BY <1>1 DEF AllIn
<1>3. /\ Number(d) = f[n] /\ \A i \in 1..n : f[i] = f[i - 1] * 10 + DigitValue[d[i]]
      /\ \A i \in 0..n : f[i] \in Nat
  BY <1>1, CountedProperties
<1>4. n - 1 \in 0..n /\ n \in 1..n /\ n \in 0..n
  BY <1>1
<1>5. Number(s) = f[n - 1]
  BY <1>1, <1>4, NumberOfPrefix DEF AllButLast
<1>6. s \in Texts /\ Len(s) = n - 1 /\ \A i \in 1..(n - 1) : s[i] = d[i]
  <2>1. 1 \in Int /\ n - 1 \in Int /\ \A i \in 1..(n - 1) : d[i] \in Letter
    BY <1>1, TextTypes
  <2>2. /\ s \in Seq(Letter) /\ Len(s) = IF 1 <= n - 1 THEN n - 1 - 1 + 1 ELSE 0
        /\ \A i \in 1..(n - 1 - 1 + 1) : s[i] = d[1 + i - 1]
    BY <2>1, SubSeqProperties DEF AllButLast
  <2> HIDE DEF s, n
  <2>3. (IF 1 <= n - 1 THEN n - 1 - 1 + 1 ELSE 0) = n - 1 /\ n - 1 - 1 + 1 = n - 1
    BY <1>1
  <2>4. \A i \in 1..(n - 1) : 1 + i - 1 = i
    BY <1>1
  <2> QED BY <2>2, <2>3, <2>4 DEF Texts
<1>7. AllDigits(s)
  <2>1. DOMAIN s = 1..(n - 1)
    BY <1>6, TextTypes
  <2>2. \A i \in 1..(n - 1) : i \in 1..n
    BY <1>1
  <2> HIDE DEF s, n
  <2> QED BY <1>2, <1>6, <2>1, <2>2 DEF AllDigits, AllIn
<1>8. \A x, y \in Nat : x * 10 + y = 10 * x + y
  OBVIOUS
<1>9. DigitValue[d[n]] \in Nat /\ d[n] \in Digit
  <2>1. \A v \in 0..9 : v \in Nat
    OBVIOUS
  <2> QED BY <1>2, <1>4, <2>1, DigitValues
<1>10. f[n] = 10 * f[n - 1] + DigitValue[d[n]]
  BY <1>3, <1>4, <1>8, <1>9
<1> HIDE DEF f, s
<1> QED BY <1>3, <1>4, <1>5, <1>6, <1>7, <1>9, <1>10 DEF s

LEMMA SameDigits ==
  ASSUME NEW d, NEW e, AllDigits(d), AllDigits(e), Len(d) >= 1, Len(d) = Len(e),
         AllButLast(d) = AllButLast(e), d[Len(d)] = e[Len(e)]
  PROVE  d = e
<1> DEFINE n == Len(d)
<1>1. d \in Texts /\ e \in Texts /\ n \in Nat /\ n >= 1 /\ Len(e) = n
  BY TextTypes DEF AllDigits
<1>2. ASSUME NEW i \in 1..n PROVE d[i] = e[i]
  <2>1. CASE i = n
    BY <2>1
  <2>2. CASE i # n
    <3>1. i \in 1..(n - 1)
      BY <1>1, <2>2
    <3>2. AllButLast(d)[i] = d[i] /\ AllButLast(e)[i] = e[i]
      BY <1>1, <3>1, LastDigit
    <3> QED BY <3>2
  <2> QED BY <2>1, <2>2
<1> HIDE DEF n
<1>3. Len(d) = Len(e) /\ \A i \in 1..Len(d) : d[i] = e[i]
  BY <1>1, <1>2 DEF n
<1> QED BY <1>1, <1>3, SeqEqual DEF Texts

LEMMA OneMoreDigit ==
  ASSUME NEW d, AllDigits(d), NEW c \in Digit
  PROVE  /\ AllDigits(Append(d, c)) /\ Len(Append(d, c)) = Len(d) + 1
         /\ \A i \in 1..Len(d) : Append(d, c)[i] = d[i]
         /\ Append(d, c)[Len(d) + 1] = c
         /\ Number(Append(d, c)) = 10 * Number(d) + DigitValue[c]
<1> DEFINE a == Append(d, c)
           n == Len(d)
<1>1. d \in Texts /\ n \in Nat /\ DOMAIN d = 1..n /\ c \in Letter
  BY TextTypes, DigitTexts DEF AllDigits
<1>2. a \in Texts /\ Len(a) = n + 1 /\ a[n + 1] = c /\ \A i \in 1..n : a[i] = d[i]
  BY <1>1 DEF Texts
<1> HIDE DEF a, n
<1>3. AllDigits(a)
  <2>1. DOMAIN a = 1..(n + 1)
    BY <1>2, TextTypes
  <2>2. \A i \in 1..(n + 1) : i \in 1..n \/ i = n + 1
    BY <1>1
  <2>3. \A i \in 1..n : d[i] \in Digit
    BY <1>1 DEF AllDigits, AllIn
  <2> QED BY <1>2, <2>1, <2>2, <2>3 DEF AllDigits, AllIn
<1>4. Len(a) >= 1 /\ Len(a) - 1 = n
  BY <1>1, <1>2
<1>5. Number(a) = 10 * Number(AllButLast(a)) + DigitValue[c]
  BY <1>2, <1>3, <1>4, LastDigit
<1>6. AllButLast(a) = d
  <2>1. AllButLast(a) \in Texts /\ Len(AllButLast(a)) = n /\ \A i \in 1..n : AllButLast(a)[i] = a[i]
    BY <1>3, <1>4, LastDigit DEF AllDigits
  <2>2. Len(AllButLast(a)) = Len(d) /\ \A i \in 1..Len(AllButLast(a)) : AllButLast(a)[i] = d[i]
    BY <1>2, <2>1 DEF n
  <2> QED BY <1>1, <2>1, <2>2, SeqEqual DEF Texts
<1> QED BY <1>2, <1>3, <1>5, <1>6 DEF a, n

LEMMA OneDigit ==
  ASSUME NEW c \in Digit
  PROVE  /\ AllDigits(<<c>>) /\ Len(<<c>>) = 1 /\ <<c>>[1] = c
         /\ Number(<<c>>) = DigitValue[c]
<1>1. <<>> \in Texts /\ Len(<<>>) = 0 /\ AllIn(<<>>, Digit)
  <2>1. <<>> \in Texts /\ Len(<<>>) = 0
    BY DEF Texts
  <2>2. DOMAIN <<>> = 1..0
    BY <2>1, TextTypes
  <2> QED BY <2>1, <2>2 DEF AllIn
<1>2. Number(<<>>) = 0
  BY <1>1, CountedProperties
<1>3. <<c>> = Append(<<>>, c)
  OBVIOUS
<1>4. DigitValue[c] \in 0..9
  BY DigitValues
<1>5. \A v \in 0..9 : 10 * 0 + v = v
  OBVIOUS
<1>6. /\ AllDigits(Append(<<>>, c)) /\ Number(Append(<<>>, c)) = 10 * Number(<<>>) + DigitValue[c]
  BY <1>1, OneMoreDigit DEF AllDigits
<1> QED BY <1>2, <1>3, <1>4, <1>5, <1>6

LEMMA LeadingDigit ==
  ASSUME NEW d, AllDigits(d), Len(d) >= 1, d[1] # "0"
  PROVE  Number(d) >= TenTo[Len(d) - 1]
<1> DEFINE Great(n) == \A e \in Texts : AllDigits(e) /\ Len(e) = n + 1 /\ e[1] # "0" => Number(e) >= TenTo[n]
           T == {n \in Nat : Great(n)}
<1>1. ASSUME NEW n \in Nat, NEW e \in Texts, AllDigits(e), Len(e) = n + 1
      PROVE  /\ AllDigits(AllButLast(e)) /\ AllButLast(e) \in Texts /\ Len(AllButLast(e)) = n
             /\ n >= 1 => AllButLast(e)[1] = e[1]
             /\ e[n + 1] \in Digit /\ DigitValue[e[n + 1]] \in 0..9
             /\ DigitValue[e[n + 1]] = 0 <=> e[n + 1] = "0"
             /\ Number(AllButLast(e)) \in Nat
             /\ Number(e) = 10 * Number(AllButLast(e)) + DigitValue[e[n + 1]]
  <2>1. Len(e) >= 1 /\ Len(e) - 1 = n /\ (n >= 1 => 1 \in 1..(Len(e) - 1))
    BY <1>1
  <2>2. /\ AllDigits(AllButLast(e)) /\ Len(AllButLast(e)) = Len(e) - 1
        /\ \A i \in 1..(Len(e) - 1) : AllButLast(e)[i] = e[i]
        /\ e[Len(e)] \in Digit
        /\ Number(e) = 10 * Number(AllButLast(e)) + DigitValue[e[Len(e)]]
        /\ Number(AllButLast(e)) \in Nat
    BY <1>1, <2>1, LastDigit
  <2>3. AllButLast(e) \in Texts
    BY <2>2 DEF AllDigits
  <2> QED BY <1>1, <2>1, <2>2, <2>3, DigitValues
<1>2. 0 \in T
  <2> SUFFICES ASSUME NEW e \in Texts, AllDigits(e), Len(e) = 0 + 1, e[1] # "0" PROVE Number(e) >= TenTo[0]
    OBVIOUS
  <2>1. /\ DigitValue[e[0 + 1]] \in 0..9 /\ (DigitValue[e[0 + 1]] = 0 <=> e[0 + 1] = "0")
        /\ Number(AllButLast(e)) \in Nat
        /\ Number(e) = 10 * Number(AllButLast(e)) + DigitValue[e[0 + 1]]
    BY <1>1
  <2>2. 0 + 1 = 1
    OBVIOUS
  <2>3. \A x \in Nat, v \in 0..9 : v # 0 => 10 * x + v >= 1
    OBVIOUS
  <2> QED BY <2>1, <2>2, <2>3, PowersOfTen
<1>3. ASSUME NEW n \in T PROVE n + 1 \in T
  <2> SUFFICES ASSUME NEW e \in Texts, AllDigits(e), Len(e) = (n + 1) + 1, e[1] # "0"
               PROVE  Number(e) >= TenTo[n + 1]
    OBVIOUS
  <2> DEFINE s == AllButLast(e)
             v == DigitValue[e[(n + 1) + 1]]
  <2>1. n \in Nat /\ n + 1 \in Nat /\ n + 1 >= 1
    OBVIOUS
  <2>2. /\ AllDigits(s) /\ s \in Texts /\ Len(s) = n + 1 /\ s[1] = e[1]
        /\ v \in 0..9 /\ Number(s) \in Nat /\ Number(e) = 10 * Number(s) + v
    BY <1>1, <2>1
  <2>3. Number(s) >= TenTo[n]
    BY <1>3, <2>2
  <2>4. TenTo[n] \in Nat /\ TenTo[n + 1] = 10 * TenTo[n]
    BY <2>1, PowersOfTen
  <2> HIDE DEF s, v, T
  <2>5. \A x, y \in Nat, w \in 0..9 : x >= y => 10 * x + w >= 10 * y
    OBVIOUS
  <2> QED BY <2>2, <2>3, <2>4, <2>5
<1>4. T \in SUBSET Nat
  OBVIOUS
<1> HIDE DEF T
<1>5. T = Nat
  BY <1>2, <1>3, <1>4, SetInduction
<1>6. d \in Texts /\ Len(d) \in Nat
  BY TextTypes DEF AllDigits
<1>7. Len(d) - 1 \in Nat /\ (Len(d) - 1) + 1 = Len(d)
  BY <1>6
<1>8. Great(Len(d) - 1)
  BY <1>5, <1>7 DEF T
<1> QED BY <1>6, <1>7, <1>8

\* The text a number is written as: no zero before another digit.
Canonical(d) == AllDigits(d) /\ Len(d) >= 1 /\ (d[1] = "0" => Len(d) = 1)

LEMMA CanonicalFront ==
  ASSUME NEW d, Canonical(d), Len(d) > 1
  PROVE  Canonical(AllButLast(d)) /\ Number(AllButLast(d)) >= 1
<1> DEFINE s == AllButLast(d)
<1>1. AllDigits(d) /\ Len(d) \in Nat /\ Len(d) >= 1 /\ d[1] # "0"
  BY TextTypes DEF Canonical, AllDigits
<1>2. 1 \in 1..(Len(d) - 1)
  BY <1>1
<1>3. AllDigits(s) /\ Len(s) = Len(d) - 1 /\ s[1] = d[1] /\ Number(s) \in Nat
  BY <1>1, <1>2, LastDigit
<1> HIDE DEF s
<1>4. Len(s) >= 1 /\ Len(s) - 1 \in Nat
  BY <1>1, <1>3
<1>5. Number(s) >= TenTo[Len(s) - 1]
  BY <1>1, <1>3, <1>4, LeadingDigit
<1>6. TenTo[Len(s) - 1] \in Nat \ {0}
  BY <1>4, PowersOfTen
<1>7. Number(s) >= 1
  BY <1>3, <1>5, <1>6
<1> QED BY <1>1, <1>3, <1>4, <1>7 DEF Canonical, s

\* A longer canonical text stands for a number of ten or more.
LEMMA CanonicalSize ==
  ASSUME NEW d, Canonical(d)
  PROVE  /\ Number(d) \in Nat
         /\ Len(d) = 1 => Number(d) = DigitValue[d[1]] /\ d = <<d[1]>> /\ d[1] \in Digit
         /\ Len(d) > 1 => Number(d) >= 10
<1>1. AllDigits(d) /\ d \in Texts /\ Len(d) \in Nat /\ Len(d) >= 1
  BY TextTypes DEF Canonical, AllDigits
<1>2. /\ d[Len(d)] \in Digit /\ Number(AllButLast(d)) \in Nat /\ Number(d) \in Nat
      /\ Number(d) = 10 * Number(AllButLast(d)) + DigitValue[d[Len(d)]]
  BY <1>1, LastDigit
<1>3. ASSUME Len(d) = 1 PROVE Number(d) = DigitValue[d[1]] /\ d = <<d[1]>> /\ d[1] \in Digit
  <2>1. d = <<d[1]>>
    BY <1>1, <1>3, ShortTexts
  <2>2. d[1] \in Digit
    BY <1>2, <1>3
  <2> QED BY <2>1, <2>2, OneDigit
<1>4. ASSUME Len(d) > 1 PROVE Number(d) >= 10
  <2>1. Number(AllButLast(d)) >= 1
    BY <1>4, CanonicalFront
  <2>2. DigitValue[d[Len(d)]] \in 0..9
    BY <1>2, DigitValues
  <2>3. \A x \in Nat, v \in 0..9 : x >= 1 => 10 * x + v >= 10
    OBVIOUS
  <2> QED BY <1>2, <2>1, <2>2, <2>3
<1> QED BY <1>2, <1>3, <1>4

\* A number has one canonical text.
LEMMA CanonicalIsUnique ==
  ASSUME NEW d, NEW e, Canonical(d), Canonical(e), Number(d) = Number(e)
  PROVE  d = e
<1> DEFINE One(n) == \A a, b \in Texts : Canonical(a) /\ Canonical(b) /\ Len(a) = n + 1 /\ Number(a) = Number(b) => a = b
           T == {n \in Nat : One(n)}
<1>1. ASSUME NEW a \in Texts, Canonical(a)
      PROVE  /\ AllDigits(a) /\ Len(a) \in Nat /\ Len(a) >= 1
             /\ DigitValue[a[1]] \in 0..9 \/ Len(a) > 1
  <2>1. a \in Texts /\ AllDigits(a) /\ Len(a) \in Nat /\ Len(a) >= 1
    BY <1>1, TextTypes DEF Canonical, AllDigits
  <2>2. Len(a) = 1 \/ Len(a) > 1
    <3>1. \A x \in Nat : x >= 1 => x = 1 \/ x > 1
      OBVIOUS
    <3> QED BY <2>1, <3>1
  <2> QED BY <1>1, <2>1, <2>2, CanonicalSize, DigitValues
<1>2. 0 \in T
  <2> SUFFICES ASSUME NEW a \in Texts, NEW b \in Texts, Canonical(a), Canonical(b), Len(a) = 0 + 1, Number(a) = Number(b)
               PROVE  a = b
    OBVIOUS
  <2>1. Len(a) = 1 /\ ~(Len(a) > 1)
    OBVIOUS
  <2>2. Number(a) = DigitValue[a[1]] /\ a = <<a[1]>> /\ a[1] \in Digit /\ DigitValue[a[1]] \in 0..9
    BY <2>1, CanonicalSize, DigitValues
  <2>3. \A v \in 0..9 : ~(v >= 10)
    OBVIOUS
  <2>4. Len(b) = 1
    <3>1. ~(Len(b) > 1)
      BY <2>2, <2>3, CanonicalSize
    <3>2. Len(b) \in Nat /\ Len(b) >= 1
      BY <1>1
    <3>3. \A x \in Nat : x >= 1 => x = 1 \/ x > 1
      OBVIOUS
    <3> QED BY <3>1, <3>2, <3>3
  <2>5. Number(b) = DigitValue[b[1]] /\ b = <<b[1]>> /\ b[1] \in Digit
    BY <2>4, CanonicalSize
  <2>6. a[1] = b[1]
    <3>1. Digits[DigitValue[a[1]] + 1] = a[1] /\ Digits[DigitValue[b[1]] + 1] = b[1]
      BY <2>2, <2>5, DigitTexts
    <3>2. DigitValue[a[1]] = DigitValue[b[1]]
      BY <2>2, <2>5
    <3> QED BY <3>1, <3>2
  <2> QED BY <2>2, <2>5, <2>6
<1>3. ASSUME NEW n \in T PROVE n + 1 \in T
  <2> SUFFICES ASSUME NEW a \in Texts, NEW b \in Texts, Canonical(a), Canonical(b), Len(a) = (n + 1) + 1, Number(a) = Number(b)
               PROVE  a = b
    OBVIOUS
  <2>1. n \in Nat /\ Len(a) > 1 /\ Len(a) >= 1 /\ Len(a) - 1 = n + 1
    OBVIOUS
  <2>2. Len(b) > 1 /\ Len(b) >= 1 /\ Len(b) \in Nat
    <3>1. Number(b) >= 10
      BY <2>1, CanonicalSize
    <3>2. Len(b) \in Nat /\ Len(b) >= 1
      BY <1>1
    <3>3. Len(b) # 1
      <4> SUFFICES ASSUME Len(b) = 1 PROVE FALSE
        OBVIOUS
      <4>1. Number(b) \in 0..9
        BY CanonicalSize, DigitValues
      <4>2. \A v \in 0..9 : ~(v >= 10)
        OBVIOUS
      <4> QED BY <3>1, <4>1, <4>2
    <3>4. \A x \in Nat : x >= 1 => x = 1 \/ x > 1
      OBVIOUS
    <3> QED BY <3>2, <3>3, <3>4
  <2>3. /\ AllDigits(AllButLast(a)) /\ Len(AllButLast(a)) = Len(a) - 1 /\ a[Len(a)] \in Digit
        /\ Number(a) = 10 * Number(AllButLast(a)) + DigitValue[a[Len(a)]] /\ Number(AllButLast(a)) \in Nat
    BY <1>1, <2>1, LastDigit
  <2>4. /\ AllDigits(AllButLast(b)) /\ Len(AllButLast(b)) = Len(b) - 1 /\ b[Len(b)] \in Digit
        /\ Number(b) = 10 * Number(AllButLast(b)) + DigitValue[b[Len(b)]] /\ Number(AllButLast(b)) \in Nat
    BY <1>1, <2>2, LastDigit
  <2>5. DigitValue[a[Len(a)]] \in 0..9 /\ DigitValue[b[Len(b)]] \in 0..9
    BY <2>3, <2>4, DigitValues
  <2>7. Number(AllButLast(a)) = Number(AllButLast(b)) /\ DigitValue[a[Len(a)]] = DigitValue[b[Len(b)]]
    <3>1. 10 * Number(AllButLast(a)) + DigitValue[a[Len(a)]] = 10 * Number(AllButLast(b)) + DigitValue[b[Len(b)]]
      BY <2>3, <2>4
    <3>2. /\ Number(AllButLast(a)) \in Nat /\ Number(AllButLast(b)) \in Nat
          /\ DigitValue[a[Len(a)]] \in 0..9 /\ DigitValue[b[Len(b)]] \in 0..9
      BY <2>3, <2>4, <2>5
    <3> DEFINE x == Number(AllButLast(a))
               y == Number(AllButLast(b))
               v == DigitValue[a[Len(a)]]
               w == DigitValue[b[Len(b)]]
    <3>3. x \in Nat /\ y \in Nat /\ v \in 0..9 /\ w \in 0..9 /\ 10 * x + v = 10 * y + w
      BY <3>1, <3>2
    <3> HIDE DEF x, y, v, w
    <3>4. x = y /\ v = w
      BY ONLY <3>3
    <3> QED BY <3>4 DEF x, y, v, w
  <2>8. Canonical(AllButLast(a)) /\ Canonical(AllButLast(b))
    BY <2>1, <2>2, CanonicalFront
  <2>9. AllButLast(a) = AllButLast(b)
    <3>1. AllButLast(a) \in Texts /\ AllButLast(b) \in Texts /\ Len(AllButLast(a)) = n + 1
      BY <2>1, <2>3, <2>4 DEF AllDigits
    <3> QED BY <2>7, <2>8, <3>1
  <2>10. a[Len(a)] = b[Len(b)]
    <3>1. Digits[DigitValue[a[Len(a)]] + 1] = a[Len(a)] /\ Digits[DigitValue[b[Len(b)]] + 1] = b[Len(b)]
      BY <2>3, <2>4, DigitTexts
    <3> QED BY <2>7, <3>1
  <2>11. Len(a) = Len(b)
    <3>1. Len(a) - 1 = Len(b) - 1
      BY <2>3, <2>4, <2>9
    <3> QED BY <2>1, <2>2, <3>1
  <2>12. AllDigits(a) /\ AllDigits(b)
    BY <1>1
  <2> QED BY <2>1, <2>9, <2>10, <2>11, <2>12, SameDigits
<1>4. T \in SUBSET Nat
  OBVIOUS
<1> HIDE DEF T
<1>5. T = Nat
  BY <1>2, <1>3, <1>4, SetInduction
<1>6. d \in Texts /\ e \in Texts /\ Len(d) \in Nat /\ Len(d) >= 1
  BY TextTypes DEF Canonical, AllDigits
<1>7. Len(d) - 1 \in Nat /\ (Len(d) - 1) + 1 = Len(d)
  BY <1>6
<1>8. One(Len(d) - 1)
  BY <1>5, <1>7 DEF T
<1> QED BY <1>6, <1>7, <1>8

\* The two steps of strconv.AppendInt.
LEMMA ShortNumeral ==
  ASSUME NEW v \in 0..9
  PROVE  Canonical(<<Digits[v + 1]>>) /\ Number(<<Digits[v + 1]>>) = v
<1>1. Digits[v + 1] \in Digit /\ DigitValue[Digits[v + 1]] = v
  BY DigitTexts
<1>2. AllDigits(<<Digits[v + 1]>>) /\ Len(<<Digits[v + 1]>>) = 1 /\ Number(<<Digits[v + 1]>>) = v
  BY <1>1, OneDigit
<1>3. 1 >= 1
  OBVIOUS
<1> QED BY <1>2, <1>3 DEF Canonical

LEMMA LongerNumeral ==
  ASSUME NEW d, Canonical(d), Number(d) >= 1, NEW v \in 0..9
  PROVE  /\ Canonical(Append(d, Digits[v + 1]))
         /\ Number(Append(d, Digits[v + 1])) = 10 * Number(d) + v
<1> DEFINE a == Append(d, Digits[v + 1])
<1>1. Digits[v + 1] \in Digit /\ DigitValue[Digits[v + 1]] = v
  BY DigitTexts
<1>2. AllDigits(d) /\ Len(d) \in Nat /\ Len(d) >= 1
  BY TextTypes DEF Canonical, AllDigits
<1>3. /\ AllDigits(a) /\ Len(a) = Len(d) + 1 /\ Number(a) = 10 * Number(d) + v
      /\ \A i \in 1..Len(d) : a[i] = d[i]
  BY <1>1, <1>2, OneMoreDigit
<1>4. 1 \in 1..Len(d) /\ Len(d) + 1 >= 1
  BY <1>2
<1>5. d[1] # "0"
  <2> SUFFICES ASSUME d[1] = "0" PROVE FALSE
    OBVIOUS
  <2>1. Len(d) = 1
    BY DEF Canonical
  <2>2. Number(d) = DigitValue[d[1]] /\ d[1] \in Digit
    BY <2>1, CanonicalSize
  <2>3. Number(d) = 0
    BY <2>2, DigitValues
  <2> QED BY <2>3
<1> HIDE DEF a
<1> QED BY <1>3, <1>4, <1>5 DEF Canonical, a

\* Every natural number has one.
Stands(d, n) == Canonical(d) /\ Number(d) = n
Writes(g, n) == IF n < 10 THEN <<Digits[n + 1]>> ELSE Append(g[n \div 10], Digits[(n % 10) + 1])

LEMMA WrittenInTurn ==
  ASSUME NEW g, NEW n \in Nat, n >= 10 => Stands(g[n \div 10], n \div 10)
  PROVE  Stands(Writes(g, n), n)
<1>1. CASE n < 10
  <2>1. n \in 0..9
    BY <1>1
  <2> QED BY <1>1, <2>1, ShortNumeral DEF Stands, Writes
<1>2. CASE ~(n < 10)
  <2>1. n >= 10 /\ n \div 10 \in Nat /\ n \div 10 >= 1 /\ n % 10 \in 0..9 /\ n = 10 * (n \div 10) + (n % 10)
    <3>1. n >= 10
      BY <1>2
    <3>2. n \div 10 \in Nat
      OBVIOUS
    <3>3. n \div 10 >= 1
      BY <3>1
    <3>4. n % 10 \in 0..9
      OBVIOUS
    <3>5. n = 10 * (n \div 10) + (n % 10)
      OBVIOUS
    <3> QED BY <3>1, <3>2, <3>3, <3>4, <3>5
  <2>2. Canonical(g[n \div 10]) /\ Number(g[n \div 10]) = n \div 10
    BY <2>1 DEF Stands
  <2>3. /\ Canonical(Append(g[n \div 10], Digits[(n % 10) + 1]))
        /\ Number(Append(g[n \div 10], Digits[(n % 10) + 1])) = 10 * (n \div 10) + (n % 10)
    BY <2>1, <2>2, LongerNumeral
  <2> QED BY <1>2, <2>1, <2>3 DEF Stands, Writes
<1> QED BY <1>1, <1>2

\* What is written digit after digit stands for its number.
LEMMA WrittenStands ==
  ASSUME NEW g, \A n \in Nat : g[n] = Writes(g, n)
  PROVE  \A n \in Nat : Stands(g[n], n)
<1> DEFINE T == {n \in Nat : \A m \in 0..n : Stands(g[m], m)}
<1>1. T \in SUBSET Nat
  OBVIOUS
<1>2. 0 \in T
  <2>1. Stands(g[0], 0)
    BY WrittenInTurn
  <2>2. \A m \in 0..0 : m = 0
    OBVIOUS
  <2> QED BY <2>1, <2>2
<1>3. ASSUME NEW n \in T PROVE n + 1 \in T
  <2>1. n \in Nat /\ n + 1 \in Nat /\ \A m \in 0..n : Stands(g[m], m)
    OBVIOUS
  <2>2. n + 1 >= 10 => (n + 1) \div 10 \in 0..n
    BY <2>1
  <2>3. Stands(g[n + 1], n + 1)
    BY <2>1, <2>2, WrittenInTurn
  <2>4. \A m \in 0..(n + 1) : m \in 0..n \/ m = n + 1
    BY <2>1
  <2> QED BY <2>1, <2>3, <2>4
<1> HIDE DEF T
<1>4. T = Nat
  BY <1>1, <1>2, <1>3, SetInduction
<1> SUFFICES ASSUME NEW n \in Nat PROVE Stands(g[n], n)
  OBVIOUS
<1>5. n \in T /\ n \in 0..n
  BY <1>4
<1> QED BY <1>5 DEF T

LEMMA NumeralsExist == \A n \in Nat : \E d : Stands(d, n)
<1> DEFINE T == {n \in Nat : \A m \in 0..n : \E d : Stands(d, m)}
           g == [m \in Nat |-> CHOOSE d : Stands(d, m)]
<1>1. T \in SUBSET Nat
  OBVIOUS
<1>2. ASSUME NEW n \in Nat, n >= 10 => \E d : Stands(d, n \div 10) PROVE \E d : Stands(d, n)
  <2>1. n \div 10 \in Nat
    OBVIOUS
  <2>2. g[n \div 10] = CHOOSE d : Stands(d, n \div 10)
    BY <2>1
  <2>3. n >= 10 => Stands(g[n \div 10], n \div 10)
    BY <1>2, <2>2
  <2> HIDE DEF g
  <2> QED BY <2>3, WrittenInTurn
<1>3. 0 \in T
  <2>1. \E d : Stands(d, 0)
    BY <1>2
  <2>2. \A m \in 0..0 : m = 0
    OBVIOUS
  <2> QED BY <2>1, <2>2
<1>4. ASSUME NEW n \in T PROVE n + 1 \in T
  <2>1. n \in Nat /\ n + 1 \in Nat /\ \A m \in 0..n : \E d : Stands(d, m)
    OBVIOUS
  <2>2. n + 1 >= 10 => (n + 1) \div 10 \in 0..n
    BY <2>1
  <2>3. \E d : Stands(d, n + 1)
    BY <1>2, <2>1, <2>2
  <2>4. \A m \in 0..(n + 1) : m \in 0..n \/ m = n + 1
    BY <2>1
  <2> QED BY <2>1, <2>3, <2>4
<1> HIDE DEF T
<1>5. T = Nat
  BY <1>1, <1>3, <1>4, SetInduction
<1> SUFFICES ASSUME NEW n \in Nat PROVE \E d : Stands(d, n)
  OBVIOUS
<1>6. n \in T /\ n \in 0..n
  BY <1>5
<1> QED BY <1>6 DEF T

\* strconv.AppendInt writes the canonical text of a number.
LEMMA NatTexts == \A n \in Nat : Stands(NatText[n], n)
<1> DEFINE Is(g) == g = [n \in Nat |-> IF n < 10 THEN <<Digits[n + 1]>>
                                       ELSE Append(g[n \div 10], Digits[(n % 10) + 1])]
           h == [n \in Nat |-> CHOOSE d : Stands(d, n)]
<1>1. \A n \in Nat : Stands(h[n], n)
  BY NumeralsExist
<1>2. \A n \in Nat : h[n] = Writes(h, n)
  <2> SUFFICES ASSUME NEW n \in Nat PROVE h[n] = Writes(h, n)
    OBVIOUS
  <2>1. n \div 10 \in Nat
    OBVIOUS
  <2>2. Stands(h[n], n) /\ Stands(h[n \div 10], n \div 10)
    BY <1>1, <2>1
  <2> HIDE DEF h
  <2>3. Stands(Writes(h, n), n)
    BY <2>2, WrittenInTurn
  <2> QED BY <2>2, <2>3, CanonicalIsUnique DEF Stands
<1>3. h = [n \in Nat |-> h[n]]
  OBVIOUS
<1> HIDE DEF h
<1>4. Is(h)
  <2>1. h = [n \in Nat |-> Writes(h, n)]
    BY <1>2, <1>3
  <2> QED BY <2>1 DEF Writes
<1>5. NatText = CHOOSE g : Is(g)
  BY DEF NatText
<1> HIDE DEF Is
<1>6. Is(NatText)
  BY <1>4, <1>5
<1>7. \A n \in Nat : NatText[n] = Writes(NatText, n)
  BY <1>6 DEF Is, Writes
<1> QED BY <1>7, WrittenStands

-----------------------------------------------------------------------------
(***************************************************************************)
(* int: its width.                                                         *)
(***************************************************************************)
LEMMA PowersGrow ==
  ASSUME NEW a \in Nat, NEW b \in Nat, a <= b
  PROVE  TenTo[a] <= TenTo[b]
<1>1. b - a \in Nat /\ a + (b - a) = b
  OBVIOUS
<1>2. TenTo[a] * TenTo[b - a] = TenTo[b]
  BY <1>1, PowersAdd
<1>3. TenTo[a] \in Nat /\ TenTo[b - a] \in Nat \ {0}
  BY <1>1, PowersOfTen
<1>4. \A y \in Nat \ {0} : \A x \in Nat : x <= x * y
  OBVIOUS
<1> QED BY <1>2, <1>3, <1>4

\* What is read so far grows with every digit.
LEMMA CountedGrows ==
  ASSUME NEW d, AllDigits(d), NEW k \in 0..Len(d)
  PROVE  Counted(d)[k] <= Number(d)
<1> DEFINE n == Len(d)
           f == Counted(d)
           T == {j \in Nat : k + j <= n => f[k] <= f[k + j]}
<1>1. n \in Nat /\ d \in Texts /\ AllIn(d, Digit) /\ DOMAIN d = 1..n /\ k \in Nat /\ k <= n
  BY TextTypes DEF AllDigits
<1>2. /\ Number(d) = f[n] /\ \A i \in 1..n : f[i] = f[i - 1] * 10 + DigitValue[d[i]]
      /\ \A i \in 0..n : f[i] \in Nat
  BY <1>1, CountedProperties
<1>3. \A i \in 1..n : DigitValue[d[i]] \in 0..9
  BY <1>1, DigitValues DEF AllIn
<1> HIDE DEF n, f
<1>4. T \in SUBSET Nat /\ 0 \in T
  <2>1. k + 0 = k /\ f[k] \in Nat
    BY <1>1, <1>2
  <2> QED BY <2>1
<1>5. ASSUME NEW j \in T PROVE j + 1 \in T
  <2> SUFFICES ASSUME k + (j + 1) <= n PROVE f[k] <= f[k + (j + 1)]
    OBVIOUS
  <2>1. j \in Nat /\ k + j <= n /\ k + j \in 0..n /\ k + (j + 1) \in 1..n /\ k + (j + 1) - 1 = k + j
    BY <1>1
  <2>2. f[k + (j + 1)] = f[k + j] * 10 + DigitValue[d[k + (j + 1)]]
    BY <1>2, <2>1
  <2>3. f[k] \in Nat /\ f[k + j] \in Nat /\ DigitValue[d[k + (j + 1)]] \in 0..9
    BY <1>1, <1>2, <1>3, <2>1
  <2>4. f[k] <= f[k + j]
    BY <1>5, <2>1
  <2>5. \A x, y \in Nat, v \in 0..9 : x <= y => x <= y * 10 + v
    OBVIOUS
  <2> HIDE DEF T
  <2> QED BY <2>2, <2>3, <2>4, <2>5
<1> HIDE DEF T
<1>6. T = Nat
  BY <1>4, <1>5, SetInduction
<1>7. n - k \in Nat /\ k + (n - k) = n /\ n <= n
  BY <1>1
<1>8. n - k \in T
  BY <1>6, <1>7
<1>9. f[k] <= f[n]
  BY <1>7, <1>8 DEF T
<1> QED BY <1>2, <1>9 DEF f, n

Widest(negative) == MaxInt + (IF negative THEN 1 ELSE 0)

\* The test before a digit is taken is a test of the number behind it.
LEMMA LimitOfDigit ==
  ASSUME NEW d, AllDigits(d), NEW negative \in BOOLEAN, NEW k \in 1..Len(d)
  PROVE  TooFar(negative, d, k) <=> Counted(d)[k] > Widest(negative)
<1> DEFINE n == Len(d)
           f == Counted(d)
           e == IF negative THEN 1 ELSE 0
           q == MaxInt \div 10
           r == MaxInt % 10
           x == f[k - 1]
           v == DigitValue[d[k]]
<1>1. n \in Nat /\ d \in Texts /\ AllIn(d, Digit) /\ DOMAIN d = 1..n
  BY TextTypes DEF AllDigits
<1>2. k - 1 \in 0..n
  BY <1>1
<1>3. f[k] = x * 10 + v /\ x \in Nat
  BY <1>1, <1>2, CountedProperties
<1>4. v \in 0..9
  BY <1>1, DigitValues DEF AllIn
<1>5. Number(SubSeq(d, 1, k - 1)) = x
  BY <1>1, <1>2, NumberOfPrefix
<1>6. TooFar(negative, d, k) <=> x > q \/ (x = q /\ v > r + e)
  BY <1>5 DEF TooFar
<1>7. MaxInt \in Nat /\ q \in Nat /\ r \in 0..8 /\ MaxInt = 10 * q + r
  <2>1. MaxInt \in Nat /\ r < 9
    BY WidthAssumption
  <2>2. \A m \in Nat : m \div 10 \in Nat /\ m % 10 \in 0..9 /\ m = 10 * (m \div 10) + (m % 10)
    OBVIOUS
  <2>3. q \in Nat /\ r \in 0..9 /\ MaxInt = 10 * q + r
    BY <2>1, <2>2
  <2> HIDE DEF q, r
  <2> QED BY <2>1, <2>3
<1>8. e \in {0, 1} /\ Widest(negative) = MaxInt + e
  BY DEF Widest
<1> HIDE DEF n, f, e, q, r, x, v
<1>9. x * 10 + v > (10 * q + r) + e <=> x > q \/ (x = q /\ v > r + e)
  <2>1. CASE x > q
    <3>1. x >= q + 1
      BY <1>3, <1>7, <2>1
    <3>2. x * 10 + v > (10 * q + r) + e
      BY ONLY <1>3, <1>4, <1>7, <1>8, <3>1
    <3> QED BY <2>1, <3>2
  <2>2. CASE x = q
    <3>1. q * 10 + v > (10 * q + r) + e <=> v > r + e
      BY ONLY <1>3, <1>4, <1>7, <1>8
    <3>2. ~(q > q)
      BY <1>7
    <3> QED BY <2>2, <3>1, <3>2
  <2>3. CASE x < q
    <3>1. x + 1 <= q /\ x # q /\ ~(x > q)
      BY <1>3, <1>7, <2>3
    <3>2. ~(x * 10 + v > (10 * q + r) + e)
      BY ONLY <1>3, <1>4, <1>7, <1>8, <3>1
    <3> QED BY <3>1, <3>2
  <2>4. x > q \/ x = q \/ x < q
    BY <1>3, <1>7
  <2> QED BY <2>1, <2>2, <2>3, <2>4
<1> QED BY <1>3, <1>6, <1>7, <1>8, <1>9 DEF f

\* The slow path of ValidateInt, and what lets it be skipped, keep to the width.
LEMMA WidthIsKept ==
  ASSUME NEW d, AllDigits(d), Len(d) >= 1, NEW negative \in BOOLEAN
  PROVE  Len(d) < MaxIntDigits \/ ~PastLimit(negative, d) <=> Number(d) <= Widest(negative)
<1> DEFINE n == Len(d)
           f == Counted(d)
           w == Widest(negative)
<1>1. n \in Nat /\ d \in Texts /\ AllIn(d, Digit) /\ DOMAIN d = 1..n /\ n \in 1..n
  BY TextTypes DEF AllDigits
<1>2. Number(d) = f[n] /\ \A i \in 0..n : f[i] \in Nat
  BY <1>1, CountedProperties
<1>3. MaxInt \in Nat /\ MaxIntDigits \in Nat \ {0} /\ TenTo[MaxIntDigits - 1] <= MaxInt + 1
  BY WidthAssumption
<1>4. w \in Nat /\ w >= MaxInt
  BY <1>3 DEF Widest
<1>5. PastLimit(negative, d) <=> \E k \in 1..n : f[k] > w
  <2>1. PastLimit(negative, d) <=> \E k \in 1..n : TooFar(negative, d, k)
    BY <1>1 DEF PastLimit, TooFar
  <2> QED BY <2>1, LimitOfDigit
<1>6. \A k \in 1..n : f[k] <= f[n] /\ f[k] \in Nat
  <2>1. \A k \in 1..n : k \in 0..n
    BY <1>1
  <2> QED BY <1>2, <2>1, CountedGrows
<1> HIDE DEF n, f, w
<1>7. ~PastLimit(negative, d) <=> f[n] <= w
  <2>1. ASSUME f[n] <= w, NEW k \in 1..n PROVE ~(f[k] > w)
    <3>1. f[k] <= f[n] /\ f[k] \in Nat /\ f[n] \in Nat
      BY <1>1, <1>6
    <3> QED BY <1>4, <2>1, <3>1
  <2>2. ASSUME ~(f[n] > w) PROVE f[n] <= w
    <3>1. f[n] \in Nat
      BY <1>1, <1>6
    <3> QED BY <1>4, <2>2, <3>1
  <2> QED BY <1>1, <1>5, <2>1, <2>2
<1>8. ASSUME n < MaxIntDigits PROVE f[n] <= w
  <2>1. Number(d) \in 0..(TenTo[n] - 1)
    BY <1>1, NumberIsSmall DEF n
  <2>2. MaxIntDigits - 1 \in Nat /\ n <= MaxIntDigits - 1
    BY <1>1, <1>3, <1>8
  <2>3. TenTo[n] <= TenTo[MaxIntDigits - 1]
    BY <1>1, <2>2, PowersGrow
  <2>4. TenTo[n] \in Nat /\ TenTo[MaxIntDigits - 1] \in Nat
    BY <1>1, <2>2, PowersOfTen
  <2>5. f[n] \in 0..(TenTo[n] - 1)
    BY <1>2, <2>1
  <2>6. \A a, b, m, x, y \in Nat : x \in 0..(a - 1) /\ a <= b /\ b <= m + 1 /\ y >= m => x <= y
    OBVIOUS
  <2>7. f[n] \in Nat
    BY <1>1, <1>6
  <2> QED BY <1>3, <1>4, <2>3, <2>4, <2>5, <2>6, <2>7
<1> QED BY <1>2, <1>7, <1>8 DEF n, w

LEMMA WidthInDigits ==
  ASSUME NEW d, Canonical(d), Number(d) <= MaxInt + 1
  PROVE  Len(d) <= MaxIntDigits
<1>1. AllDigits(d) /\ Len(d) \in Nat /\ Len(d) >= 1 /\ MaxIntDigits \in Nat \ {0} /\ MaxInt \in Nat
  BY TextTypes, WidthAssumption DEF Canonical, AllDigits
<1>2. CASE d[1] = "0"
  <2>1. Len(d) = 1
    BY <1>2 DEF Canonical
  <2>2. \A m \in Nat \ {0} : 1 <= m
    OBVIOUS
  <2> QED BY <1>1, <2>1, <2>2
<1>3. CASE d[1] # "0"
  <2> SUFFICES ASSUME Len(d) > MaxIntDigits PROVE FALSE
    BY <1>1
  <2> DEFINE m == MaxIntDigits - 1
             p == TenTo[m]
             q == TenTo[Len(d) - 1]
  <2>1. m \in Nat /\ m + 1 = MaxIntDigits /\ Len(d) - 1 \in Nat /\ MaxIntDigits <= Len(d) - 1
    BY <1>1
  <2>2. TenTo[MaxIntDigits] = 10 * p /\ p \in Nat
    BY <2>1, PowersOfTen
  <2>3. 10 * p <= q /\ q \in Nat
    BY <1>1, <2>1, <2>2, PowersGrow, PowersOfTen
  <2>4. Number(d) >= q /\ Number(d) \in Nat
    BY <1>1, <1>3, LeadingDigit, CanonicalSize
  <2>5. MaxInt < 10 * p /\ MaxInt % 10 < 9
    BY <2>2, WidthAssumption
  <2> HIDE DEF m, p, q
  <2>6. MaxInt + 1 = 10 * p
    <3>1. \A a, x, y, b \in Nat : a < x /\ x <= y /\ b >= y /\ b <= a + 1 => a + 1 = x
      OBVIOUS
    <3>2. 10 * p \in Nat
      BY <2>2
    <3> QED BY <1>1, <2>3, <2>4, <2>5, <3>1, <3>2
  <2>7. \A a, b \in Nat : a + 1 = 10 * b => a % 10 = 9
    OBVIOUS
  <2> QED BY <1>1, <2>2, <2>5, <2>6, <2>7
<1> QED BY <1>2, <1>3

-----------------------------------------------------------------------------
(***************************************************************************)
(* int: exactly the texts of the numbers of its width.                     *)
(***************************************************************************)
\* What ValidateInt asks of the digits.
LEMMA ValidInts ==
  ASSUME NEW t \in Texts
  PROVE  LET negative == At(t, 1) = "-"
             digits == Unsigned(t)
         IN ValidateInt(t) <=> /\ Len(t) \in 1..(MaxIntDigits + 1)
                               /\ Canonical(digits)
                               /\ ~(negative /\ digits = <<"0">>)
                               /\ Number(digits) <= Widest(negative)
<1> DEFINE negative == At(t, 1) = "-"
           digits == Unsigned(t)
           n == Len(digits)
<1>1. digits \in Texts /\ n \in Nat
  BY UnsignedProperties, TextTypes
<1>2. ValidateInt(t) <=> /\ Len(t) \in 1..(MaxIntDigits + 1)
                         /\ digits # <<>>
                         /\ ~(negative /\ digits = <<"0">>)
                         /\ ~(digits[1] = "0" /\ n > 1)
                         /\ AllIn(digits, Digit)
                         /\ n < MaxIntDigits \/ ~PastLimit(negative, digits)
  BY DEF ValidateInt
<1>3. negative \in BOOLEAN
  OBVIOUS
<1> HIDE DEF negative, digits
<1>4. digits # <<>> <=> n >= 1
  <2>1. Len(<<>>) = 0
    OBVIOUS
  <2>2. n = 0 => digits = <<>>
    BY <1>1, ShortTexts
  <2> QED BY <1>1, <2>1, <2>2
<1>5. n >= 1 => (~(digits[1] = "0" /\ n > 1) <=> (digits[1] = "0" => n = 1))
  <2>1. \A m \in Nat : m >= 1 => (m > 1 <=> m # 1)
    OBVIOUS
  <2> QED BY <1>1, <2>1
<1>6. ASSUME AllIn(digits, Digit), n >= 1
      PROVE  n < MaxIntDigits \/ ~PastLimit(negative, digits) <=> Number(digits) <= Widest(negative)
  <2>1. AllDigits(digits)
    BY <1>1, <1>6 DEF AllDigits
  <2> QED BY <1>3, <1>6, <2>1, WidthIsKept
<1>7. Canonical(digits) <=> AllIn(digits, Digit) /\ n >= 1 /\ (digits[1] = "0" => n = 1)
  BY <1>1 DEF Canonical, AllDigits
<1> HIDE DEF n
<1>8. ValidateInt(t) <=> /\ Len(t) \in 1..(MaxIntDigits + 1)
                         /\ Canonical(digits)
                         /\ ~(negative /\ digits = <<"0">>)
                         /\ Number(digits) <= Widest(negative)
  BY <1>2, <1>4, <1>5, <1>6, <1>7
<1> QED BY <1>8 DEF negative, digits

LEMMA Zero ==
  ASSUME NEW d, Canonical(d)
  PROVE  Number(d) = 0 <=> d = <<"0">>
<1>1. Digits[0 + 1] = "0" /\ 0 \in 0..9
  BY DEF Digits
<1>2. Canonical(<<"0">>) /\ Number(<<"0">>) = 0
  BY <1>1, ShortNumeral
<1> QED BY <1>2, CanonicalIsUnique

\* A text with a minus is that sign before its digits.
LEMMA SignAndDigits ==
  /\ \A t \in Texts : At(t, 1) = "-" => t = <<"-">> \o Unsigned(t) /\ Len(t) = Len(Unsigned(t)) + 1
  /\ \A d \in Texts : /\ <<"-">> \o d \in Texts /\ Len(<<"-">> \o d) = Len(d) + 1
                      /\ At(<<"-">> \o d, 1) = "-" /\ Unsigned(<<"-">> \o d) = d
<1>1. ASSUME NEW d \in Texts
      PROVE  /\ <<"-">> \o d \in Texts /\ Len(<<"-">> \o d) = Len(d) + 1
             /\ (<<"-">> \o d)[1] = "-" /\ \A i \in 1..Len(d) : (<<"-">> \o d)[i + 1] = d[i]
  <2>1. <<"-">> \in Seq(Letter) /\ Len(<<"-">>) = 1 /\ <<"-">>[1] = "-"
    <3>1. "-" \in Letter
      BY DEF Letter
    <3> QED BY <3>1
  <2>2. d \in Seq(Letter) /\ Len(d) \in Nat
    BY DEF Texts
  <2>3. /\ <<"-">> \o d \in Seq(Letter) /\ Len(<<"-">> \o d) = Len(<<"-">>) + Len(d)
        /\ \A i \in 1..(Len(<<"-">>) + Len(d)) :
             (<<"-">> \o d)[i] = IF i <= Len(<<"-">>) THEN <<"-">>[i] ELSE d[i - Len(<<"-">>)]
    BY <2>1, <2>2, ConcatProperties
  <2>4. \A i \in 1..(1 + Len(d)) : (<<"-">> \o d)[i] = IF i <= 1 THEN <<"-">>[i] ELSE d[i - 1]
    BY <2>1, <2>3
  <2>5. (<<"-">> \o d)[1] = "-"
    <3>1. 1 \in 1..(1 + Len(d)) /\ 1 <= 1
      BY <2>2
    <3> QED BY <2>1, <2>4, <3>1
  <2>6. ASSUME NEW i \in 1..Len(d) PROVE (<<"-">> \o d)[i + 1] = d[i]
    <3>1. i + 1 \in 1..(1 + Len(d)) /\ ~(i + 1 <= 1) /\ (i + 1) - 1 = i
      BY <2>2
    <3> QED BY <2>4, <3>1
  <2>7. Len(<<"-">> \o d) = Len(d) + 1
    BY <2>1, <2>2, <2>3
  <2> QED BY <2>3, <2>5, <2>6, <2>7 DEF Texts
<1>2. ASSUME NEW t \in Texts, At(t, 1) = "-"
      PROVE  /\ Unsigned(t) \in Texts /\ Len(t) = Len(Unsigned(t)) + 1 /\ t[1] = "-"
             /\ \A i \in 1..Len(Unsigned(t)) : t[i + 1] = Unsigned(t)[i]
  <2>1. Unsigned(t) = Tail(t) /\ 1 \in 1..Len(t) /\ t[1] = "-"
    BY <1>2, AtProperties DEF Unsigned, NoChar
  <2>2. Len(t) \in Nat
    BY TextTypes
  <2>3. t # <<>>
    BY <2>1
  <2>4. /\ Tail(t) \in Seq(Letter) /\ Len(Tail(t)) = Len(t) - 1
        /\ \A i \in 1..Len(Tail(t)) : Tail(t)[i] = t[i + 1]
    BY <2>3, HeadTailProperties DEF Texts
  <2>5. Len(t) = (Len(t) - 1) + 1
    BY <2>2
  <2> QED BY <2>1, <2>4, <2>5, UnsignedProperties
<1>3. ASSUME NEW a \in Texts, NEW b \in Texts, NEW n \in Nat, Len(a) = n + 1, Len(b) = n + 1, a[1] = b[1],
             \A i \in 1..n : a[i + 1] = b[i + 1]
      PROVE  a = b
  <2>1. \A j \in 1..(n + 1) : j = 1 \/ (j - 1 \in 1..n /\ (j - 1) + 1 = j)
    OBVIOUS
  <2>2. \A j \in 1..Len(a) : a[j] = b[j]
    <3> SUFFICES ASSUME NEW j \in 1..(n + 1) PROVE a[j] = b[j]
      BY <1>3
    <3>1. CASE j = 1
      BY <1>3, <3>1
    <3>2. CASE j # 1
      <4>1. j - 1 \in 1..n /\ (j - 1) + 1 = j
        BY <2>1, <3>2
      <4>2. a[(j - 1) + 1] = b[(j - 1) + 1]
        BY <1>3, <4>1
      <4> QED BY <4>1, <4>2
    <3> QED BY <3>1, <3>2
  <2> QED BY <1>3, <2>2, SeqEqual DEF Texts
<1>4. ASSUME NEW t \in Texts, At(t, 1) = "-" PROVE t = <<"-">> \o Unsigned(t)
  <2> DEFINE d == Unsigned(t)
             a == <<"-">> \o d
  <2>1. d \in Texts /\ Len(t) = Len(d) + 1 /\ t[1] = "-" /\ \A i \in 1..Len(d) : t[i + 1] = d[i]
    BY <1>2, <1>4
  <2>2. a \in Texts /\ Len(a) = Len(d) + 1 /\ a[1] = "-" /\ \A i \in 1..Len(d) : a[i + 1] = d[i]
    BY <1>1, <2>1
  <2>3. Len(d) \in Nat
    BY <2>1, TextTypes
  <2> HIDE DEF a, d
  <2>4. \A i \in 1..Len(d) : t[i + 1] = a[i + 1]
    BY <2>1, <2>2
  <2>5. t = a
    BY <1>3, <2>1, <2>2, <2>3, <2>4
  <2> QED BY <2>5 DEF a, d
<1>5. ASSUME NEW d \in Texts PROVE At(<<"-">> \o d, 1) = "-" /\ Unsigned(<<"-">> \o d) = d
  <2> DEFINE t == <<"-">> \o d
  <2>1. t \in Texts /\ Len(t) = Len(d) + 1 /\ t[1] = "-" /\ \A i \in 1..Len(d) : t[i + 1] = d[i]
    BY <1>1
  <2> HIDE DEF t
  <2>2. Len(d) \in Nat
    BY TextTypes
  <2>3. At(t, 1) = "-"
    <3>1. 1 \in Int /\ 1 \in 1..Len(t)
      BY <2>1, <2>2
    <3> QED BY <2>1, <3>1, AtProperties
  <2>4. /\ Unsigned(t) \in Texts /\ Len(t) = Len(Unsigned(t)) + 1
        /\ \A i \in 1..Len(Unsigned(t)) : t[i + 1] = Unsigned(t)[i]
    BY <1>2, <2>1, <2>3
  <2>5. Len(Unsigned(t)) = Len(d)
    <3>1. Len(Unsigned(t)) \in Nat
      BY <2>4, TextTypes
    <3> QED BY <2>1, <2>2, <2>4, <3>1
  <2>6. \A i \in 1..Len(Unsigned(t)) : Unsigned(t)[i] = d[i]
    BY <2>1, <2>4, <2>5
  <2>7. Unsigned(t) = d
    BY <2>4, <2>5, <2>6, SeqEqual DEF Texts
  <2> QED BY <2>3, <2>7 DEF t
<1> QED BY <1>1, <1>2, <1>4, <1>5

LEMMA DecodedIntIsText ==
  ASSUME NEW t \in Texts, ValidateInt(t)
  PROVE  AppendInt(decodeInt(t).value) = t /\ t \in IntTexts
<1> DEFINE negative == At(t, 1) = "-"
           d == Unsigned(t)
           size == Number(d)
           value == decodeInt(t).value
<1>1. /\ Canonical(d) /\ ~(negative /\ d = <<"0">>) /\ size <= Widest(negative)
      /\ value = IF negative THEN 0 - size ELSE size
  <2>1. decodeInt(t) = Decoded(IF At(t, 1) = "-" THEN 0 - Number(Unsigned(t)) ELSE Number(Unsigned(t)))
    BY IntsAgree
  <2> QED BY <2>1, ValidInts, AnswerFields
<1>2. size \in Nat /\ MaxInt \in Nat /\ (size = 0 <=> d = <<"0">>)
  BY <1>1, CanonicalSize, Zero, WidthAssumption
<1>3. NatText[size] = d
  <2>1. Canonical(NatText[size]) /\ Number(NatText[size]) = size
    BY <1>2, NatTexts DEF Stands
  <2> QED BY <1>1, <2>1, CanonicalIsUnique
<1>4. ~negative => t = d
  BY DEF Unsigned
<1>5. negative => t = <<"-">> \o d
  BY SignAndDigits
<1> HIDE DEF negative, d, size, value
<1>6. CASE negative
  <2>1. size \in Nat /\ size # 0 /\ value = 0 - size
    BY <1>1, <1>2, <1>6
  <2>2. value < 0 /\ -value = size
    BY <2>1
  <2>3. AppendInt(value) = t
    BY <1>3, <1>5, <1>6, <2>2 DEF AppendInt
  <2>4. value \in MinInt..MaxInt
    <3>1. size <= MaxInt + 1
      BY <1>1, <1>6 DEF Widest
    <3> QED BY <1>2, <2>1, <3>1 DEF MinInt
  <2> QED BY <2>3, <2>4 DEF IntTexts, value
<1>7. CASE ~negative
  <2>1. value = size /\ ~(size < 0)
    BY <1>1, <1>2, <1>7
  <2>2. AppendInt(value) = t
    BY <1>3, <1>4, <1>7, <2>1 DEF AppendInt
  <2>3. value \in MinInt..MaxInt
    <3>1. size <= MaxInt + 0
      BY <1>1, <1>7 DEF Widest
    <3> QED BY <1>2, <2>1, <3>1 DEF MinInt
  <2> QED BY <2>2, <2>3 DEF IntTexts, value
<1> QED BY <1>6, <1>7

LEMMA IntTextIsValid ==
  ASSUME NEW n \in MinInt..MaxInt
  PROVE  ValidateInt(AppendInt(n))
<1> DEFINE t == AppendInt(n)
           size == IF n < 0 THEN -n ELSE n
           d == NatText[size]
<1>1. MaxInt \in Nat /\ n \in Int /\ MaxIntDigits \in Nat
  BY WidthAssumption DEF MinInt
<1>2. size \in Nat /\ size <= Widest(n < 0) /\ size <= MaxInt + 1
  BY <1>1 DEF Widest, MinInt
<1>3. Canonical(d) /\ Number(d) = size
  BY <1>2, NatTexts DEF Stands
<1>4. d \in Texts /\ Len(d) \in Nat /\ Len(d) >= 1 /\ AllDigits(d)
  BY <1>3, TextTypes DEF Canonical, AllDigits
<1>5. Len(d) <= MaxIntDigits
  BY <1>2, <1>3, WidthInDigits
<1>6. CASE n < 0
  <2>1. t = <<"-">> \o d
    BY <1>6 DEF AppendInt
  <2>2. t \in Texts /\ Len(t) = Len(d) + 1 /\ At(t, 1) = "-" /\ Unsigned(t) = d
    BY <1>4, <2>1, SignAndDigits
  <2>3. d # <<"0">>
    <3>1. size # 0
      BY <1>1, <1>6
    <3> QED BY <1>3, <3>1, Zero
  <2>4. Len(t) \in 1..(MaxIntDigits + 1)
    BY <1>1, <1>4, <1>5, <2>2
  <2>5. Widest(n < 0) = Widest(At(t, 1) = "-")
    BY <1>6, <2>2
  <2> HIDE DEF t, size, d
  <2> QED BY <1>2, <1>3, <2>2, <2>3, <2>4, <2>5, ValidInts DEF t
<1>7. CASE ~(n < 0)
  <2>1. t = d
    BY <1>7 DEF AppendInt
  <2>2. At(t, 1) # "-"
    <3>1. 1 \in Int /\ 1 \in 1..Len(d) /\ DOMAIN d = 1..Len(d)
      BY <1>4, TextTypes
    <3>2. At(d, 1) = d[1] /\ d[1] \in Digit
      BY <1>4, <3>1, AtProperties DEF AllDigits, AllIn
    <3> HIDE DEF t, d
    <3> QED BY <2>1, <3>2, DigitSet
  <2>3. Unsigned(t) = d
    BY <2>1, <2>2 DEF Unsigned
  <2>4. Len(t) \in 1..(MaxIntDigits + 1)
    BY <1>1, <1>4, <1>5, <2>1
  <2>5. Widest(n < 0) = Widest(At(t, 1) = "-")
    BY <1>7, <2>2
  <2> HIDE DEF t, size, d
  <2> QED BY <1>2, <1>3, <1>4, <2>1, <2>2, <2>3, <2>4, <2>5, ValidInts DEF t
<1> QED BY <1>6, <1>7

LEMMA IntsAreTexts ==
  ASSUME NEW t \in Texts
  PROVE  /\ decodeInt(t).ok <=> t \in IntTexts
         /\ decodeInt(t).ok => AppendInt(decodeInt(t).value) = t
<1>1. ValidateInt(t) <=> decodeInt(t).ok
  BY IntsAgree DEF Agree
<1>2. t \in IntTexts => ValidateInt(t)
  BY IntTextIsValid DEF IntTexts
<1> QED BY <1>1, <1>2, DecodedIntIsText

-----------------------------------------------------------------------------
\* What the decoder makes of the types with one text for a value, by their kind.
LEMMA ScalarValues ==
  ASSUME NEW t \in Texts, t # Null, NEW type
  PROVE  LET answer == Value!decodeScalarValue(t, type)
         IN /\ type.kind = "int" => answer = decodeInt(t)
            /\ type.kind = "decimal" => answer = decodeDecimal(t)
            /\ type.kind = "hex" => answer = decodeBytesHex(t)
            /\ type.kind = "enum" => answer = Lookup(type.enum, t)
<1> DEFINE answer == Value!decodeScalarValue(t, type)
<1>1. t # Value!Null
  BY DEF Null, Value!Null
<1>2. ASSUME type.kind = "int" PROVE answer = Value!decodeInt(t)
  BY Zenon, <1>1, <1>2 DEF Value!decodeScalarValue
<1>3. ASSUME type.kind = "decimal" PROVE answer = Value!decodeDecimal(t)
  BY Zenon, <1>1, <1>3 DEF Value!decodeScalarValue
<1>4. ASSUME type.kind = "hex" PROVE answer = Value!decodeBytesHex(t)
  BY Zenon, <1>1, <1>4 DEF Value!decodeScalarValue
<1>5. ASSUME type.kind = "enum" PROVE answer = Value!Lookup(type.enum, t)
  BY Zenon, <1>1, <1>5 DEF Value!decodeScalarValue
<1> HIDE DEF answer
<1>6. /\ type.kind = "int" => answer = decodeInt(t)
      /\ type.kind = "decimal" => answer = decodeDecimal(t)
      /\ type.kind = "hex" => answer = decodeBytesHex(t)
      /\ type.kind = "enum" => answer = Lookup(type.enum, t)
  BY <1>2, <1>3, <1>4, <1>5, ValueIsTheSame
<1> QED BY <1>6 DEF answer

\* Whatever is typed: an int is decoded exactly when it is the canonical text of a number of its
\* width, and to that number; a decimal when it has the form of one within the limits, and one
\* below zero and above minus one with a longer fraction is the only other text that is; the
\* bytes of a hexadecimal text are written as that text; an enum text means the first member with
\* that name or, failing that, the first with that value (decode/decode_int.go,
\* decode_decimal.go, decode_bytes_hex.go, decode_dispatcher.go).
THEOREM DecodedScalarsAreExact == Spec => []ScalarsAreExact
<1>1. ASSUME Asked PROVE ScalarsAreExact
  <2>1. name \in DOMAIN Columns /\ text \in Texts /\ column = Columns[name] /\ said = Ask(text, column)
    BY <1>1 DEF Asked
  <2>2. ASSUME column.kind = "scalar" PROVE decoded = Value!decodeScalarValue(text, column.element)
    <3>1. said = AskOfField(text, column)
      BY Zenon, <2>1, <2>2 DEF Ask
    <3> QED BY <2>2, <3>1 DEF AskOfField, Value!decodeFn, decoded
  <2>3. ASSUME column.kind = "scalar", HasValue PROVE text # Null
    <3> SUFFICES ASSUME text = Null PROVE FALSE
      OBVIOUS
    <3>1. text = Value!Null /\ Value!Nil = Nil
      BY DEF Null, Value!Null, Value!Nil, Nil
    <3>2. Value!decodeScalarValue(text, column.element) = Value!Nil
      BY Zenon, <3>1 DEF Value!decodeScalarValue
    <3> QED BY <2>2, <2>3, <3>1, <3>2 DEF HasValue
  <2>4. ASSUME column.kind = "scalar", text # Null
        PROVE  /\ kind = "int" => decoded = decodeInt(text)
               /\ kind = "decimal" => decoded = decodeDecimal(text)
               /\ kind = "hex" => decoded = decodeBytesHex(text)
               /\ kind = "enum" => decoded = Lookup(column.element.enum, text)
    BY <2>1, <2>2, <2>4, ScalarValues DEF kind
  <2>5. IntsAreExact
    <3> SUFFICES ASSUME IsScalar({"int"}), text # Null
                 PROVE  /\ decoded.ok <=> text \in IntTexts
                        /\ decoded.ok => AppendInt(decoded.value) = text
      BY DEF IntsAreExact
    <3>1. decoded = decodeInt(text)
      BY <2>4 DEF IsScalar
    <3> QED BY <2>1, <3>1, IntsAreTexts
  <2>6. DecimalsAreExact
    <3> SUFFICES ASSUME IsScalar({"decimal"}), text # Null
                 PROVE  /\ DecimalText(text) /\ Len(text) <= MaxDecimal => decoded.ok
                        /\ decoded.ok => /\ Len(text) <= MaxDecimal
                                         /\ DecimalText(text) \/ OverlongFraction(text)
      BY DEF DecimalsAreExact
    <3>1. decoded = decodeDecimal(text)
      BY <2>4 DEF IsScalar
    <3> QED BY <2>1, <3>1, DecimalsHaveForm, FormsAreTexts
  <2>7. BytesAreExact
    <3> SUFFICES ASSUME IsScalar({"hex"}), HasValue PROVE HexText(decoded.value) = LowerText(text)
      BY DEF BytesAreExact
    <3>1. decoded = decodeBytesHex(text) /\ decoded.ok
      BY <2>3, <2>4 DEF IsScalar, HasValue
    <3> QED BY <2>1, <3>1, HexReadsBack
  <2>8. EnumsAreFirst
    <3> DEFINE enum == column.element.enum
               Means(i) == LowerText(text) \in {LowerText(enum[i].name), LowerText(enum[i].value)}
               chosen == decoded.value
    <3> SUFFICES ASSUME IsScalar({"enum"}), HasValue
                 PROVE  /\ Means(chosen)
                        /\ \A i \in DOMAIN enum : Means(i) => \/ i >= chosen
                                                              \/ LowerText(enum[chosen].name) = LowerText(text)
      BY DEF EnumsAreFirst
    <3>1. decoded = Lookup(enum, text) /\ decoded.ok
      BY <2>3, <2>4 DEF IsScalar, HasValue
    <3>2. DOMAIN enum \in SUBSET Nat
      <4>1. column.kind = "scalar" /\ column.element.kind = "enum"
        BY DEF IsScalar, kind
      <4>2. IsScalarType(column.element)
        BY <2>1, <4>1, TypesAssumption
      <4> QED BY <4>1, <4>2 DEF IsScalarType, ScalarKinds, scalarKindToCanonical
    <3>3. Lookup(enum, text).ok /\ Lookup(enum, text).value = chosen
      BY <3>1
    <3> QED BY <2>1, <3>2, <3>3, FirstMember
  <2> QED BY <2>5, <2>6, <2>7, <2>8 DEF ScalarsAreExact
<1> QED BY <1>1, AskedIsInductive, PTL DEF Spec
=============================================================================
