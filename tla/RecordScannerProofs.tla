------------------------ MODULE RecordScannerProofs -------------------------
(***************************************************************************)
(* Proofs about the record scanner, for every value of its bounds: the     *)
(* type invariant, that the nesting state always agrees with itself and    *)
(* with the parser state (NestingOK), and where a line break may stand.    *)
(*                                                                         *)
(* NestingOK is inductive together with TypeOK, and no conjunct of it is   *)
(* so alone.  A field ends where the depth is 0; that no quote and no      *)
(* welcome line break is left then, which the state Outside relies on, is  *)
(* QuoteOnlyInContainer and NewlineOnlyAtDepthOne; that a '[' between      *)
(* fields opens depth 1, which NewlineOnlyAtDepthOne relies on, is         *)
(* TopLevelBetweenFields again.                                            *)
(*                                                                         *)
(* The scanner's flags say what the tokens read so far say                 *)
(* (FlagsFollowTokens), and so what it did at the last line break is       *)
(* decided by where that stood (BreaksAllowed); held against the byte      *)
(* behind it, that is LineBreakRule.  FlagsFollowTokens is inductive       *)
(* together with the other two.  It says nothing of the flags inside a     *)
(* quoted element, where a comma sets containerNewlineOK; that the closing *)
(* quote then withdraws it is NewlineOnlyAtDepthOne.                       *)
(***************************************************************************)
EXTENDS ScannerHistory, TLAPS

(* Steps that several actions share.                                       *)

\* Fail stops in the state Error and touches nothing else.
LEMMA FailType ==
  ASSUME NEW e \in Errors, TypeOK, Fail(e)
  PROVE  TypeOK'
BY DEF TypeOK, Fail, States, Scanning, Errors, nesting, blocks

\* What emitField leaves behind when it succeeds.
LEMMA ClearedType ==
  ASSUME TypeOK, state' \in States, fields' \in Seq(FieldRecord),
         fieldQuoted' = FALSE, fieldCommentBlocks' = 0, fieldMetaBlocks' = 0,
         UNCHANGED <<nesting, headerMode, err>>
  PROVE  TypeOK'
<1>1. 0 \in 0..MaxBlocks
  BY BoundAssumption
<1>2. fieldCommentBlocks' \in 0..MaxBlocks /\ fieldMetaBlocks' \in 0..MaxBlocks
  BY <1>1
<1> QED BY <1>2 DEF TypeOK, nesting

\* emitField either fails or appends a well-formed field and clears the counters.
LEMMA EmitType ==
  ASSUME NEW STATE f, f \in FieldRecord, NEW s \in States, TypeOK, EmitField(f, s)
  PROVE  TypeOK'
<1>1. CASE Fail("field too large")
  BY <1>1, FailType DEF Errors
<1>2. CASE Emitted(f, s)
  <2>1. fields' \in Seq(FieldRecord)
    BY <1>2 DEF Emitted, TypeOK
  <2>2. /\ state' \in States /\ fieldQuoted' = FALSE
        /\ fieldCommentBlocks' = 0 /\ fieldMetaBlocks' = 0
        /\ UNCHANGED <<nesting, headerMode, err>>
    BY <1>2 DEF Emitted
  <2> QED BY <2>1, <2>2, ClearedType
<1> QED BY <1>1, <1>2 DEF EmitField

\* The field under way, with the blocks of an annotation that cuts it short.
LEMMA FieldType ==
  ASSUME NEW STATE q, NEW STATE c, NEW STATE m, q \in BOOLEAN, c \in Nat, m \in Nat
  PROVE  Field(q, c, m) \in FieldRecord
BY DEF Field, FieldRecord

LEMMA CurrentFieldType ==
  ASSUME TypeOK
  PROVE  CurrentField \in FieldRecord
BY FieldType DEF CurrentField, TypeOK

LEMMA FinishRowType ==
  ASSUME TypeOK, FinishRow
  PROVE  TypeOK'
BY CurrentFieldType, EmitType DEF FinishRow, States

LEMMA NoFieldsType == <<>> \in Seq(FieldRecord)
OBVIOUS

LEMMA InitType == Init => TypeOK
<1> SUFFICES ASSUME Init PROVE TypeOK
  OBVIOUS
<1>1. 0 \in 0..MaxDepth /\ 0 \in (-MaxGeneric)..MaxGeneric /\ 0 \in 0..MaxBlocks
  BY BoundAssumption
<1>2. state \in States /\ err \in Errors
  BY DEF Init, States, Errors
<1>3. fields \in Seq(FieldRecord)
  BY NoFieldsType DEF Init
<1> QED BY <1>1, <1>2, <1>3 DEF Init, TypeOK

\* Every way to go on in an unquoted field keeps the types, once the five
\* parts of the nesting state that the actions change have theirs.
LEMMA IntoUnquotedType ==
  ASSUME TypeOK, IntoUnquoted,
         containerDepth' \in 0..MaxDepth,
         genericDepth' \in (-MaxGeneric)..MaxGeneric,
         inContainerQuote' \in BOOLEAN,
         containerNewlineOK' \in BOOLEAN, containerSawNewline' \in BOOLEAN,
         containerInnerRowOpen' \in BOOLEAN
  PROVE  TypeOK'
<1>1. state' \in States
  BY DEF IntoUnquoted, States, Scanning
<1>3. fieldQuoted' \in BOOLEAN
  BY DEF TypeOK, IntoUnquoted
<1>2. UNCHANGED <<blocks, headerMode, fields, err>>
  BY DEF IntoUnquoted
<1> QED BY <1>1, <1>2, <1>3 DEF TypeOK, blocks

LEMMA ClearOnElementType ==
  ASSUME NEW b, TypeOK, ClearOnElement(b)
  PROVE  containerNewlineOK' \in BOOLEAN /\ containerSawNewline' \in BOOLEAN
BY DEF TypeOK, ClearOnElement

LEMMA CountBlockType ==
  ASSUME TypeOK, CountBlock
  PROVE  fieldCommentBlocks' \in 0..MaxBlocks /\ fieldMetaBlocks' \in 0..MaxBlocks
BY BoundAssumption DEF TypeOK, CountBlock

\* Every step of NextRow and of its caller keeps the types.
LEMMA NextType ==
  ASSUME TypeOK, [Next]_vars
  PROVE  TypeOK'
<1>1. CASE UNCHANGED vars
  BY <1>1 DEF TypeOK, vars, nesting, blocks
<1>2. CASE StartRow
  <2>1. 0 \in 0..MaxDepth /\ 0 \in 0..MaxBlocks /\ "Leading" \in States
    BY BoundAssumption DEF States
  <2> QED BY <1>2, <2>1, NoFieldsType DEF TypeOK, StartRow
<1>3. CASE ReleaseRow
  BY <1>3, NoFieldsType DEF TypeOK, ReleaseRow, States, nesting, blocks
<1>4. CASE LeaveHeader
  BY <1>4 DEF TypeOK, LeaveHeader, nesting, blocks
<1>5. CASE SkipLine
  BY <1>5, <1>1 DEF SkipLine
<1>6. ASSUME NEW end \in Ends, PrefixBlock(end) PROVE TypeOK'
  BY <1>6, CountBlockType DEF TypeOK, PrefixBlock, States, nesting
<1>7. CASE LeadingNUL
  BY <1>7, FailType DEF LeadingNUL, Errors
<1>8. CASE LeadingEOF
  BY <1>8 DEF TypeOK, LeadingEOF, States, nesting, blocks
<1>9. ASSUME NEW b \in Bytes, FirstByte(b) PROVE TypeOK'
  <2>1. CASE Emitted(Field(FALSE, fieldCommentBlocks, fieldMetaBlocks), "Outside")
    <3>1. Field(FALSE, fieldCommentBlocks, fieldMetaBlocks) \in FieldRecord
      BY BoundAssumption DEF TypeOK, Field, FieldRecord
    <3> QED BY <2>1, <3>1, EmitType DEF EmitField, States, Scanning
  <2>2. CASE /\ containerDepth < MaxDepth /\ containerDepth' = containerDepth + 1
             /\ containerNewlineOK' = TRUE
             /\ state' = "InUnquoted" /\ fieldQuoted' = FALSE
             /\ UNCHANGED <<genericDepth, inContainerQuote, containerSawNewline,
                            containerInnerRowOpen, blocks, fields, headerMode, err>>
    <3>1. state' \in States /\ containerDepth' \in 0..MaxDepth
      BY <2>2, BoundAssumption DEF TypeOK, States, Scanning
    <3> QED BY <2>2, <3>1 DEF TypeOK, blocks
  <2>3. CASE /\ state' = IF b = "\"" THEN "InQuoted" ELSE "InUnquoted"
             /\ fieldQuoted' = (b = "\"")
             /\ containerDepth' = IF b = "]" /\ containerDepth > 0
                                  THEN containerDepth - 1 ELSE containerDepth
             /\ UNCHANGED <<genericDepth, inContainerQuote, containerNewlineOK,
                            containerSawNewline, containerInnerRowOpen, blocks, fields,
                            headerMode, err>>
    <3>1. containerDepth' \in 0..MaxDepth
      <4>1. containerDepth \in 0..MaxDepth
        BY DEF TypeOK
      <4>2. \/ containerDepth' = containerDepth
            \/ containerDepth > 0 /\ containerDepth' = containerDepth - 1
        BY <2>3
      <4> QED BY <4>1, <4>2, BoundAssumption
    <3>2. state' \in States /\ fieldQuoted' \in BOOLEAN
      BY <2>3 DEF States, Scanning
    <3> QED BY <2>3, <3>1, <3>2 DEF TypeOK, blocks
  <2> QED BY <1>9, <2>1, <2>2, <2>3 DEF FirstByte
<1>10. CASE Delimiter
  BY <1>10, CurrentFieldType, EmitType DEF Delimiter, States, Scanning
<1>11. CASE InnerComma
  BY <1>11, IntoUnquotedType DEF TypeOK, InnerComma
<1>12. CASE EndRow
  BY <1>12, FinishRowType DEF EndRow
<1>13. CASE InnerNewline
  BY <1>13 DEF TypeOK, InnerNewline, blocks
<1>14. CASE OpenBracket
  <2>1. containerDepth' \in 0..MaxDepth
    BY <1>14, BoundAssumption DEF TypeOK, OpenBracket
  <2>2. /\ containerNewlineOK' \in BOOLEAN /\ containerSawNewline' \in BOOLEAN
        /\ containerInnerRowOpen' \in BOOLEAN
    BY <1>14 DEF TypeOK, OpenBracket
  <2>3. UNCHANGED <<genericDepth, inContainerQuote>> /\ IntoUnquoted
    BY <1>14 DEF OpenBracket
  <2>4. genericDepth' \in (-MaxGeneric)..MaxGeneric /\ inContainerQuote' \in BOOLEAN
    BY <2>3 DEF TypeOK
  <2> QED BY <2>1, <2>2, <2>3, <2>4, IntoUnquotedType
<1>15. CASE CloseBracket
  <2>1. containerDepth' \in 0..MaxDepth
    <3>1. containerDepth \in 0..MaxDepth
      BY DEF TypeOK
    <3> QED BY <1>15, <3>1, BoundAssumption DEF CloseBracket, Closed
  <2>2. /\ containerNewlineOK' \in BOOLEAN /\ containerSawNewline' \in BOOLEAN
        /\ containerInnerRowOpen' \in BOOLEAN
    BY <1>15, ClearOnElementType DEF TypeOK, CloseBracket
  <2>3. UNCHANGED <<genericDepth, inContainerQuote>> /\ IntoUnquoted
    BY <1>15 DEF CloseBracket
  <2>4. genericDepth' \in (-MaxGeneric)..MaxGeneric /\ inContainerQuote' \in BOOLEAN
    BY <2>3 DEF TypeOK
  <2> QED BY <2>1, <2>2, <2>3, <2>4, IntoUnquotedType
<1>16. ASSUME NEW b \in Bytes, Angle(b) PROVE TypeOK'
  BY <1>16, IntoUnquotedType, ClearOnElementType DEF TypeOK, Angle
<1>17. CASE ToggleQuote
  BY <1>17, IntoUnquotedType, ClearOnElementType DEF TypeOK, ToggleQuote
<1>18. ASSUME NEW b \in Bytes, Text(b) PROVE TypeOK'
  BY <1>18, IntoUnquotedType, ClearOnElementType DEF TypeOK, Text
<1>19. CASE Blank
  BY <1>19, <1>1 DEF Blank
<1>20. CASE OpenQuoted
  BY <1>20 DEF TypeOK, OpenQuoted, States, Scanning, nesting, blocks
<1>21. ASSUME NEW b \in Bytes, QuotedByte(b) PROVE TypeOK'
  BY <1>21 DEF TypeOK, QuotedByte, States, Scanning, nesting, blocks
<1>22. ASSUME NEW end \in Ends, Annotation(end) PROVE TypeOK'
  <2>1. CASE end = "newline"
    <3>1. PICK c \in {0, 1}, m \in {0, 1} :
             EmitField(Field(fieldQuoted, fieldCommentBlocks + c, fieldMetaBlocks + m),
                       "RowInUse")
      BY <1>22, <2>1 DEF Annotation
    <3>2. Field(fieldQuoted, fieldCommentBlocks + c, fieldMetaBlocks + m) \in FieldRecord
      BY FieldType DEF TypeOK
    <3> QED BY <3>1, <3>2, EmitType DEF States
  <2>2. CASE end # "newline"
    BY <1>22, <2>2, CountBlockType DEF TypeOK, Annotation, nesting
  <2> QED BY <2>1, <2>2
<1>23. CASE EndOfInput
  BY <1>23, FailType, FinishRowType DEF EndOfInput, Errors
<1>24. ASSUME NEW b \in Bytes, BadByte(b) PROVE TypeOK'
  BY <1>24, FailType DEF BadByte, Errors
<1>25. CASE ReadError
  BY <1>25, FailType DEF ReadError, Errors
<1>26. ASSUME NEW b \in Bytes, Consume(b) PROVE TypeOK'
  BY <1>26, <1>7, <1>9, <1>10, <1>11, <1>12, <1>13, <1>14, <1>15, <1>16,
     <1>17, <1>18, <1>19, <1>20, <1>21, <1>24 DEF Consume
<1> QED
  BY <1>1, <1>2, <1>3, <1>4, <1>5, <1>6, <1>8, <1>22, <1>23, <1>25, <1>26
     DEF Next, Call, Comment, Stop

\* Every variable of the scanner keeps its type.
THEOREM TypeCorrect == Spec => []TypeOK
<1>1. Init => TypeOK
  BY InitType
<1>2. TypeOK /\ [Next]_vars => TypeOK'
  BY NextType
<1> QED BY <1>1, <1>2, PTL DEF Spec

-----------------------------------------------------------------------------
(* The nesting state agrees with itself and with the parser state.         *)

\* A step that leaves the nesting state alone keeps NestingOK, unless it
\* enters one of the states between fields.
LEMMA SameNesting ==
  ASSUME NestingOK, UNCHANGED nesting,
         state' \in {"Leading", "Prefix", "Outside", "InQuoted", "Quote"}
           => \/ state \in {"Leading", "Prefix", "Outside", "InQuoted", "Quote"}
              \/ containerDepth = 0
  PROVE  NestingOK'
BY DEF NestingOK, TopLevelBetweenFields, QuoteOnlyInContainer, NewlineOnlyAtDepthOne,
       SawOnlyWhereOK, InnerRowIsInside, nesting

LEMMA FailNesting ==
  ASSUME NEW e, NestingOK, Fail(e)
  PROVE  NestingOK'
BY SameNesting DEF Fail

\* A field may end only where nothing is open, or end its row.
LEMMA EmitNesting ==
  ASSUME NEW STATE f, NEW s, NestingOK, EmitField(f, s),
         s = "RowInUse" \/ containerDepth = 0
  PROVE  NestingOK'
BY FailNesting, SameNesting DEF EmitField, Emitted

\* Text inside a field: at most the welcome of a line break is withdrawn.
LEMMA ClearNesting ==
  ASSUME NEW b, TypeOK, NestingOK, ClearOnElement(b),
         state' = "InUnquoted",
         UNCHANGED <<containerDepth, containerInnerRowOpen>>,
         inContainerQuote' => containerDepth > 0
  PROVE  NestingOK'
BY DEF TypeOK, NestingOK, TopLevelBetweenFields, QuoteOnlyInContainer,
       NewlineOnlyAtDepthOne, SawOnlyWhereOK, InnerRowIsInside, ClearOnElement

LEMMA InitNesting == Init => NestingOK
BY DEF Init, NestingOK, TopLevelBetweenFields, QuoteOnlyInContainer,
       NewlineOnlyAtDepthOne, SawOnlyWhereOK, InnerRowIsInside

\* Every step of NextRow and of its caller keeps NestingOK.
LEMMA NextNesting ==
  ASSUME TypeOK, NestingOK, [Next]_vars
  PROVE  NestingOK'
<1> USE DEF NestingOK, TopLevelBetweenFields, QuoteOnlyInContainer,
            NewlineOnlyAtDepthOne, SawOnlyWhereOK, InnerRowIsInside
<1>1. CASE UNCHANGED vars
  BY <1>1 DEF vars, nesting
<1>2. CASE StartRow
  BY <1>2 DEF StartRow
<1>3. CASE ReleaseRow
  BY <1>3 DEF ReleaseRow, nesting
<1>4. CASE LeaveHeader
  BY <1>4 DEF LeaveHeader, nesting
<1>5. CASE SkipLine
  BY <1>5, <1>1 DEF SkipLine
<1>6. ASSUME NEW end \in Ends, PrefixBlock(end) PROVE NestingOK'
  BY <1>6 DEF PrefixBlock, nesting
<1>7. CASE LeadingNUL
  BY <1>7, FailNesting DEF LeadingNUL
<1>8. CASE LeadingEOF
  BY <1>8 DEF LeadingEOF, nesting
<1>9. ASSUME NEW b \in Bytes, FirstByte(b) PROVE NestingOK'
  <2>1. state \in {"Leading", "Prefix"}
    BY <1>9 DEF FirstByte, StartsData
  <2>2. CASE Emitted(Field(FALSE, fieldCommentBlocks, fieldMetaBlocks), "Outside")
    BY <2>1, <2>2 DEF Emitted, nesting
  <2>3. CASE b = "["
    BY <1>9, <2>1, <2>3 DEF TypeOK, FirstByte
  <2>4. CASE b \notin {",", "["}
    <3>1. containerDepth = 0 /\ containerDepth' = containerDepth
      <4>1. containerDepth = 0
        BY <2>1
      <4>2. containerDepth' = IF b = "]" /\ containerDepth > 0
                             THEN containerDepth - 1 ELSE containerDepth
        BY <1>9, <2>4 DEF FirstByte
      <4> QED BY <4>1, <4>2
    <3>2. UNCHANGED nesting
      BY <1>9, <2>4, <3>1 DEF FirstByte, nesting
    <3> QED BY <3>1, <3>2, SameNesting
  <2> QED BY <1>9, <2>2, <2>3, <2>4 DEF FirstByte
<1>10. CASE Delimiter
  BY <1>10, EmitNesting DEF Delimiter, Splits
<1>11. CASE InnerComma
  BY <1>11 DEF TypeOK, InnerComma, IntoUnquoted, Plain
<1>12. CASE EndRow
  BY <1>12, EmitNesting DEF EndRow, FinishRow
<1>13. CASE InnerNewline
  BY <1>13 DEF TypeOK, InnerNewline
<1>14. CASE OpenBracket
  BY <1>14 DEF TypeOK, OpenBracket, IntoUnquoted, Literal, Plain
<1>15. CASE CloseBracket
  BY <1>15 DEF TypeOK, CloseBracket, Closed, IntoUnquoted, Literal, Plain, ClearOnElement,
               ElementStarts
<1>16. ASSUME NEW b \in Bytes, Angle(b) PROVE NestingOK'
  BY <1>16, ClearNesting DEF Angle, IntoUnquoted
<1>17. CASE ToggleQuote
  BY <1>17, ClearNesting DEF ToggleQuote, IntoUnquoted
<1>18. ASSUME NEW b \in Bytes, Text(b) PROVE NestingOK'
  BY <1>18, ClearNesting DEF Text, IntoUnquoted
<1>19. CASE Blank
  BY <1>19, <1>1 DEF Blank
<1>20. CASE OpenQuoted
  BY <1>20 DEF OpenQuoted, nesting
<1>21. ASSUME NEW b \in Bytes, QuotedByte(b) PROVE NestingOK'
  BY <1>21 DEF QuotedByte, nesting
<1>22. ASSUME NEW end \in Ends, Annotation(end) PROVE NestingOK'
  <2>1. CASE end = "newline"
    BY <1>22, <2>1, EmitNesting DEF Annotation
  <2>2. CASE end # "newline"
    BY <1>22, <2>2 DEF Annotation, nesting
  <2> QED BY <2>1, <2>2
<1>23. CASE EndOfInput
  BY <1>23, FailNesting, EmitNesting DEF EndOfInput, FinishRow
<1>24. ASSUME NEW b \in Bytes, BadByte(b) PROVE NestingOK'
  BY <1>24, FailNesting DEF BadByte
<1>25. CASE ReadError
  BY <1>25, FailNesting DEF ReadError
<1>26. ASSUME NEW b \in Bytes, Consume(b) PROVE NestingOK'
  BY <1>26, <1>7, <1>9, <1>10, <1>11, <1>12, <1>13, <1>14, <1>15, <1>16,
     <1>17, <1>18, <1>19, <1>20, <1>21, <1>24 DEF Consume
<1> QED
  BY <1>1, <1>2, <1>3, <1>4, <1>5, <1>6, <1>8, <1>22, <1>23, <1>25, <1>26
     DEF Next, Call, Comment, Stop

\* In every state of every run the pieces of nesting state agree: a row never
\* inherits nesting, a quote is open only inside brackets, a line break is
\* welcome only directly inside the outermost ones.
THEOREM NestingCorrect == Spec => []NestingOK
<1>1. Init => TypeOK /\ NestingOK
  BY InitType, InitNesting
<1>2. TypeOK /\ NestingOK /\ [Next]_vars => (TypeOK /\ NestingOK)'
  BY NextType, NextNesting
<1> QED BY <1>1, <1>2, PTL DEF Spec

-----------------------------------------------------------------------------
(* The tokens of the row, and where a line break may stand.                *)

\* The history only watches: a step with it is a step of the scanner.
LEMMA HistStepIsStep == [HistNext]_histVars => [Next]_vars
BY DEF HistNext, HistCall, HistComment, HistStop, HistConsume, histVars, Next

\* The scanner with its history keeps its types and its nesting.
THEOREM HistNestingCorrect == HistSpec => [](TypeOK /\ NestingOK)
<1>1. HistSpec => Spec
  <2>1. HistInit => Init
    BY DEF HistInit
  <2> QED BY <2>1, HistStepIsStep, PTL DEF HistSpec, Spec
<1> QED BY <1>1, TypeCorrect, NestingCorrect, PTL

-----------------------------------------------------------------------------
(* The steps that stay in an unquoted field, one lemma for each kind.      *)

Facts == TypeOK /\ NestingOK /\ FlagsFollowTokens

\* Nothing is said of the flags but in an unquoted field.
LEMMA ElsewhereFlags == state' # "InUnquoted" => FlagsFollowTokens'
BY DEF FlagsFollowTokens

\* Where no line break is welcome, the tokens must say so too.
LEMMA NoWelcome ==
  ASSUME containerNewlineOK' = FALSE,
         containerDepth' # 1 \/ at' \notin Points,
         containerDepth' > 1 => containerInnerRowOpen' = innerRow'
  PROVE  FlagsFollowTokens'
<1>1. (containerDepth' = 1 /\ at' \in Points) = FALSE
  OBVIOUS
<1>2. containerNewlineOK' = (containerDepth' = 1 /\ at' \in Points)
  BY <1>1
<1> QED BY <1>2 DEF FlagsFollowTokens

LEMMA OutsideBrackets ==
  ASSUME containerNewlineOK' = FALSE, containerDepth' = 0
  PROVE  FlagsFollowTokens'
<1>1. containerDepth' # 1 /\ ~(containerDepth' > 1)
  OBVIOUS
<1> QED BY <1>1, NoWelcome

\* Inside a quoted element, directly in the outermost brackets, all is open.
LEMMA QuotedElement ==
  ASSUME inContainerQuote', containerDepth' = 1
  PROVE  FlagsFollowTokens'
<1>1. ~(containerDepth' > 1)
  OBVIOUS
<1> QED BY <1>1 DEF FlagsFollowTokens

\* Where one is.
LEMMA Welcome ==
  ASSUME containerNewlineOK' = TRUE,
         containerDepth' = 1, at' \in Points,
         containerSawNewline' = broke'
  PROVE  FlagsFollowTokens'
<1>1. (containerDepth' = 1 /\ at' \in Points) = TRUE
  OBVIOUS
<1>2. containerNewlineOK' = (containerDepth' = 1 /\ at' \in Points)
  BY <1>1
<1>3. ~(containerDepth' > 1)
  OBVIOUS
<1> QED BY <1>2, <1>3 DEF FlagsFollowTokens

\* Between fields no bracket is open.
LEMMA TopLevel ==
  ASSUME Facts, state \in {"Leading", "Prefix", "Outside"}
  PROVE  /\ containerDepth = 0 /\ inContainerQuote = FALSE
         /\ containerNewlineOK = FALSE /\ containerSawNewline = FALSE
BY DEF Facts, TypeOK, NestingOK, TopLevelBetweenFields, SawOnlyWhereOK

\* A data byte that starts a row.
LEMMA FirstByteFlags ==
  ASSUME NEW b \in Bytes, Facts, FirstByte(b), TrackTokens(b)
  PROVE  FlagsFollowTokens'
<1>1. state \in {"Leading", "Prefix"} /\ b # " " /\ state # "InUnquoted"
  BY DEF FirstByte, StartsData
<1>2. /\ containerDepth = 0 /\ inContainerQuote = FALSE
      /\ containerNewlineOK = FALSE /\ containerSawNewline = FALSE
  BY <1>1, TopLevel
<1>3. SUFFICES ASSUME state' = "InUnquoted" PROVE FlagsFollowTokens'
  BY ElsewhereFlags
<1>4. at' = Token(b) /\ broke' = FALSE
  BY <1>1, <1>3 DEF TrackTokens, Scanning
<1>5. CASE b = "["
  <2>1. at' = "open"
    BY <1>2, <1>4, <1>5 DEF Token, Literal
  <2>2. containerDepth' = 1 /\ containerNewlineOK' = TRUE
    BY <1>2, <1>5 DEF FirstByte
  <2>3. UNCHANGED containerSawNewline
    BY <1>5 DEF FirstByte
  <2> QED BY <1>2, <1>4, <2>1, <2>2, <2>3, Welcome DEF Points
<1>6. CASE b # "["
  <2>1. b # ","
    BY <1>3 DEF FirstByte, Emitted
  <2>2. /\ containerDepth' = IF b = "]" /\ containerDepth > 0
                             THEN containerDepth - 1 ELSE containerDepth
        /\ UNCHANGED containerNewlineOK
    BY <1>6, <2>1 DEF FirstByte
  <2>3. containerDepth' = 0
    BY <1>2, <2>2
  <2>4. containerNewlineOK' = FALSE
    BY <1>2, <2>2
  <2> QED BY <2>3, <2>4, OutsideBrackets
<1> QED BY <1>5, <1>6

\* Text, an angle bracket or a quote: at most an element starts.
LEMMA ElementFlags ==
  ASSUME NEW b \in Bytes \ {",", "\n", "["}, Facts, state \in Plain, TrackTokens(b),
         ClearOnElement(b), IntoUnquoted,
         UNCHANGED <<containerDepth, containerInnerRowOpen>>,
         b = "]" => Literal,
         b = " " => UNCHANGED inContainerQuote
  PROVE  FlagsFollowTokens'
<1>1. state' = "InUnquoted"
  BY DEF IntoUnquoted
<1>2. CASE state = "Outside"
  <2>1. containerDepth = 0 /\ containerNewlineOK = FALSE
    BY <1>2, TopLevel
  <2>2. containerNewlineOK' = FALSE
    BY <2>1 DEF ClearOnElement
  <2>3. containerDepth' = 0
    BY <2>1
  <2> QED BY <2>2, <2>3, OutsideBrackets
<1>3. CASE state = "InUnquoted" /\ b = " "
  <2>1. UNCHANGED tokens
    BY <1>1, <1>3 DEF TrackTokens, Scanning
  <2>2. UNCHANGED <<containerNewlineOK, containerSawNewline>>
    BY <1>3 DEF ClearOnElement, ElementStarts, Facts, TypeOK
  <2> QED BY <1>1, <1>3, <2>1, <2>2 DEF Facts, FlagsFollowTokens, tokens
<1>4. CASE state = "InUnquoted" /\ b # " "
  <2>1. at' = Token(b) /\ innerRow' = InnerRowAfter(b)
    BY <1>1, <1>4 DEF TrackTokens, Scanning
  <2>2. b # "," /\ b # "["
    OBVIOUS
  <2>3. at' = "element"
    <3>1. ~(~Literal /\ b = "]" /\ containerDepth = 2 /\ innerRow)
      OBVIOUS
    <3> QED BY <2>1, <2>2, <3>1 DEF Token
  <2>4. innerRow' = innerRow
    BY <2>1, <2>2, Zenon DEF InnerRowAfter
  <2>5. containerNewlineOK' = FALSE
    BY <1>4 DEF ClearOnElement, ElementStarts, Facts, TypeOK, NestingOK,
                NewlineOnlyAtDepthOne
  <2>6. containerDepth' > 1 => containerInnerRowOpen' = innerRow'
    BY <1>4, <2>4 DEF Facts, FlagsFollowTokens
  <2> QED BY <2>3, <2>5, <2>6, NoWelcome DEF Points
<1> QED BY <1>2, <1>3, <1>4 DEF Plain

\* A '[' inside a quoted element opens nothing.
LEMMA QuotedBracketFlags ==
  ASSUME Facts, Literal, state \in Plain, TrackTokens("["), IntoUnquoted,
         UNCHANGED <<containerDepth, inContainerQuote, containerInnerRowOpen>>
  PROVE  FlagsFollowTokens'
<1>1. state' = "InUnquoted"
  BY DEF IntoUnquoted
<1>2. state = "InUnquoted"
  BY TopLevel DEF Plain, Literal
<1>3. inContainerQuote'
  BY DEF Literal
<1>4. innerRow' = innerRow
  BY <1>1 DEF TrackTokens, Scanning, InnerRowAfter
<1>5. containerDepth > 1 => containerInnerRowOpen = innerRow
  BY <1>2 DEF Facts, FlagsFollowTokens
<1> QED BY <1>3, <1>4, <1>5 DEF FlagsFollowTokens

\* For the leaves below that only the first-order prover takes.
LEMMA DepthsDiffer == 1 # 2
OBVIOUS

\* A comma directly inside the outermost brackets, or elsewhere.
LEMMA InnerCommaFlags ==
  ASSUME Facts, InnerComma, TrackTokens(",")
  PROVE  FlagsFollowTokens'
<1>1. state' = "InUnquoted" /\ UNCHANGED <<containerDepth, inContainerQuote>>
  BY DEF InnerComma, IntoUnquoted
<1>2. at' = Token(",") /\ innerRow' = innerRow /\ broke' = FALSE
  BY <1>1 DEF TrackTokens, Scanning, InnerRowAfter
<1>3. CASE state = "Outside"
  <2>1. containerDepth' = 0
    BY <1>1, <1>3, TopLevel
  <2>2. containerNewlineOK' = FALSE
    BY <1>3, TopLevel DEF InnerComma
  <2> QED BY <2>1, <2>2, OutsideBrackets
<1>4. CASE state = "InUnquoted" /\ containerDepth = 1 /\ ~inContainerQuote
  <2>1. at' = "comma"
    <3>1. ~Literal
      BY <1>4 DEF Literal
    <3>2. containerDepth = 1 /\ containerDepth # 2
      BY <1>4, DepthsDiffer
    <3>3. Token(",") = "comma"
      BY <3>1, <3>2 DEF Token
    <3> QED BY <1>2, <3>3
  <2>2. containerNewlineOK' = TRUE /\ containerSawNewline' = FALSE
    BY <1>4 DEF InnerComma
  <2> QED BY <1>1, <1>2, <1>4, <2>1, <2>2, Welcome DEF Points
<1>5. CASE state = "InUnquoted" /\ containerDepth = 1 /\ inContainerQuote
  <2>1. inContainerQuote'
    BY <1>1, <1>5
  <2>2. containerDepth' = 1
    BY <1>1, <1>5
  <2> QED BY <2>1, <2>2, QuotedElement
<1>6. CASE state = "InUnquoted" /\ containerDepth # 1
  <2>1. containerNewlineOK' = FALSE
    BY <1>6 DEF InnerComma, Facts, TypeOK, NestingOK, NewlineOnlyAtDepthOne
  <2>2. containerDepth' # 1
    BY <1>1, <1>6
  <2>3. containerDepth' > 1 => containerInnerRowOpen' = innerRow'
    BY <1>1, <1>2, <1>6 DEF InnerComma, Facts, FlagsFollowTokens
  <2> QED BY <2>1, <2>2, <2>3, NoWelcome
<1> QED BY <1>3, <1>4, <1>5, <1>6 DEF InnerComma, Plain

\* A line break that stays in the field is the first since its token.
LEMMA InnerNewlineFlags ==
  ASSUME Facts, InnerNewline, TrackTokens("\n")
  PROVE  FlagsFollowTokens'
<1>1. /\ state = "InUnquoted" /\ state' = "InUnquoted"
      /\ UNCHANGED <<containerDepth, inContainerQuote, containerNewlineOK,
                     containerInnerRowOpen>>
      /\ containerSawNewline' = containerNewlineOK
  BY DEF InnerNewline
<1>2. broke' = TRUE /\ UNCHANGED <<at, innerRow>>
  BY <1>1 DEF TrackTokens, Scanning
<1>3. containerNewlineOK \in BOOLEAN
  BY DEF Facts, TypeOK
<1> QED BY <1>1, <1>2, <1>3 DEF Facts, FlagsFollowTokens

\* A bracket opens: the container itself, an inner row, or brackets deeper in.
LEMMA OpenBracketFlags ==
  ASSUME Facts, OpenBracket, TrackTokens("[")
  PROVE  FlagsFollowTokens'
<1>1. /\ state' = "InUnquoted" /\ ~Literal /\ state \in Plain
      /\ containerDepth' = containerDepth + 1
      /\ UNCHANGED inContainerQuote
  BY DEF OpenBracket, IntoUnquoted
<1>2. at' = Token("[") /\ innerRow' = InnerRowAfter("[") /\ broke' = FALSE
  BY <1>1 DEF TrackTokens, Scanning
<1>3. containerDepth \in 0..MaxDepth
  BY DEF Facts, TypeOK
<1>4. CASE containerDepth = 0
  <2>1. at' = "open"
    BY <1>1, <1>2, <1>4 DEF Token
  <2>2. containerNewlineOK' = TRUE
    BY <1>1, <1>4 DEF OpenBracket, Plain
  <2>3. containerSawNewline' = FALSE
    <3>1. CASE state = "Outside"
      BY <3>1, TopLevel DEF OpenBracket
    <3>2. CASE state = "InUnquoted"
      BY <1>4, <3>2 DEF OpenBracket
    <3> QED BY <1>1, <3>1, <3>2 DEF Plain
  <2>4. containerDepth' = 1
    BY <1>1, <1>4
  <2> QED BY <1>2, <2>1, <2>2, <2>3, <2>4, Welcome DEF Points
<1>5. CASE containerDepth = 1
  <2>1. state = "InUnquoted"
    BY <1>1, <1>5, TopLevel DEF Plain
  <2>2. ~inContainerQuote
    BY <1>1, <1>5 DEF Literal
  <2>3. containerNewlineOK = (at \in Points)
    BY <1>5, <2>1, <2>2 DEF Facts, FlagsFollowTokens
  <2>4. innerRow' = (at \in Points)
    BY <1>1, <1>2, <1>5 DEF InnerRowAfter
  <2>5. containerInnerRowOpen = FALSE
    BY <1>5 DEF Facts, TypeOK, NestingOK, InnerRowIsInside
  <2>6. /\ containerInnerRowOpen' = (containerNewlineOK \/ containerInnerRowOpen)
        /\ containerNewlineOK' = FALSE
    BY <1>5, <2>1 DEF OpenBracket
  <2>7. containerInnerRowOpen' = innerRow'
    <3>1. CASE at \in Points
      BY <2>3, <2>4, <2>6, <3>1
    <3>2. CASE at \notin Points
      <4> (at \in Points) = FALSE
        BY <3>2
      <4>1. containerNewlineOK = FALSE
        BY <2>3, Zenon
      <4>2. innerRow' = FALSE
        BY <2>4, Zenon
      <4> QED BY <2>5, <2>6, <4>1, <4>2
    <3> QED BY <3>1, <3>2
  <2>8. containerDepth' # 1
    BY <1>1, <1>5
  <2> QED BY <2>6, <2>7, <2>8, NoWelcome
<1>6. CASE containerDepth > 1
  <2>1. state = "InUnquoted"
    <3>1. containerDepth # 0
      BY <1>3, <1>6
    <3> QED BY <1>1, <3>1, TopLevel DEF Plain
  <2>2. containerDepth # 0 /\ containerDepth # 1
    BY <1>6
  <2>3. UNCHANGED <<containerNewlineOK, containerInnerRowOpen>>
    BY <2>1, <2>2 DEF OpenBracket
  <2>4. innerRow' = innerRow
    BY <1>2, <2>2 DEF InnerRowAfter
  <2>5. containerNewlineOK' = FALSE
    BY <2>2, <2>3 DEF Facts, TypeOK, NestingOK, NewlineOnlyAtDepthOne
  <2>6. containerInnerRowOpen' = innerRow'
    BY <1>6, <2>1, <2>3, <2>4 DEF Facts, FlagsFollowTokens
  <2>7. containerDepth' # 1
    BY <1>1, <1>3, <1>6
  <2> QED BY <2>5, <2>6, <2>7, NoWelcome
<1> QED BY <1>3, <1>4, <1>5, <1>6

\* A bracket closes: a line break is welcome behind it if it ends an inner row.
LEMMA CloseBracketFlags ==
  ASSUME Facts, CloseBracket, TrackTokens("]")
  PROVE  FlagsFollowTokens'
<1>1. /\ state' = "InUnquoted" /\ ~Literal /\ state \in Plain
      /\ containerDepth' = Closed
      /\ UNCHANGED inContainerQuote
  BY DEF CloseBracket, IntoUnquoted
<1>2. at' = Token("]") /\ innerRow' = InnerRowAfter("]") /\ broke' = FALSE
  BY <1>1 DEF TrackTokens, Scanning
<1>3. containerDepth \in 0..MaxDepth
  BY DEF Facts, TypeOK
<1>4. CASE containerDepth \in {0, 1}
  <2>1. containerDepth' = 0
    BY <1>1, <1>4 DEF Closed
  <2>2. containerNewlineOK' = (containerNewlineOK /\ ~ElementStarts("]"))
    BY <2>1 DEF CloseBracket, ClearOnElement
  <2>3. containerNewlineOK => ElementStarts("]")
    <3>1. containerNewlineOK => state = "InUnquoted"
      BY <1>1, TopLevel DEF Plain
    <3>2. containerNewlineOK => containerDepth = 1
      BY DEF Facts, NestingOK, NewlineOnlyAtDepthOne
    <3> QED BY <3>1, <3>2 DEF ElementStarts
  <2>4. containerNewlineOK' = FALSE
    BY <2>2, <2>3
  <2> QED BY <2>1, <2>4, OutsideBrackets
<1>5. CASE containerDepth = 2
  <2>1. state = "InUnquoted"
    BY <1>1, <1>5, TopLevel DEF Plain
  <2>2. containerDepth' = 1
    BY <1>1, <1>5 DEF Closed
  <2>3. containerInnerRowOpen = innerRow
    BY <1>5, <2>1 DEF Facts, FlagsFollowTokens
  <2>4. CASE containerInnerRowOpen
    <3>1. containerNewlineOK' = TRUE /\ containerSawNewline' = FALSE
      BY <2>2, <2>4 DEF CloseBracket
    <3>2. at' = "close"
      BY <1>1, <1>2, <1>5, <2>3, <2>4 DEF Token
    <3> QED BY <1>2, <2>2, <3>1, <3>2, Welcome DEF Points
  <2>5. CASE ~containerInnerRowOpen
    <3>1. at' = "element"
      BY <1>2, <2>3, <2>5 DEF Token
    <3>2. containerNewlineOK' = (containerNewlineOK /\ ~ElementStarts("]"))
      BY <2>5 DEF CloseBracket, ClearOnElement
    <3>3. ~containerNewlineOK
      BY <1>5 DEF Facts, NestingOK, NewlineOnlyAtDepthOne
    <3>4. containerNewlineOK' = FALSE
      BY <3>2, <3>3
    <3>5. ~(containerDepth' > 1)
      BY <2>2
    <3> QED BY <3>1, <3>4, <3>5, NoWelcome DEF Points
  <2> QED BY <2>4, <2>5
<1>6. CASE containerDepth > 2
  <2>1. state = "InUnquoted"
    <3>1. containerDepth # 0
      BY <1>3, <1>6
    <3> QED BY <1>1, <3>1, TopLevel DEF Plain
  <2>2. containerDepth' # 1 /\ containerDepth # 1 /\ containerDepth # 2
    BY <1>1, <1>3, <1>6 DEF Closed
  <2>3. /\ UNCHANGED containerInnerRowOpen
        /\ containerNewlineOK' = (containerNewlineOK /\ ~ElementStarts("]"))
    BY <2>2 DEF CloseBracket, ClearOnElement
  <2>4. ~containerNewlineOK
    BY <2>2 DEF Facts, NestingOK, NewlineOnlyAtDepthOne
  <2>5. containerNewlineOK' = FALSE
    BY <2>3, <2>4
  <2>6. innerRow' = innerRow
    BY <1>2, <2>2 DEF InnerRowAfter
  <2>7. containerInnerRowOpen = innerRow
    <3>1. containerDepth > 1
      BY <1>3, <1>6
    <3> QED BY <2>1, <3>1 DEF Facts, FlagsFollowTokens
  <2> QED BY <2>2, <2>3, <2>5, <2>6, <2>7, NoWelcome
<1> QED BY <1>3, <1>4, <1>5, <1>6

-----------------------------------------------------------------------------
\* A byte of the input, whatever it is.
LEMMA ConsumeFlags ==
  ASSUME NEW b \in Bytes, Facts, Consume(b), TrackTokens(b)
  PROVE  FlagsFollowTokens'
<1>1. SUFFICES ASSUME state' = "InUnquoted" PROVE FlagsFollowTokens'
  BY ElsewhereFlags
<1>2. CASE FirstByte(b)
  BY <1>2, FirstByteFlags
<1>3. CASE b = "," /\ InnerComma
  BY <1>3, InnerCommaFlags
<1>4. CASE b = "\n" /\ InnerNewline
  BY <1>4, InnerNewlineFlags
<1>5. CASE b = "[" /\ OpenBracket
  BY <1>5, OpenBracketFlags
<1>6. CASE b = "]" /\ CloseBracket
  BY <1>6, CloseBracketFlags
<1>7. CASE b \in {"<", ">"} /\ Angle(b)
  BY <1>7, ElementFlags DEF Angle
<1>8. CASE b = "\"" /\ ToggleQuote
  BY <1>8, ElementFlags DEF ToggleQuote
<1>9. CASE Text(b)
  <2>1. b \notin {",", "\n"} /\ (b \in {"[", "]"} => Literal)
    BY <1>9 DEF Text, IsText
  <2>2. CASE b # "["
    BY <1>9, <2>1, <2>2, ElementFlags DEF Text
  <2>3. CASE b = "["
    BY <1>9, <2>1, <2>3, QuotedBracketFlags DEF Text
  <2> QED BY <2>2, <2>3
<1>10. ~LeadingNUL /\ ~BadByte(b)
  BY <1>1 DEF LeadingNUL, BadByte, Fail
<1>11. ~Delimiter /\ ~EndRow
  BY <1>1 DEF Delimiter, EndRow, FinishRow, EmitField, Emitted, Fail
<1>12. ~Blank /\ ~OpenQuoted /\ ~QuotedByte(b)
  BY <1>1 DEF Blank, OpenQuoted, QuotedByte, vars
<1> QED
  BY <1>2, <1>3, <1>4, <1>5, <1>6, <1>7, <1>8, <1>9, <1>10, <1>11, <1>12 DEF Consume

\* Every step of NextRow and of its caller keeps FlagsFollowTokens.
LEMMA NextFlags ==
  ASSUME Facts, [HistNext]_histVars
  PROVE  FlagsFollowTokens'
<1>1. CASE UNCHANGED histVars
  BY <1>1 DEF Facts, FlagsFollowTokens, histVars, history, tokens, vars, nesting
<1>2. CASE HistCall
  <2>1. state' # "InUnquoted"
    BY <1>2 DEF HistCall, Call, StartRow, ReleaseRow, LeaveHeader
  <2> QED BY <2>1, ElsewhereFlags
<1>3. CASE HistComment
  <2>1. SkipLine \/ \E end \in Ends : PrefixBlock(end) \/ Annotation(end)
    BY <1>3 DEF HistComment, Comment
  <2>2. SkipLine => state' # "InUnquoted"
    BY DEF SkipLine, vars
  <2>3. ASSUME NEW end \in Ends, PrefixBlock(end) PROVE state' # "InUnquoted"
    BY <2>3 DEF PrefixBlock
  <2>4. ASSUME NEW end \in Ends, Annotation(end) PROVE state' # "InUnquoted"
    BY <2>4 DEF Annotation, EmitField, Emitted, Fail
  <2>5. state' # "InUnquoted"
    BY <2>1, <2>2, <2>3, <2>4
  <2> QED BY <2>5, ElsewhereFlags
<1>4. CASE HistStop
  <2>1. state' # "InUnquoted"
    BY <1>4 DEF HistStop, Stop, LeadingEOF, EndOfInput, FinishRow, EmitField, Emitted,
                Fail, ReadError
  <2> QED BY <2>1, ElsewhereFlags
<1>5. ASSUME NEW b \in Bytes, HistConsume(b) PROVE FlagsFollowTokens'
  BY <1>5, ConsumeFlags DEF HistConsume
<1> QED BY <1>1, <1>2, <1>3, <1>4, <1>5 DEF HistNext

\* In every state of every run the scanner's line-break flags say what the
\* bytes read so far mean: a line break is welcome exactly behind the '[' of a
\* container, a comma between its elements, or the ']' of an inner row.
THEOREM FlagsCorrect == HistSpec => []FlagsFollowTokens
<1>1. HistInit => FlagsFollowTokens
  BY DEF HistInit, Init, FlagsFollowTokens
<1>2. TypeOK /\ NestingOK /\ FlagsFollowTokens /\ [HistNext]_histVars
        => FlagsFollowTokens'
  BY NextFlags DEF Facts
<1> QED BY <1>1, <1>2, HistNestingCorrect, PTL DEF HistSpec

-----------------------------------------------------------------------------
\* One line break in an unquoted field, outside quotes.
LEMMA LineBreakStep ==
  ASSUME Facts, state = "InUnquoted", ~inContainerQuote, Consume("\n")
  PROVE  state' = "InUnquoted" <=> ScannerAllows
<1>3. EndRow \/ InnerNewline
  BY DEF Consume, FirstByte, StartsData, Text, IsText, QuotedByte, BadByte
<1>4. Swallows <=> ScannerAllows
  <2>1. containerNewlineOK = (containerDepth = 1 /\ at \in Points)
    BY DEF Facts, FlagsFollowTokens
  <2>2. containerNewlineOK => containerSawNewline = broke
    BY DEF Facts, FlagsFollowTokens
  <2>3. CASE containerDepth = 1 /\ at \in Points
    <3>1. containerNewlineOK = TRUE
      BY <2>1, <2>3
    <3>2. containerSawNewline = broke
      BY <2>2, <3>1
    <3> QED BY <2>3, <3>1, <3>2 DEF Swallows, ScannerAllows
  <2>4. CASE ~(containerDepth = 1 /\ at \in Points)
    <3>1. containerNewlineOK = FALSE
      BY <2>1, <2>4
    <3> QED BY <2>4, <3>1 DEF Swallows, ScannerAllows
  <2> QED BY <2>3, <2>4
<1>5. Swallows => state' = "InUnquoted"
  BY <1>3 DEF EndRow, InnerNewline
<1>6. ~Swallows => state' # "InUnquoted"
  BY <1>3 DEF EndRow, InnerNewline, FinishRow, EmitField, Emitted, Fail
<1> QED BY <1>4, <1>5, <1>6

\* The scanner went on at the last line break exactly if it allowed for it.
BreaksAllowed == lastBreak.wentOn <=> lastBreak.stood = "point"

LEMMA NoBreakAllowed ==
  ASSUME lastBreak' = NoBreak
  PROVE  BreaksAllowed'
<1>1. lastBreak'.wentOn = FALSE /\ lastBreak'.stood = "nowhere"
  BY DEF NoBreak
<1> QED BY <1>1 DEF BreaksAllowed

\* A byte of the input, whatever it is.
LEMMA ConsumeBreaks ==
  ASSUME NEW b \in Bytes, Facts, BreaksAllowed, Consume(b), TrackBreaks(b)
  PROVE  BreaksAllowed'
<1>1. CASE LineBreak(b) /\ containerDepth > 0 /\ ~inContainerQuote
  <2>1. lastBreak' = [stood |-> Stood, wentOn |-> state' = "InUnquoted"]
    BY <1>1 DEF TrackBreaks
  <2>2. Stood = "point" <=> ScannerAllows
    BY DEF Stood
  <2>3. state' = "InUnquoted" <=> ScannerAllows
    BY <1>1, LineBreakStep DEF LineBreak
  <2>4. lastBreak'.stood = Stood /\ (lastBreak'.wentOn <=> state' = "InUnquoted")
    BY <2>1
  <2> QED BY <2>2, <2>3, <2>4 DEF BreaksAllowed
<1>2. CASE ~(LineBreak(b) /\ containerDepth > 0 /\ ~inContainerQuote)
  <2>1. lastBreak' = lastBreak \/ lastBreak' = NoBreak
    BY <1>2 DEF TrackBreaks
  <2> QED BY <2>1, NoBreakAllowed DEF BreaksAllowed
<1> QED BY <1>1, <1>2

LEMMA NextBreaks ==
  ASSUME Facts, BreaksAllowed, [HistNext]_histVars
  PROVE  BreaksAllowed'
<1>1. CASE UNCHANGED histVars
  BY <1>1 DEF BreaksAllowed, histVars, history
<1>2. CASE HistCall
  BY <1>2 DEF HistCall, BreaksAllowed
<1>3. CASE HistComment \/ HistStop
  BY <1>3, NoBreakAllowed DEF HistComment, HistStop
<1>4. ASSUME NEW b \in Bytes, HistConsume(b) PROVE BreaksAllowed'
  BY <1>4, ConsumeBreaks DEF HistConsume
<1> QED BY <1>1, <1>2, <1>3, <1>4 DEF HistNext

\* What the scanner did at a break, held against the byte that came behind it.
LEMMA BreakAgainstFormat ==
  ASSUME BreaksAllowed, lastBreak # NoBreak, NEW b
  PROVE  IF lastBreak.wentOn THEN FormatGoesOn(lastBreak.stood, b)
         ELSE ~FormatGoesOn(lastBreak.stood, b) \/ EndsEarly(lastBreak.stood, b)
<1>1. CASE lastBreak.stood = "point"
  BY <1>1 DEF BreaksAllowed, FormatGoesOn
<1>2. CASE lastBreak.stood # "point"
  BY <1>2 DEF BreaksAllowed, FormatGoesOn, EndsEarly
<1> QED BY <1>1, <1>2

\* Outside the quotes of a container the scanner goes on only at the line
\* breaks where the format goes on, and at all of those but a break before the
\* closing ']' and one in an inner row, however deep the brackets and however
\* long the row (containerNewlineOK and containerSawNewline of
\* handleInUnquoted).
THEOREM LineBreaksWherePermitted == HistSpec => LineBreakRule
<1>1. HistInit => BreaksAllowed
  BY DEF HistInit, BreaksAllowed, NoBreak
<1>2. TypeOK /\ NestingOK /\ FlagsFollowTokens /\ BreaksAllowed /\ [HistNext]_histVars
        => BreaksAllowed'
  BY NextBreaks DEF Facts
<1>3. BreaksAllowed /\ [HistNext]_histVars
        => [lastBreak # NoBreak /\ did' \in Bytes \ {" ", "\n"}
              => IF lastBreak.wentOn THEN FormatGoesOn(lastBreak.stood, did')
                 ELSE ~FormatGoesOn(lastBreak.stood, did')
                        \/ EndsEarly(lastBreak.stood, did')]_histVars
  BY BreakAgainstFormat
<1>4. HistSpec => []BreaksAllowed
  BY <1>1, <1>2, HistNestingCorrect, FlagsCorrect, PTL DEF HistSpec
<1> QED BY <1>3, <1>4, PTL DEF HistSpec, LineBreakRule
=============================================================================
