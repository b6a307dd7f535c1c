-------------------------- MODULE ChunkBufferProofs --------------------------
(***************************************************************************)
(* Proofs about the chunk buffer, for every input, chunk size and way the  *)
(* reader cuts the input up: chunk objects have one owner, the unread      *)
(* bytes stay the consecutive ones up to where the reader stands, a        *)
(* release leaves nothing that was read, and the buffer implements the     *)
(* plain stream of bytes.                                                  *)
(*                                                                         *)
(* The argument runs over the place of a cursor, the number of input bytes *)
(* before it, read off one cell of memory.  Each step's lemma says what it *)
(* does to the two places the buffer keeps; only at the end is the         *)
(* recursive Ahead shown to be the run of positions behind a place.        *)
(***************************************************************************)
EXTENDS ChunkBuffer, Integers, SequenceTheorems, WellFoundedInduction, TLAPS

-----------------------------------------------------------------------------
(***************************************************************************)
(* Induction over the natural numbers in a form the proofs can cite: a set *)
(* that has 0 and the successor of each of its numbers has every number.   *)
(* It takes the place of the library's NatInduction, whose parameter is an *)
(* operator.                                                               *)
(***************************************************************************)
LEMMA LeastElement ==
  ASSUME NEW T \in SUBSET Nat, T # {}
  PROVE  \E m \in T : \A k \in T : m <= k
<1> DEFINE R == OpToRel(<, Nat)
<1>1. IsWellFoundedOn(R, Nat)
  BY NatLessThanWellFounded
<1>2. \A x, y \in Nat : x < y => <<x, y>> \in R
  BY DEF OpToRel
<1> HIDE DEF R
<1>3. PICK m \in T : \A k \in T : ~(<<k, m>> \in R)
  BY <1>1, WFMin
<1>4. ASSUME NEW k \in T PROVE m <= k
  <2>1. k \in Nat /\ m \in Nat
    OBVIOUS
  <2>2. ~(k < m)
    BY <1>2, <1>3, <2>1
  <2> QED BY <2>1, <2>2
<1> QED BY <1>3, <1>4

LEMMA SetInduction ==
  ASSUME NEW T \in SUBSET Nat, 0 \in T, \A n \in T : n + 1 \in T
  PROVE  T = Nat
<1> SUFFICES ASSUME T # Nat PROVE FALSE
  OBVIOUS
<1> DEFINE U == Nat \ T
<1>1. U \in SUBSET Nat /\ U # {}
  OBVIOUS
<1>2. PICK m \in U : \A k \in U : m <= k
  BY <1>1, LeastElement
<1>3. m \in Nat /\ m # 0 /\ m \notin T
  OBVIOUS
<1>4. m - 1 \in Nat /\ ~(m <= m - 1)
  BY <1>3
<1>5. m - 1 \in T
  BY <1>2, <1>4
<1>6. (m - 1) + 1 = m
  BY <1>3
<1> QED BY <1>3, <1>5, <1>6

\* The same up to a bound, from the bound down to 1: what holds behind the last
\* of N places and carries over from each place to the one before it holds at
\* every place.
LEMMA DownwardInduction ==
  ASSUME NEW N \in Nat, NEW T \in SUBSET Nat, N + 1 \in T,
         \A k \in 1..N : k + 1 \in T => k \in T
  PROVE  1..(N + 1) \subseteq T
<1> DEFINE S == {n \in Nat : n <= N => N + 1 - n \in T}
<1>1. S \in SUBSET Nat /\ 0 \in S
  <2>1. N + 1 - 0 = N + 1
    OBVIOUS
  <2> QED BY <2>1
<1>2. ASSUME NEW n \in S PROVE n + 1 \in S
  <2>1. n \in Nat /\ n + 1 \in Nat
    OBVIOUS
  <2>2. ASSUME n + 1 <= N PROVE N + 1 - (n + 1) \in T
    <3>1. n <= N
      BY <2>1, <2>2
    <3>2. N + 1 - n \in T
      BY <3>1
    <3>3. N - n \in 1..N /\ (N - n) + 1 = N + 1 - n /\ N + 1 - (n + 1) = N - n
      BY <2>1, <2>2
    <3> QED BY <3>2, <3>3
  <2> QED BY <2>1, <2>2
<1> HIDE DEF S
<1>3. S = Nat
  BY <1>1, <1>2, SetInduction
<1>4. ASSUME NEW k \in 1..(N + 1) PROVE k \in T
  <2>1. N + 1 - k \in Nat /\ N + 1 - k <= N /\ N + 1 - (N + 1 - k) = k
    OBVIOUS
  <2>2. N + 1 - k \in S
    BY <1>3, <2>1
  <2> QED BY <2>1, <2>2 DEF S
<1> QED BY <1>4

-----------------------------------------------------------------------------

(***************************************************************************)
(* The inductive invariant.  Chunks are numbered from 1 here.              *)
(***************************************************************************)
Cell(k, o) == mem[chunks[k]].data[o]
End(k)     == mem[chunks[k]].end

\* A chunk holds consecutive positions, the next chunk goes on where it ends,
\* and the last one ends where the reader stands.
Consecutive ==
  \A k \in 1..Len(chunks) :
    /\ Cell(k, 0) >= 1 /\ Cell(k, 0) + End(k) <= taken + 1
    /\ \A o \in 0..(End(k) - 1) : Cell(k, o) = Cell(k, 0) + o
    /\ Cell(k, 0) + End(k) = IF k = Len(chunks) THEN taken + 1 ELSE Cell(k + 1, 0)

\* A cursor stands on a buffered byte, or right behind one, or at the start
\* of the chunk that will be filled next.
Within(c) == /\ c.chunk <= Len(chunks)
             /\ c.offset <= IF c.chunk = Len(chunks) THEN 0 ELSE End(c.chunk + 1)

EndIsEnd == hitEOF => taken = Len(input)

IInv == /\ BufferTypeOK /\ ChunkOwnedOnce
        /\ Consecutive
        /\ Within(cursor) /\ Within(saved.cursor)
        /\ EndIsEnd

-----------------------------------------------------------------------------
(* Types.                                                                  *)

Chunk(n) == [data : [Offsets -> 0..n], end : 0..ChunkSize]

LEMMA InputType ==
  ASSUME input \in Inputs
  PROVE  /\ Len(input) \in Nat
         /\ \A i \in 1..Len(input) : input[i] \in Bytes
<1>1. PICK n \in 0..MaxInput : input \in [1..n -> Bytes]
  BY DEF Inputs
<1>2. n \in Nat
  BY ByteAssumption
<1>3. Len(input) = n
  BY <1>1, <1>2
<1> QED BY <1>1, <1>2, <1>3

LEMMA ChunkType ==
  ASSUME BufferTypeOK
  PROVE  /\ Len(chunks) \in Nat /\ DOMAIN chunks = 1..Len(chunks)
         /\ taken \in Nat /\ Len(input) \in Nat
         /\ \A k \in 1..Len(chunks) : 
              /\ chunks[k] \in ChunkIds
              /\ mem[chunks[k]] \in Chunk(Len(input))
              /\ End(k) \in 1..ChunkSize
              /\ \A o \in Offsets : Cell(k, o) \in 0..Len(input)
<1>1. Len(chunks) \in Nat /\ DOMAIN chunks = 1..Len(chunks)
  BY DEF BufferTypeOK
<1>2. Len(input) \in Nat /\ taken \in Nat
  BY InputType DEF BufferTypeOK
<1>3. ASSUME NEW k \in 1..Len(chunks)
      PROVE  /\ chunks[k] \in ChunkIds
             /\ mem[chunks[k]] \in Chunk(Len(input))
             /\ End(k) \in 1..ChunkSize
             /\ \A o \in Offsets : Cell(k, o) \in 0..Len(input)
  <2>1. chunks[k] \in ChunkIds /\ chunks[k] \in InUse
    <3>1. chunks \in Seq(ChunkIds)
      BY DEF BufferTypeOK
    <3> QED BY <1>1, <3>1, ElementOfSeq DEF InUse
  <2>2. mem[chunks[k]] \in Chunk(Len(input))
    BY <2>1 DEF BufferTypeOK, Chunk
  <2>3. End(k) > 0 /\ End(k) \in 0..ChunkSize
    BY <2>1, <2>2 DEF BufferTypeOK, NoEmptyChunk, End, Chunk
  <2>4. End(k) \in 1..ChunkSize
    BY <2>3, ChunkAssumption
  <2>5. \A o \in Offsets : Cell(k, o) \in 0..Len(input)
    BY <2>2 DEF Cell, Chunk
  <2> QED BY <2>1, <2>2, <2>4, <2>5
<1> QED BY <1>1, <1>2, <1>3

LEMMA ChunkNumbers ==
  ASSUME BufferTypeOK, NEW k \in 1..Len(chunks)
  PROVE  /\ k \in Nat /\ Len(chunks) \in Nat /\ taken \in Nat /\ ChunkSize \in Nat
         /\ Cell(k, 0) \in Nat
         /\ End(k) \in Nat /\ End(k) >= 1 /\ End(k) <= ChunkSize
<1>1. 0 \in Offsets
  BY ChunkAssumption DEF Offsets
<1>2. Cell(k, 0) \in 0..Len(input) /\ Len(input) \in Nat
  BY <1>1, ChunkType
<1>3. End(k) \in 1..ChunkSize /\ Len(chunks) \in Nat /\ taken \in Nat
  BY ChunkType
<1> QED BY <1>2, <1>3, ChunkAssumption

-----------------------------------------------------------------------------
(* Reading through a cursor that is within the buffer.                     *)

Place(c) == IF Beyond(c) THEN taken ELSE Cell(c.chunk + 1, 0) + c.offset - 1

\* Settling a cursor keeps it within, and moves it off the end of its chunk
\* without passing over a byte.
LEMMA SettleWithin ==
  ASSUME BufferTypeOK, Consecutive, NEW STATE c, c \in Cursor, Within(c)
  PROVE  /\ Settle(c) \in Cursor /\ Within(Settle(c))
         /\ ~Exhausted(Settle(c))
         /\ Place(Settle(c)) = Place(c)
<1>1. CASE ~Exhausted(c)
  BY <1>1 DEF Settle
<1>2. CASE Exhausted(c)
  <2> DEFINE k == c.chunk + 1
  <2>1. k \in 1..Len(chunks) /\ ~(c.chunk = Len(chunks)) /\ c.chunk \in Nat /\ ~Beyond(c)
    BY <1>2, ChunkType DEF Exhausted, Beyond, Cursor
  <2>2. c.offset = End(k)
    <3>1. c.offset >= End(k)
      BY <1>2 DEF Exhausted, ChunkAt, End
    <3>2. c.offset <= End(k)
      BY <2>1 DEF Within
    <3> QED BY <2>1, <3>1, <3>2, ChunkType DEF Cursor
  <2>3. Settle(c) = [chunk |-> k, offset |-> 0]
    BY <1>2 DEF Settle, NextChunk
  <2>4. Settle(c) \in Cursor
    BY <2>1, <2>3, ChunkAssumption DEF Cursor
  <2>5. Place(c) = Cell(k, 0) + End(k) - 1
    BY <2>1, <2>2 DEF Place
  <2> HIDE DEF k
  <2>8. /\ Cell(k, 0) \in Nat /\ End(k) \in Nat /\ taken \in Nat
        /\ k \in Nat /\ Len(chunks) \in Nat
    BY <2>1, ChunkNumbers
  <2>6. CASE k = Len(chunks)
    <3>1. Beyond(Settle(c)) /\ Within(Settle(c))
      BY <2>3, <2>6, ChunkType DEF Beyond, Within
    <3>2. Cell(k, 0) + End(k) = taken + 1
      BY <2>1, <2>6 DEF Consecutive
    <3>3. ~Exhausted(Settle(c)) /\ Place(Settle(c)) = taken
      BY <3>1 DEF Exhausted, Place
    <3>4. Place(c) = taken
      BY <2>5, <2>8, <3>2
    <3> QED BY <2>4, <3>1, <3>3, <3>4
  <2>7. CASE k # Len(chunks)
    <3>1. k + 1 \in 1..Len(chunks) /\ k < Len(chunks)
      BY <2>1, <2>7, <2>8
    <3>2. End(k + 1) \in 1..ChunkSize
      BY <3>1, ChunkType
    <3>3. ~Beyond(Settle(c))
      BY <2>1, <2>3, <3>1, ChunkType DEF Beyond
    <3>8. Within(Settle(c))
      <4>1. Settle(c).chunk = k /\ Settle(c).offset = 0
        BY <2>3
      <4>2. 0 <= End(k + 1)
        BY <3>2, ChunkAssumption
      <4> QED BY <2>7, <2>8, <3>1, <4>1, <4>2 DEF Within
    <3>4. ~Exhausted(Settle(c))
      BY <2>3, <3>2 DEF Exhausted, ChunkAt, End
    <3>5. Cell(k, 0) + End(k) = Cell(k + 1, 0)
      BY <2>1, <2>7 DEF Consecutive
    <3>6. Place(Settle(c)) = Cell(k + 1, 0) + 0 - 1
      BY <2>3, <3>3 DEF Place
    <3>7. Cell(k + 1, 0) \in Int
      BY <3>1, ChunkType, ChunkAssumption DEF Offsets
    <3>9. Place(Settle(c)) = Place(c)
      BY <2>5, <2>8, <3>5, <3>6, <3>7
    <3> QED BY <2>4, <3>4, <3>8, <3>9
  <2> QED BY <2>6, <2>7
<1> QED BY <1>1, <1>2

\* A settled cursor that is not beyond the data stands on a byte: the one
\* behind its place.
LEMMA SettledByte ==
  ASSUME BufferTypeOK, Consecutive, NEW STATE c, c \in Cursor, Within(c),
         ~Exhausted(c), ~Beyond(c)
  PROVE  /\ PosAt(c) = Place(c) + 1
         /\ Place(c) \in Nat /\ Place(c) < taken
         /\ After(c) \in Cursor /\ Within(After(c)) /\ ~Beyond(After(c))
         /\ Place(After(c)) = Place(c) + 1
<1> DEFINE k == c.chunk + 1
<1>1. k \in 1..Len(chunks) /\ c.offset \in Nat /\ c.chunk \in Nat
  BY ChunkType DEF Beyond, Cursor
<1>2. c.offset < End(k) /\ c.offset \in 0..(End(k) - 1)
  <2>1. End(k) \in Nat /\ ~(c.offset >= End(k))
    BY <1>1, ChunkNumbers DEF Exhausted, ChunkAt, End
  <2> QED BY <1>1, <2>1
<1>3. PosAt(c) = Cell(k, c.offset)
  BY DEF PosAt, ChunkAt, Cell
<1>4. Place(c) = Cell(k, 0) + c.offset - 1
  BY DEF Place
<1>5. /\ Cell(k, c.offset) = Cell(k, 0) + c.offset
      /\ Cell(k, 0) >= 1 /\ Cell(k, 0) + End(k) <= taken + 1
  BY <1>1, <1>2 DEF Consecutive
<1>6. /\ After(c) = [chunk |-> c.chunk, offset |-> c.offset + 1]
      /\ After(c).chunk = c.chunk /\ After(c).offset = c.offset + 1
  BY DEF After, Cursor
<1> HIDE DEF k
<1>7. /\ k \in Nat /\ Len(chunks) \in Nat /\ taken \in Nat /\ ChunkSize \in Nat
      /\ Cell(k, 0) \in Nat
      /\ End(k) \in Nat /\ End(k) >= 1 /\ End(k) <= ChunkSize
  BY <1>1, ChunkNumbers
<1>8. PosAt(c) = Place(c) + 1 /\ Place(c) \in Nat
  BY <1>1, <1>3, <1>4, <1>5, <1>7
<1>9. Place(c) < taken
  BY <1>1, <1>2, <1>4, <1>5, <1>7
<1>10. After(c) \in Cursor
  <2>1. c.offset + 1 \in 0..ChunkSize
    BY <1>1, <1>2, <1>7
  <2> QED BY <1>1, <1>6, <2>1 DEF Cursor
<1>11. ~Beyond(After(c))
  BY <1>6 DEF Beyond
<1>12. Within(After(c))
  <2>1. c.chunk < Len(chunks) /\ c.offset + 1 <= End(k)
    BY <1>1, <1>2, <1>7 DEF Beyond
  <2> QED BY <1>1, <1>6, <1>7, <2>1 DEF Within, k
<1>13. Place(After(c)) = Cell(k, 0) + (c.offset + 1) - 1
  BY <1>6, <1>11 DEF Place, k
<1>14. Place(After(c)) = Place(c) + 1
  BY <1>1, <1>4, <1>7, <1>13
<1> QED BY <1>8, <1>9, <1>10, <1>11, <1>12, <1>14

-----------------------------------------------------------------------------
(* Steps that leave the buffered bytes where they are.                     *)

Places == [cursor : Cursor, line : Nat \ {0}, col : Nat]
Results == Bytes \cup {"nothing", "EOF", "failed"}

LEMMA SameBytes ==
  ASSUME IInv, UNCHANGED <<input, taken, mem, chunks>>,
         hitEOF' \in BOOLEAN, EndIsEnd',
         pool' \subseteq ChunkIds, InUse \cap pool' = {},
         NEW STATE c, cursor' = c, c \in Cursor, Within(c),
         NEW STATE s, saved' = s, s \in Places, Within(s.cursor),
         line' \in Nat \ {0}, col' \in Nat, got' \in Results
  PROVE  /\ IInv'
         /\ Place(cursor)' = Place(c)
         /\ Place(saved.cursor)' = Place(s.cursor)
<1>1. BufferTypeOK'
  BY DEF IInv, BufferTypeOK, NoEmptyChunk, InUse, Places, Results
<1>2. ChunkOwnedOnce'
  BY DEF IInv, ChunkOwnedOnce, InUse
<1>3. Consecutive'
  BY DEF IInv, Consecutive, Cell, End
<1>4. Within(cursor)' /\ Within(saved.cursor)'
  BY DEF Within, End
<1>5. Place(cursor)' = Place(c) /\ Place(saved.cursor)' = Place(s.cursor)
  BY DEF Place, Beyond, Cell
<1> QED BY <1>1, <1>2, <1>3, <1>4, <1>5 DEF IInv

\* The types of what such a step hands on.
LEMMA CursorTypes ==
  ASSUME IInv
  PROVE  /\ cursor \in Cursor /\ saved \in Places /\ saved.cursor \in Cursor
         /\ pool \subseteq ChunkIds /\ InUse \cap pool = {}
         /\ line \in Nat \ {0} /\ col \in Nat /\ got \in Results
         /\ Here \in Cursor /\ Within(Here) /\ ~Exhausted(Here)
         /\ Place(Here) = Place(cursor)
<1>1. /\ cursor \in Cursor /\ saved \in Places /\ pool \subseteq ChunkIds
      /\ line \in Nat \ {0} /\ col \in Nat /\ got \in Results
  BY DEF IInv, BufferTypeOK, Places, Results
<1>2. saved.cursor \in Cursor
  BY <1>1 DEF Places
<1>3. InUse \cap pool = {}
  BY DEF IInv, ChunkOwnedOnce
<1>4. Here \in Cursor /\ Within(Here) /\ ~Exhausted(Here) /\ Place(Here) = Place(cursor)
  BY <1>1, SettleWithin DEF IInv, Here
<1> QED BY <1>1, <1>2, <1>3, <1>4

LEMMA ReadErrorStep ==
  ASSUME IInv, ReadError
  PROVE  /\ IInv'
         /\ Place(saved.cursor)' = Place(saved.cursor)
         /\ \/ Place(cursor)' = Place(cursor)
            \/ /\ ~Beyond(Here) /\ input[PosAt(Here)] = CR
               /\ Place(cursor)' = Place(cursor) + 1
<1> DEFINE c == IF Beyond(Here) THEN Here ELSE After(Here)
<1>1. /\ c \in Cursor /\ Within(c)
      /\ Place(c) = IF Beyond(Here) THEN Place(cursor) ELSE Place(cursor) + 1
  BY CursorTypes, SettledByte DEF IInv
<1>2. pool' \subseteq ChunkIds /\ InUse \cap pool' = {}
  BY CursorTypes DEF ReadError
<1>3. cursor' = c /\ got' \in Results /\ UNCHANGED <<input, taken, hitEOF, mem, chunks, line, col, saved>>
  BY DEF ReadError, Results
<1>4. hitEOF' \in BOOLEAN /\ EndIsEnd'
  BY <1>3 DEF IInv, BufferTypeOK, EndIsEnd
<1>5. ~Beyond(Here) => input[PosAt(Here)] = CR
  BY DEF ReadError, NeedsFill
<1> HIDE DEF c
<1>6. IInv' /\ Place(cursor)' = Place(c) /\ Place(saved.cursor)' = Place(saved.cursor)
  BY <1>1, <1>2, <1>3, <1>4, CursorTypes, SameBytes DEF IInv
<1> QED BY <1>1, <1>5, <1>6

LEMMA SaveStep ==
  ASSUME IInv, Save
  PROVE  /\ IInv'
         /\ Place(cursor)' = Place(cursor)
         /\ Place(saved.cursor)' = Place(cursor)
<1> DEFINE s == [cursor |-> cursor, line |-> line, col |-> col]
<1>1. s \in Places /\ s.cursor = cursor
  BY CursorTypes DEF Places
<1>2. saved' = s /\ UNCHANGED <<input, taken, hitEOF, mem, chunks, pool, cursor, line, col, got>>
  BY DEF Save
<1>3. hitEOF' \in BOOLEAN /\ EndIsEnd'
  BY <1>2 DEF IInv, BufferTypeOK, EndIsEnd
<1> HIDE DEF s
<1> QED BY <1>1, <1>2, <1>3, CursorTypes, SameBytes DEF IInv

LEMMA RewindStep ==
  ASSUME IInv, Rewind
  PROVE  /\ IInv'
         /\ Place(cursor)' = Place(saved.cursor)
         /\ Place(saved.cursor)' = Place(saved.cursor)
<1>1. /\ cursor' = saved.cursor /\ got' \in Results
      /\ UNCHANGED <<input, taken, hitEOF, mem, chunks, pool, saved>>
  BY DEF Rewind, Results
<1>2. line' \in Nat \ {0} /\ col' \in Nat
  BY CursorTypes DEF Rewind, Places
<1>3. hitEOF' \in BOOLEAN /\ EndIsEnd'
  BY <1>1 DEF IInv, BufferTypeOK, EndIsEnd
<1> QED BY <1>1, <1>2, <1>3, CursorTypes, SameBytes DEF IInv

LEMMA ReadEOFStep ==
  ASSUME IInv, ReadEOF
  PROVE  /\ IInv'
         /\ Place(cursor)' = Place(cursor) /\ Place(cursor) = Len(input)
         /\ Place(saved.cursor)' = Place(saved.cursor)
<1>1. /\ cursor' = Here /\ got' \in Results
      /\ UNCHANGED <<input, taken, hitEOF, mem, chunks, pool, line, col, saved>>
  BY DEF ReadEOF, Results
<1>2. hitEOF' \in BOOLEAN /\ EndIsEnd'
  BY <1>1 DEF IInv, BufferTypeOK, EndIsEnd
<1>3. /\ IInv' /\ Place(cursor)' = Place(Here)
      /\ Place(saved.cursor)' = Place(saved.cursor)
  BY <1>1, <1>2, CursorTypes, SameBytes DEF IInv
<1>4. Place(Here) = Len(input)
  BY DEF ReadEOF, Place, IInv, EndIsEnd
<1> QED BY <1>3, <1>4, CursorTypes

\* The byte behind a CR is looked at wherever it lies, and is an LF exactly if
\* the input says so: it is in the buffer, or the input ends with the CR.
LEMMA LookBehindCR ==
  ASSUME IInv, Ready, input[PosAt(Here)] = CR
  PROVE  /\ FollowedByLF <=> /\ Place(cursor) + 2 <= Len(input)
                             /\ input[Place(cursor) + 2] = LF
         /\ FollowedByLF =>
              LET next == Settle(After(Settle(After(Here))))
              IN  next \in Cursor /\ Within(next) /\ Place(next) = Place(cursor) + 2
<1> DEFINE peek == Settle(After(Here))
           P == Place(cursor)
<1>1. /\ Here \in Cursor /\ Within(Here) /\ ~Exhausted(Here) /\ ~Beyond(Here)
      /\ Place(Here) = P
  BY CursorTypes DEF Ready
<1>2. /\ After(Here) \in Cursor /\ Within(After(Here))
      /\ Place(After(Here)) = P + 1 /\ P \in Nat /\ P < taken
  BY <1>1, SettledByte DEF IInv
<1>3. /\ peek \in Cursor /\ Within(peek) /\ ~Exhausted(peek)
      /\ Place(peek) = P + 1
  BY <1>2, SettleWithin DEF IInv
<1>4. taken \in Nat /\ Len(input) \in Nat /\ taken <= Len(input)
  <2>1. Len(input) \in Nat /\ taken \in 0..Len(input)
    BY InputType DEF IInv, BufferTypeOK
  <2> QED BY <2>1
<1>5. CASE Beyond(peek)
  <2>1. hitEOF
    BY <1>1, <1>5 DEF Ready, NeedsFill
  <2>2. taken = Len(input) /\ Place(peek) = taken
    BY <1>5, <2>1 DEF IInv, EndIsEnd, Place
  <2>3. ~(P + 2 <= Len(input))
    BY <1>2, <1>3, <1>4, <2>2
  <2>4. ~FollowedByLF
    BY <1>5 DEF FollowedByLF
  <2> QED BY <2>3, <2>4
<1>6. CASE ~Beyond(peek)
  <2>1. /\ PosAt(peek) = P + 1 + 1 /\ P + 1 < taken
        /\ After(peek) \in Cursor /\ Within(After(peek))
        /\ Place(After(peek)) = P + 1 + 1
    BY <1>3, <1>6, SettledByte DEF IInv
  <2>2. P + 1 + 1 = P + 2 /\ P + 2 <= Len(input)
    BY <1>2, <1>4, <2>1
  <2>3. FollowedByLF <=> input[P + 2] = LF
    BY <1>6, <2>1, <2>2 DEF FollowedByLF
  <2>4. /\ Settle(After(peek)) \in Cursor /\ Within(Settle(After(peek)))
        /\ Place(Settle(After(peek))) = P + 2
    BY <2>1, <2>2, SettleWithin DEF IInv
  <2> QED BY <2>2, <2>3, <2>4
<1> QED BY <1>5, <1>6

LEMMA ReadByteStep ==
  ASSUME IInv, ReadByte
  PROVE  /\ IInv'
         /\ PosAt(Here) = Place(cursor) + 1 /\ Place(cursor) \in Nat /\ Place(cursor) < Len(input)
         /\ Place(cursor)' =
              Place(cursor) + IF /\ Place(cursor) + 2 <= Len(input)
                                 /\ input[Place(cursor) + 1] = CR
                                 /\ input[Place(cursor) + 2] = LF THEN 2 ELSE 1
         /\ Place(saved.cursor)' = Place(saved.cursor)
<1> DEFINE c == IF TakesCRLF THEN Settle(After(Settle(After(Here)))) ELSE After(Here)
           P == Place(cursor)
           CRLF == /\ P + 2 <= Len(input) /\ input[P + 1] = CR /\ input[P + 2] = LF
<1>1. Ready /\ ~Beyond(Here)
  BY DEF ReadByte, Ready
<1>2. /\ PosAt(Here) = P + 1 /\ P \in Nat /\ P < taken
      /\ After(Here) \in Cursor /\ Within(After(Here)) /\ Place(After(Here)) = P + 1
  BY <1>1, CursorTypes, SettledByte DEF IInv
<1>3. P < Len(input) /\ Len(input) \in Nat
  <2>1. taken \in 0..Len(input) /\ Len(input) \in Nat
    BY InputType DEF IInv, BufferTypeOK
  <2> QED BY <1>2, <2>1
<1>4. /\ c \in Cursor /\ Within(c)
      /\ Place(c) = P + IF CRLF THEN 2 ELSE 1
  <2>1. CASE TakesCRLF
    <3>1. input[PosAt(Here)] = CR /\ FollowedByLF
      BY <2>1 DEF TakesCRLF
    <3> QED BY <1>1, <1>2, <2>1, <3>1, LookBehindCR
  <2>2. CASE ~TakesCRLF
    <3>1. ~CRLF
      BY <1>1, <1>2, <2>2, LookBehindCR DEF TakesCRLF
    <3> QED BY <1>2, <2>2, <3>1
  <2> QED BY <2>1, <2>2
<1>5. Value \in Bytes
  <2>1. input[P + 1] \in Bytes
    <3>1. P + 1 \in 1..Len(input)
      BY <1>2, <1>3
    <3> QED BY <3>1, InputType DEF IInv, BufferTypeOK
  <2> QED BY <1>2, <2>1, ByteAssumption DEF Value
<1>6. /\ cursor' = c /\ got' = Value
      /\ UNCHANGED <<input, taken, hitEOF, mem, chunks, pool, saved>>
  BY DEF ReadByte
<1>7. line' \in Nat \ {0} /\ col' \in Nat
  <2>1. line' = line \/ line' = line + 1
    BY DEF ReadByte
  <2>2. col' = 0 \/ col' = col + 1
    BY DEF ReadByte
  <2> QED BY <2>1, <2>2, CursorTypes
<1>8. hitEOF' \in BOOLEAN /\ EndIsEnd'
  BY <1>6 DEF IInv, BufferTypeOK, EndIsEnd
<1> HIDE DEF c
<1>9. /\ IInv' /\ Place(cursor)' = Place(c)
      /\ Place(saved.cursor)' = Place(saved.cursor)
  BY <1>4, <1>5, <1>6, <1>7, <1>8, CursorTypes, SameBytes DEF IInv, Results
<1> QED BY <1>2, <1>3, <1>4, <1>9

-----------------------------------------------------------------------------
(* fillChunk.                                                              *)

FillWith(id, n) ==
  /\ taken + n <= Len(input)
  /\ mem' = [mem EXCEPT ![id] = Filled(@, n)]
  /\ chunks' = Append(chunks, id)
  /\ pool' = pool \ {id}
  /\ taken' = taken + n
  /\ hitEOF' \in {FALSE, taken + n = Len(input)}
  /\ UNCHANGED got

\* The buffer has one chunk more; the others are as they were.
LEMMA FillCells ==
  ASSUME IInv, NEW id \in ChunkIds \ InUse, NEW n \in 1..ChunkSize, FillWith(id, n)
  PROVE  /\ Len(chunks') = Len(chunks) + 1 /\ chunks' \in Seq(ChunkIds)
         /\ \A k \in 1..Len(chunks) :
              /\ chunks'[k] = chunks[k] /\ chunks[k] # id /\ chunks[k] \in ChunkIds
              /\ End(k)' = End(k)
              /\ \A o : Cell(k, o)' = Cell(k, o)
         /\ chunks'[Len(chunks) + 1] = id
         /\ \A k : k = Len(chunks) + 1 =>
              /\ End(k)' = n
              /\ \A o \in 0..(n - 1) : Cell(k, o)' = taken + o + 1
<1>1. chunks \in Seq(ChunkIds) /\ Len(chunks) \in Nat /\ DOMAIN chunks = 1..Len(chunks)
  BY ChunkType DEF IInv, BufferTypeOK
<1>2. chunks' = Append(chunks, id) /\ mem' = [mem EXCEPT ![id] = Filled(@, n)]
  BY DEF FillWith
<1>3. /\ Len(chunks') = Len(chunks) + 1 /\ chunks' \in Seq(ChunkIds)
      /\ \A k \in 1..Len(chunks) : chunks'[k] = chunks[k]
      /\ chunks'[Len(chunks) + 1] = id
  BY <1>1, <1>2, AppendProperties
<1>4. mem'[id] = Filled(mem[id], n) /\ \A j \in ChunkIds : j # id => mem'[j] = mem[j]
  BY <1>2 DEF IInv, BufferTypeOK
<1>5. ASSUME NEW k \in 1..Len(chunks)
      PROVE  /\ chunks[k] # id /\ chunks[k] \in ChunkIds
             /\ mem'[chunks'[k]] = mem[chunks[k]]
  <2>1. chunks[k] \in InUse /\ chunks[k] \in ChunkIds
    BY <1>1, ElementOfSeq DEF InUse
  <2> QED BY <1>3, <1>4, <2>1
<1>6. ASSUME NEW k, k = Len(chunks) + 1
      PROVE  /\ End(k)' = n
             /\ \A o \in 0..(n - 1) : Cell(k, o)' = taken + o + 1
  <2>1. mem'[chunks'[k]] = Filled(mem[id], n)
    BY <1>3, <1>4, <1>6
  <2>2. ASSUME NEW o \in 0..(n - 1) PROVE Filled(mem[id], n).data[o] = taken + o + 1
    <3>1. o \in Offsets /\ o < n
      BY ChunkAssumption DEF Offsets
    <3> QED BY <3>1 DEF Filled
  <2>3. Filled(mem[id], n).end = n
    BY DEF Filled
  <2> QED BY <2>1, <2>2, <2>3 DEF Cell, End
<1> QED BY <1>3, <1>5, <1>6 DEF Cell, End

LEMMA FillTypes ==
  ASSUME IInv, NEW id \in ChunkIds \ InUse, NEW n \in 1..ChunkSize, FillWith(id, n),
         cursor' \in Cursor, UNCHANGED <<input, line, col, saved>>
  PROVE  BufferTypeOK' /\ ChunkOwnedOnce' /\ EndIsEnd'
<1>1. /\ Len(chunks') = Len(chunks) + 1 /\ chunks' \in Seq(ChunkIds)
      /\ \A k \in 1..Len(chunks) : chunks'[k] = chunks[k] /\ chunks[k] # id
      /\ chunks'[Len(chunks) + 1] = id
  BY FillCells
<1>2. /\ Len(chunks) \in Nat /\ taken \in Nat /\ Len(input) \in Nat
      /\ DOMAIN chunks = 1..Len(chunks) /\ DOMAIN chunks' = 1..(Len(chunks) + 1)
  BY <1>1, ChunkType DEF IInv
<1>3. InUse' = InUse \cup {id}
  BY <1>1, <1>2 DEF InUse
<1>4. taken' \in 0..Len(input) /\ taken' = taken + n
  BY <1>2, ChunkAssumption DEF FillWith
<1>5. Filled(mem[id], n) \in Chunk(Len(input))
  <2>1. mem[id] \in Chunk(Len(input))
    BY DEF IInv, BufferTypeOK, Chunk
  <2>2. n \in 0..ChunkSize
    BY ChunkAssumption
  <2>3. ASSUME NEW o \in Offsets
        PROVE  (IF o < n THEN taken + o + 1 ELSE mem[id].data[o]) \in 0..Len(input)
    <3>1. mem[id].data[o] \in 0..Len(input)
      BY <2>1 DEF Chunk
    <3>2. o < n => taken + o + 1 \in 0..Len(input)
      <4>1. o \in Nat /\ n \in Nat
        BY ChunkAssumption DEF Offsets
      <4> QED BY <1>2, <1>4, <4>1
    <3> QED BY <3>1, <3>2
  <2> QED BY <2>2, <2>3 DEF Filled, Chunk
<1>6. mem' \in [ChunkIds -> Chunk(Len(input))]
  BY <1>5 DEF FillWith, IInv, BufferTypeOK, Chunk
<1>7. NoEmptyChunk'
  <2>1. mem'[id].end = n
    BY DEF FillWith, Filled, IInv, BufferTypeOK
  <2>2. n > 0
    BY ChunkAssumption
  <2>3. ASSUME NEW j \in InUse PROVE mem'[j].end > 0
    <3>1. j # id
      OBVIOUS
    <3> QED BY <3>1 DEF FillWith, IInv, BufferTypeOK, NoEmptyChunk
  <2> QED BY <1>3, <2>1, <2>2, <2>3 DEF NoEmptyChunk
<1>8. hitEOF' \in BOOLEAN /\ EndIsEnd'
  BY <1>4 DEF FillWith, EndIsEnd
<1>9. BufferTypeOK'
  BY <1>1, <1>4, <1>6, <1>7, <1>8 DEF FillWith, IInv, BufferTypeOK, Chunk
<1>10. ChunkOwnedOnce'
  <2>1. InUse' \cap pool' = {}
    BY <1>3 DEF FillWith, IInv, ChunkOwnedOnce
  <2>2. ASSUME NEW j \in 1..(Len(chunks) + 1), NEW k \in 1..(Len(chunks) + 1),
               chunks'[j] = chunks'[k]
        PROVE  j = k
    <3>1. CASE j = Len(chunks) + 1 \/ k = Len(chunks) + 1
      BY <1>1, <1>2, <2>2, <3>1
    <3>2. CASE j \in 1..Len(chunks) /\ k \in 1..Len(chunks)
      BY <1>1, <1>2, <2>2, <3>2 DEF IInv, ChunkOwnedOnce
    <3> QED BY <1>2, <3>1, <3>2
  <2> QED BY <1>2, <2>1, <2>2 DEF ChunkOwnedOnce
<1> QED BY <1>8, <1>9, <1>10

LEMMA FillConsecutive ==
  ASSUME IInv, NEW id \in ChunkIds \ InUse, NEW n \in 1..ChunkSize, FillWith(id, n)
  PROVE  Consecutive'
<1> DEFINE N == Len(chunks)
<1>1. /\ Len(chunks') = N + 1 /\ taken' = taken + n
      /\ N \in Nat /\ n \in Nat /\ n >= 1 /\ taken \in Nat
  BY FillCells, ChunkType, ChunkAssumption DEF FillWith, IInv
<1>2. SUFFICES ASSUME NEW k \in 1..(N + 1)
               PROVE  /\ Cell(k, 0)' >= 1 /\ Cell(k, 0)' + End(k)' <= taken' + 1
                      /\ \A o \in 0..(End(k)' - 1) : Cell(k, o)' = Cell(k, 0)' + o
                      /\ Cell(k, 0)' + End(k)' = IF k = N + 1 THEN taken' + 1
                                                 ELSE Cell(k + 1, 0)'
  BY <1>1 DEF Consecutive
<1>3. CASE k = N + 1
  <2>1. End(k)' = n /\ \A o \in 0..(n - 1) : Cell(k, o)' = taken + o + 1
    BY <1>3, FillCells
  <2>2. Cell(k, 0)' = taken + 0 + 1
    BY <1>1, <2>1
  <2> QED BY <1>1, <1>3, <2>1, <2>2
<1>4. CASE k \in 1..N
  <2>1. End(k)' = End(k) /\ \A o : Cell(k, o)' = Cell(k, o)
    BY <1>4, FillCells
  <2>2. Cell(k, 0) \in Nat /\ End(k) \in Nat
    BY <1>4, ChunkNumbers DEF IInv
  <2>3. /\ Cell(k, 0) >= 1 /\ Cell(k, 0) + End(k) <= taken + 1
        /\ \A o \in 0..(End(k) - 1) : Cell(k, o) = Cell(k, 0) + o
        /\ Cell(k, 0) + End(k) = IF k = N THEN taken + 1 ELSE Cell(k + 1, 0)
    BY <1>4 DEF IInv, Consecutive
  <2>4. Cell(k, 0) + End(k) <= taken' + 1
    BY <1>1, <2>2, <2>3
  <2>5. Cell(k, 0) + End(k) = Cell(k + 1, 0)'
    <3>1. CASE k = N
      <4>1. \A o \in 0..(n - 1) : Cell(k + 1, o)' = taken + o + 1
        BY <3>1, FillCells
      <4>2. Cell(k + 1, 0)' = taken + 0 + 1
        BY <1>1, <4>1
      <4> QED BY <1>1, <2>3, <3>1, <4>2
    <3>2. CASE k # N
      <4>1. k + 1 \in 1..N
        BY <1>1, <1>4, <3>2
      <4>2. Cell(k + 1, 0)' = Cell(k + 1, 0)
        BY <4>1, FillCells
      <4> QED BY <2>3, <3>2, <4>2
    <3> QED BY <3>1, <3>2
  <2>6. k # N + 1
    BY <1>1, <1>4
  <2> QED BY <2>1, <2>3, <2>4, <2>5, <2>6
<1> QED BY <1>1, <1>3, <1>4

\* A cursor within the buffer stays so, and in its place.
LEMMA FillPlaces ==
  ASSUME IInv, NEW id \in ChunkIds \ InUse, NEW n \in 1..ChunkSize, FillWith(id, n)
  PROVE  \A c \in Cursor : Within(c) => /\ Within(c)'
                                        /\ Place(c)' = Place(c)
<1> DEFINE N == Len(chunks)
<1> TAKE c \in Cursor
<1> HAVE Within(c)
<1>1. /\ Len(chunks') = N + 1 /\ N \in Nat /\ n \in Nat /\ n >= 1 /\ taken \in Nat
      /\ c.chunk \in Nat /\ c.offset \in Nat /\ c.chunk <= N
  BY FillCells, ChunkType, ChunkAssumption DEF IInv, Cursor, Within
<1>2. CASE c.chunk = N
  <2>1. c.offset = 0 /\ Place(c) = taken
    BY <1>1, <1>2 DEF Within, Place, Beyond
  <2>2. End(c.chunk + 1)' = n /\ Cell(c.chunk + 1, 0)' = taken + 0 + 1
    <3>1. 0 \in 0..(n - 1)
      BY <1>1
    <3> QED BY <1>2, <3>1, FillCells
  <2>3. Place(c)' = taken + 0 + 1 + 0 - 1
    BY <1>1, <1>2, <2>1, <2>2 DEF Place, Beyond
  <2> QED BY <1>1, <1>2, <2>1, <2>2, <2>3 DEF Within
<1>3. CASE c.chunk < N
  <2>1. c.chunk + 1 \in 1..N
    BY <1>1, <1>3
  <2>2. End(c.chunk + 1)' = End(c.chunk + 1) /\ Cell(c.chunk + 1, 0)' = Cell(c.chunk + 1, 0)
    BY <2>1, FillCells
  <2>3. Within(c)'
    BY <1>1, <1>3, <2>2 DEF Within
  <2>4. Place(c)' = Place(c)
    BY <1>1, <1>3, <2>2 DEF Place, Beyond
  <2> QED BY <2>3, <2>4
<1> QED BY <1>1, <1>2, <1>3

LEMMA FillChunkStep ==
  ASSUME IInv, FillChunk
  PROVE  /\ IInv'
         /\ UNCHANGED <<input, line, col, got>>
         /\ saved'.line = saved.line /\ saved'.col = saved.col
         /\ Place(cursor)' = Place(cursor)
         /\ Place(saved.cursor)' = Place(saved.cursor)
<1>1. cursor' = Here /\ UNCHANGED <<input, line, col, saved>>
  BY DEF FillChunk
<1>2. ASSUME NEW id \in ChunkIds \ InUse, NEW n \in 1..ChunkSize, FillWith(id, n)
      PROVE  /\ IInv' /\ UNCHANGED got
             /\ Place(cursor)' = Place(cursor)
             /\ Place(saved.cursor)' = Place(saved.cursor)
  <2>1. \A c \in Cursor : Within(c) => Within(c)' /\ Place(c)' = Place(c)
    BY <1>2, FillPlaces
  <2>2. Within(cursor)' /\ Place(cursor)' = Place(Here)
    BY <1>1, <2>1, CursorTypes DEF Within, Place, Beyond, Cell, End
  <2>3. Within(saved.cursor)' /\ Place(saved.cursor)' = Place(saved.cursor)
    BY <1>1, <2>1, CursorTypes DEF IInv, Within, Place, Beyond, Cell, End
  <2>4. Consecutive'
    BY <1>2, FillConsecutive
  <2>5. BufferTypeOK' /\ ChunkOwnedOnce' /\ EndIsEnd'
    BY <1>1, <1>2, FillTypes, CursorTypes
  <2>6. UNCHANGED got
    BY <1>2 DEF FillWith
  <2> QED BY <2>2, <2>3, <2>4, <2>5, <2>6, CursorTypes DEF IInv
<1>3. ASSUME taken = Len(input), hitEOF' = TRUE,
             NEW id \in ChunkIds \ InUse, pool' = pool \cup {id},
             UNCHANGED <<taken, mem, chunks, got>>
      PROVE  /\ IInv'
             /\ Place(cursor)' = Place(cursor)
             /\ Place(saved.cursor)' = Place(saved.cursor)
  <2>1. pool' \subseteq ChunkIds /\ InUse \cap pool' = {}
    BY <1>3, CursorTypes
  <2>2. hitEOF' \in BOOLEAN /\ EndIsEnd'
    BY <1>1, <1>3 DEF EndIsEnd
  <2> QED BY <1>1, <1>3, <2>1, <2>2, CursorTypes, SameBytes DEF IInv
<1> QED BY <1>1, <1>2, <1>3 DEF FillChunk, FillWith

-----------------------------------------------------------------------------
(* releaseUpTo.                                                            *)

\* A sequence without its first d elements.
LEMMA DropProperties ==
  ASSUME NEW S, NEW s \in Seq(S), NEW d \in 0..Len(s)
  PROVE  LET rest == SubSeq(s, d + 1, Len(s))
         IN  /\ rest \in Seq(S) /\ Len(rest) = Len(s) - d
             /\ \A i \in 1..(Len(s) - d) : rest[i] = s[d + i]
<1> DEFINE N == Len(s)
           m == d + 1
<1>1. N \in Nat /\ d \in Nat /\ d <= N
  OBVIOUS
<1>2. \A i \in m..N : s[i] \in S
  BY <1>1, ElementOfSeq
<1>3. m \in Int /\ N \in Int /\ N - m + 1 = N - d /\ \A i \in Int : m + i - 1 = d + i
  BY <1>1
<1>4. m <= N => N - m + 1 = N - d
  BY <1>1
<1>5. ~(m <= N) => N - d = 0
  BY <1>1
<1> HIDE DEF N, m
<1>6. /\ SubSeq(s, m, N) \in Seq(S)
      /\ Len(SubSeq(s, m, N)) = IF m <= N THEN N - m + 1 ELSE 0
      /\ \A i \in 1..(N - m + 1) : SubSeq(s, m, N)[i] = s[m + i - 1]
  BY <1>2, <1>3, SubSeqProperties
<1>7. Len(SubSeq(s, m, N)) = N - d
  BY <1>4, <1>5, <1>6
<1>8. \A i \in 1..(N - d) : SubSeq(s, m, N)[i] = s[d + i]
  BY <1>3, <1>6
<1> QED BY <1>6, <1>7, <1>8 DEF N, m

\* A release gives up the first d chunks and the first off bytes of the next,
\* which is all that lies before the cursor.
Shape(d, off) ==
  /\ chunks' = SubSeq(chunks, d + 1, Len(chunks))
  /\ pool' \subseteq pool \cup {chunks[k] : k \in 1..d}
  /\ \/ off = 0 /\ UNCHANGED mem
     \/ /\ d < Len(chunks) /\ 0 < off /\ off < End(d + 1)
        /\ mem' = [mem EXCEPT ![chunks[d + 1]] = MovedDown(@, off)]
  /\ Place(cursor) = IF d = Len(chunks) THEN taken ELSE Cell(d + 1, 0) + off - 1

LEMMA ReleaseShape ==
  ASSUME IInv, ReleaseUpTo(cursor)
  PROVE  /\ cursor' = Origin
         /\ \E d \in 0..Len(chunks), off \in Nat : Shape(d, off) /\ Here.chunk <= d
<1> DEFINE N == Len(chunks)
           c == IF cursor.chunk > N THEN [chunk |-> N, offset |-> 0] ELSE cursor
           kept == SubSeq(chunks, c.chunk + 1, N)
           cur == [cursor EXCEPT !.chunk = Less(@, c.chunk)]
           head == mem[kept[1]]
           d == cursor.chunk
           k == d + 1
<1>1. /\ N \in Nat /\ chunks \in Seq(ChunkIds) /\ cursor \in Cursor /\ Within(cursor)
      /\ d \in 0..N /\ cursor.offset \in Nat
  BY ChunkType, CursorTypes DEF IInv, BufferTypeOK, Cursor, Within
<1>2. c = cursor
  BY <1>1
<1>3. cursor = [chunk |-> d, offset |-> cursor.offset]
  BY <1>1 DEF Cursor
<1>4. cur = [chunk |-> 0, offset |-> cursor.offset]
  <2>1. Less(d, d) = 0
    BY <1>1 DEF Less
  <2>2. cur = [cursor EXCEPT !.chunk = Less(d, d)]
    BY <1>2
  <2> QED BY <1>1, <2>1, <2>2 DEF Cursor
<1>5. /\ pool' = pool \cup Returned(c)
      /\ \/ /\ kept = <<>>
            /\ chunks' = <<>> /\ cursor' = Origin
            /\ UNCHANGED mem
         \/ /\ kept # <<>> /\ c.offset = 0
            /\ chunks' = kept /\ cursor' = cur
            /\ UNCHANGED mem
         \/ /\ kept # <<>> /\ c.offset > 0 /\ Spent(c, head)
            /\ chunks' = Tail(kept)
            /\ cursor' = IF Tail(kept) = <<>> THEN Origin
                         ELSE [chunk |-> Less(cur.chunk, 1), offset |-> 0]
            /\ UNCHANGED mem
         \/ /\ kept # <<>> /\ c.offset > 0 /\ ~Spent(c, head)
            /\ chunks' = kept
            /\ mem' = [mem EXCEPT ![kept[1]] = MovedDown(@, c.offset)]
            /\ cursor' = IF cur.chunk = 0
                         THEN [cur EXCEPT !.offset = Less(@, c.offset)] ELSE cur
  BY DEF ReleaseUpTo
<1>6. pool' = pool \cup {chunks[j] : j \in 1..d}
  BY <1>2, <1>5 DEF Returned
<1> HIDE DEF c, cur
<1>7. kept = SubSeq(chunks, k, N)
  BY <1>2
<1>8. /\ kept \in Seq(ChunkIds)
      /\ Len(kept) = IF k <= N THEN N - d ELSE 0
      /\ \A i \in 1..Len(kept) : kept[i] = chunks[d + i]
  <2>1. /\ kept \in Seq(ChunkIds) /\ Len(kept) = N - d
        /\ \A i \in 1..(N - d) : kept[i] = chunks[d + i]
    BY <1>1, <1>7, DropProperties
  <2> QED BY <1>1, <2>1
<1> HIDE DEF kept
<1>9. CASE kept = <<>>
  <2>1. d = N
    BY <1>1, <1>8, <1>9
  <2>2. chunks' = <<>> /\ cursor' = Origin /\ UNCHANGED mem
    BY <1>5, <1>9
  <2>3. chunks' = SubSeq(chunks, d + 1, N)
    BY <1>1, <1>7, <1>9, <2>2
  <2>4. Place(cursor) = taken
    BY <1>1, <2>1 DEF Place, Beyond
  <2>5. Shape(d, 0)
    BY <1>6, <2>1, <2>2, <2>3, <2>4 DEF Shape
  <2>6. Here = cursor
    BY <1>1, <2>1 DEF Here, Settle, Exhausted, Beyond
  <2> QED BY <1>1, <2>2, <2>5, <2>6
<1>10. CASE kept # <<>>
  <2>1. d < N /\ kept[1] = chunks[k] /\ k \in 1..N
    <3>1. Len(kept) # 0
      BY <1>8, <1>10
    <3> QED BY <1>1, <1>8, <3>1
  <2>2. Place(cursor) = Cell(k, 0) + cursor.offset - 1
    BY <1>1, <2>1 DEF Place, Beyond
  <2>3. /\ Cell(k, 0) \in Nat /\ End(k) \in Nat /\ head.end = End(k)
        /\ cursor.offset <= End(k)
    BY <1>1, <2>1, ChunkNumbers DEF IInv, End, Within
  <2> ~Beyond(cursor) /\ ChunkAt(cursor).end = End(k)
    BY <1>1, <2>1 DEF Beyond, ChunkAt, End
  <2>4. CASE cursor.offset = 0
    <3> End(k) >= 1 /\ ~(cursor.offset >= End(k))
      BY <2>1, <2>3, <2>4, ChunkNumbers DEF IInv
    <3> Here = cursor
      BY DEF Here, Settle, Exhausted
    <3>1. chunks' = kept /\ cursor' = cur /\ UNCHANGED mem
      BY <1>2, <1>5, <1>10, <2>4
    <3>2. cursor' = Origin
      BY <1>4, <2>4, <3>1 DEF Origin
    <3>3. Shape(d, 0)
      BY <1>6, <1>7, <2>1, <2>2, <2>4, <3>1 DEF Shape
    <3> QED BY <1>1, <3>2, <3>3
  <2>5. CASE cursor.offset > 0 /\ cursor.offset < End(k)
    <3> ~(cursor.offset >= End(k))
      BY <1>1, <2>3, <2>5
    <3> Here = cursor
      BY DEF Here, Settle, Exhausted
    <3>1. ~Spent(c, head)
      BY <1>1, <1>2, <2>3, <2>5 DEF Spent
    <3>2. /\ chunks' = kept
          /\ mem' = [mem EXCEPT ![kept[1]] = MovedDown(@, cursor.offset)]
          /\ cursor' = IF cur.chunk = 0
                       THEN [cur EXCEPT !.offset = Less(@, cursor.offset)] ELSE cur
      BY <1>1, <1>2, <1>5, <1>10, <2>5, <3>1
    <3>3. cursor' = Origin
      <4>1. Less(cursor.offset, cursor.offset) = 0
        BY <1>1 DEF Less
      <4> QED BY <1>4, <3>2, <4>1 DEF Origin
    <3>4. Shape(d, cursor.offset)
      BY <1>1, <1>6, <1>7, <2>1, <2>2, <2>5, <3>2 DEF Shape
    <3> QED BY <1>1, <3>3, <3>4
  <2>6. CASE cursor.offset > 0 /\ cursor.offset = End(k)
    <3> cursor.offset >= End(k)
      BY <2>3, <2>6
    <3> Here.chunk = k
      BY DEF Here, Settle, Exhausted, NextChunk
    <3>1. Spent(c, head)
      BY <1>1, <1>2, <2>3, <2>6 DEF Spent
    <3>2. /\ chunks' = Tail(kept) /\ UNCHANGED mem
          /\ cursor' = IF Tail(kept) = <<>> THEN Origin
                       ELSE [chunk |-> Less(cur.chunk, 1), offset |-> 0]
      BY <1>1, <1>2, <1>5, <1>10, <2>6, <3>1
    <3>3. cursor' = Origin
      <4>1. Less(0, 1) = 0
        BY DEF Less
      <4> QED BY <1>4, <3>2, <4>1 DEF Origin
    <3>4. chunks' = SubSeq(chunks, k + 1, N)
      <4>1. k \in 1..Len(chunks) /\ N \in k..Len(chunks)
        BY <1>1, <2>1
      <4> QED BY <1>1, <1>7, <3>2, <4>1, HeadTailOfSubSeq
    <3>5. pool' \subseteq pool \cup {chunks[j] : j \in 1..k}
      BY <1>1, <1>6
    <3>6. Cell(k, 0) + End(k) = IF k = N THEN taken + 1 ELSE Cell(k + 1, 0)
      BY <2>1 DEF IInv, Consecutive
    <3>7. Place(cursor) = IF k = N THEN taken ELSE Cell(k + 1, 0) + 0 - 1
      <4>1. taken \in Nat
        BY ChunkType DEF IInv
      <4> QED BY <2>2, <2>3, <2>6, <3>6, <4>1
    <3>8. k \in 0..N
      BY <1>1, <2>1
    <3>9. Shape(k, 0)
      BY <3>2, <3>4, <3>5, <3>7 DEF Shape
    <3>10. k <= k
      BY <1>1
    <3> QED BY <3>3, <3>8, <3>9, <3>10
  <2> QED BY <1>1, <2>3, <2>4, <2>5, <2>6
<1> QED BY <1>9, <1>10

\* The cells that are left, as they are numbered then.
LEMMA ReleaseCells ==
  ASSUME IInv, NEW d \in 0..Len(chunks), NEW off \in Nat, Shape(d, off)
  PROVE  /\ chunks' \in Seq(ChunkIds) /\ Len(chunks') = Len(chunks) - d
         /\ \A k \in 1..(Len(chunks) - d) :
              /\ d + k \in 1..Len(chunks)
              /\ chunks'[k] = chunks[d + k]
              /\ k > 1 => /\ End(k)' = End(d + k)
                         /\ \A o : Cell(k, o)' = Cell(d + k, o)
              /\ k = 1 => /\ off < End(d + 1) /\ End(k)' = End(d + 1) - off
                         /\ \A o \in 0..(End(d + 1) - off - 1) : Cell(k, o)' = Cell(d + 1, o + off)
<1> DEFINE N == Len(chunks)
<1>1. chunks \in Seq(ChunkIds) /\ N \in Nat /\ d \in Nat /\ d <= N
  BY ChunkType DEF IInv, BufferTypeOK
<1>2. /\ chunks' \in Seq(ChunkIds) /\ Len(chunks') = N - d
      /\ \A k \in 1..(N - d) : chunks'[k] = chunks[d + k]
  BY <1>1, DropProperties DEF Shape
<1>3. ASSUME NEW k \in 1..(N - d)
      PROVE  /\ d + k \in 1..N
             /\ k > 1 => /\ End(k)' = End(d + k)
                        /\ \A o : Cell(k, o)' = Cell(d + k, o)
             /\ k = 1 => /\ off < End(d + 1) /\ End(k)' = End(d + 1) - off
                        /\ \A o \in 0..(End(d + 1) - off - 1) : Cell(k, o)' = Cell(d + 1, o + off)
  <2>1. d + k \in 1..N /\ d + 1 \in 1..N /\ k \in Nat
    BY <1>1
  <2>2. chunks'[k] = chunks[d + k]
    BY <1>2
  <2>3. chunks[d + k] \in ChunkIds /\ chunks[d + 1] \in ChunkIds
    BY <1>1, <2>1, ElementOfSeq
  <2>4. /\ Cell(d + 1, 0) \in Nat /\ End(d + 1) \in Nat /\ End(d + 1) >= 1
        /\ End(d + 1) <= ChunkSize
    BY <2>1, ChunkNumbers DEF IInv
  <2>5. CASE off = 0 /\ UNCHANGED mem
    <3>1. End(k)' = End(d + k) /\ \A o : Cell(k, o)' = Cell(d + k, o)
      BY <2>2, <2>5 DEF End, Cell
    <3>2. \A o \in 0..(End(d + 1) - off - 1) : o + off = o
      BY <2>4, <2>5
    <3>3. off < End(d + 1) /\ End(d + 1) - off = End(d + 1)
      BY <2>4, <2>5
    <3> QED BY <2>1, <3>1, <3>2, <3>3
  <2>6. CASE /\ d < N /\ 0 < off /\ off < End(d + 1)
             /\ mem' = [mem EXCEPT ![chunks[d + 1]] = MovedDown(@, off)]
    <3>1. CASE k > 1
      <4>1. d + k # d + 1
        BY <2>1, <3>1
      <4>2. chunks[d + k] # chunks[d + 1]
        BY <2>1, <4>1, ChunkType DEF IInv, ChunkOwnedOnce
      <4>3. mem'[chunks[d + k]] = mem[chunks[d + k]]
        BY <2>3, <2>6, <4>2 DEF IInv, BufferTypeOK
      <4>4. End(k)' = End(d + k) /\ \A o : Cell(k, o)' = Cell(d + k, o)
        BY <2>2, <4>3 DEF End, Cell
      <4>5. k # 1
        BY <2>1, <3>1
      <4> QED BY <2>1, <4>4, <4>5
    <3>2. CASE k = 1
      <4>1. mem'[chunks'[k]] = MovedDown(mem[chunks[d + 1]], off)
        BY <2>2, <2>3, <2>6, <3>2 DEF IInv, BufferTypeOK
      <4>2. End(k)' = End(d + 1) - off
        BY <4>1 DEF End, MovedDown
      <4>3. ASSUME NEW o \in 0..(End(d + 1) - off - 1)
            PROVE  Cell(k, o)' = Cell(d + 1, o + off)
        <5>1. o \in Offsets /\ o < End(d + 1) - off
          <6> DEFINE e == End(d + 1)
          <6>1. /\ e \in Nat /\ e <= ChunkSize /\ ChunkSize \in Nat
                /\ 0 < off /\ off < e /\ o \in 0..(e - off - 1)
            BY <2>4, <2>6, ChunkAssumption
          <6> HIDE DEF e
          <6>2. o \in 0..(ChunkSize - 1) /\ o < e - off
            BY <6>1
          <6> QED BY <6>2 DEF Offsets, e
        <5>2. MovedDown(mem[chunks[d + 1]], off).data[o] = mem[chunks[d + 1]].data[o + off]
          BY <5>1 DEF MovedDown, End
        <5> QED BY <4>1, <5>2 DEF Cell
      <4> QED BY <2>1, <2>6, <3>2, <4>2, <4>3
    <3> QED BY <2>1, <3>1, <3>2
  <2> QED BY <2>5, <2>6 DEF Shape
<1> QED BY <1>2, <1>3

LEMMA ReleaseTypes ==
  ASSUME IInv, NEW d \in 0..Len(chunks), NEW off \in Nat, Shape(d, off),
         cursor' = Origin, saved' \in Places,
         UNCHANGED <<input, taken, hitEOF, line, col, got>>
  PROVE  BufferTypeOK' /\ ChunkOwnedOnce'
<1> DEFINE N == Len(chunks)
<1>1. /\ chunks' \in Seq(ChunkIds) /\ Len(chunks') = N - d /\ N \in Nat
      /\ \A k \in 1..(N - d) : d + k \in 1..N /\ chunks'[k] = chunks[d + k]
  BY ReleaseCells, ChunkType DEF IInv
<1>2. /\ DOMAIN chunks = 1..N /\ DOMAIN chunks' = 1..(N - d)
      /\ \A k \in 1..N : chunks[k] \in ChunkIds
  BY <1>1, ChunkType DEF IInv
<1>3. InUse' \subseteq {chunks[k] : k \in (d + 1)..N}
  <2>1. \A k \in 1..(N - d) : d + k \in (d + 1)..N
    BY <1>1
  <2> QED BY <1>1, <1>2, <2>1 DEF InUse
<1>4. pool' \subseteq pool \cup {chunks[k] : k \in 1..d} /\ pool' \subseteq ChunkIds
  <2>1. \A k \in 1..d : k \in 1..N
    BY <1>1
  <2>2. pool' \subseteq pool \cup {chunks[k] : k \in 1..d}
    BY DEF Shape
  <2>3. pool \subseteq ChunkIds
    BY CursorTypes
  <2> QED BY <1>2, <2>1, <2>2, <2>3
<1>5. InUse' \cap pool' = {}
  <2>1. \A j \in (d + 1)..N, k \in 1..d : j \in 1..N /\ k \in 1..N /\ j # k
    BY <1>1
  <2>2. \A j \in (d + 1)..N, k \in 1..d : chunks[j] # chunks[k]
    BY <1>2, <2>1 DEF IInv, ChunkOwnedOnce
  <2>3. \A j \in (d + 1)..N : chunks[j] \notin pool
    <3>1. \A j \in (d + 1)..N : j \in 1..N
      BY <1>1
    <3> QED BY <1>2, <3>1, CursorTypes DEF InUse
  <2> QED BY <1>3, <1>4, <2>2, <2>3
<1>6. ASSUME NEW j \in 1..(N - d), NEW k \in 1..(N - d), chunks'[j] = chunks'[k]
      PROVE  j = k
  <2>1. d + j = d + k
    BY <1>1, <1>2, <1>6 DEF IInv, ChunkOwnedOnce
  <2> QED BY <1>1, <2>1
<1>7. ChunkOwnedOnce'
  BY <1>2, <1>5, <1>6 DEF ChunkOwnedOnce
<1>8. mem' \in [ChunkIds -> Chunk(Len(input))]
  <2>1. mem \in [ChunkIds -> Chunk(Len(input))]
    BY DEF IInv, BufferTypeOK, Chunk
  <2>2. CASE UNCHANGED mem
    BY <2>1, <2>2
  <2>3. CASE /\ d < N /\ 0 < off /\ off < End(d + 1)
             /\ mem' = [mem EXCEPT ![chunks[d + 1]] = MovedDown(@, off)]
    <3> DEFINE b == mem[chunks[d + 1]]
               e == b.end
    <3>1. d + 1 \in 1..N
      BY <1>1, <2>3
    <3>2. b \in Chunk(Len(input)) /\ chunks[d + 1] \in ChunkIds
      BY <1>2, <2>1, <3>1
    <3>3. /\ e \in Nat /\ e <= ChunkSize /\ ChunkSize \in Nat /\ off < e /\ 0 < off
      BY <2>3, <3>1, ChunkNumbers DEF IInv, End
    <3>4. e - off \in 0..ChunkSize
      BY <3>3
    <3>5. ASSUME NEW o \in Offsets
          PROVE  (IF o < e - off THEN b.data[o + off] ELSE b.data[o]) \in 0..Len(input)
      <4>1. b.data \in [Offsets -> 0..Len(input)]
        BY <3>2 DEF Chunk
      <4> HIDE DEF e
      <4>2. o < e - off => o + off \in Offsets
        BY <3>3 DEF Offsets
      <4> QED BY <4>1, <4>2
    <3>6. MovedDown(b, off) \in Chunk(Len(input))
      BY <3>4, <3>5 DEF MovedDown, Chunk
    <3> HIDE DEF b
    <3> QED BY <2>1, <2>3, <3>6 DEF b
  <2> QED BY <2>2, <2>3 DEF Shape
<1>9. NoEmptyChunk'
  <2>1. ASSUME NEW k \in 1..(N - d) PROVE mem'[chunks'[k]].end > 0
    <3>1. d + k \in 1..N /\ k \in Nat /\ (k > 1 \/ k = 1)
      BY <1>1
    <3>2. CASE k > 1
      <4>1. End(k)' = End(d + k)
        BY <3>2, ReleaseCells
      <4>2. End(d + k) > 0
        BY <3>1, ChunkNumbers DEF IInv
      <4> QED BY <4>1, <4>2 DEF End
    <3>3. CASE k = 1
      <4>1. off < End(d + 1) /\ End(k)' = End(d + 1) - off
        BY <3>3, ReleaseCells
      <4>2. End(d + 1) \in Nat
        BY <3>1, <3>3, ChunkNumbers DEF IInv
      <4>3. End(k)' > 0
        BY <4>1, <4>2
      <4> QED BY <4>3 DEF End
    <3> QED BY <3>1, <3>2, <3>3
  <2> QED BY <1>2, <2>1 DEF NoEmptyChunk, InUse
<1>10. cursor' \in Cursor
  BY ChunkAssumption DEF Origin, Cursor
<1>11. BufferTypeOK'
  BY <1>1, <1>4, <1>8, <1>9, <1>10 DEF IInv, BufferTypeOK, Chunk, Places
<1> QED BY <1>7, <1>11

LEMMA ReleaseConsecutive ==
  ASSUME IInv, NEW d \in 0..Len(chunks), NEW off \in Nat, Shape(d, off),
         UNCHANGED taken
  PROVE  /\ Consecutive'
         /\ Place(cursor) = IF Len(chunks') = 0 THEN taken ELSE Cell(1, 0)' - 1
<1> DEFINE N == Len(chunks)
<1>1. Len(chunks') = N - d /\ N \in Nat /\ d \in Nat /\ d <= N /\ taken \in Nat
  <2>1. Len(chunks') = N - d
    BY ReleaseCells
  <2>2. N \in Nat /\ taken \in Nat
    BY ChunkType DEF IInv
  <2> QED BY <2>1, <2>2
<1>2. ASSUME NEW k \in 1..(N - d)
      PROVE  /\ d + k \in 1..N /\ k \in Nat /\ k >= 1
             /\ Cell(d + k, 0) \in Nat /\ End(d + k) \in Nat /\ End(d + k) >= 1
             /\ Cell(d + k, 0) >= 1 /\ Cell(d + k, 0) + End(d + k) <= taken + 1
             /\ \A o \in 0..(End(d + k) - 1) : Cell(d + k, o) = Cell(d + k, 0) + o
             /\ Cell(d + k, 0) + End(d + k) = IF k = N - d THEN taken + 1
                                              ELSE Cell(d + (k + 1), 0)
  <2>1. d + k \in 1..N /\ k \in Nat /\ k >= 1
    BY <1>1
  <2>2. (d + k = N) <=> (k = N - d)
    BY <1>1
  <2>3. d + k + 1 = d + (k + 1)
    BY <1>1
  <2>4. /\ Cell(d + k, 0) >= 1 /\ Cell(d + k, 0) + End(d + k) <= taken + 1
        /\ \A o \in 0..(End(d + k) - 1) : Cell(d + k, o) = Cell(d + k, 0) + o
        /\ Cell(d + k, 0) + End(d + k) = IF d + k = N THEN taken + 1
                                         ELSE Cell(d + k + 1, 0)
    BY <2>1 DEF IInv, Consecutive
  <2> QED BY <2>1, <2>2, <2>3, <2>4, ChunkNumbers DEF IInv
\* What the first chunk left starts with, and what follows each.
<1>3. ASSUME 1 \in 1..(N - d)
      PROVE  Cell(1, 0)' = Cell(d + 1, 0) + off
  <2>1. \A k \in 1..(N - d) : k = 1 =>
          /\ off < End(d + 1)
          /\ \A o \in 0..(End(d + 1) - off - 1) : Cell(k, o)' = Cell(d + 1, o + off)
    BY ReleaseCells
  <2>2. /\ off < End(d + 1)
        /\ \A o \in 0..(End(d + 1) - off - 1) : Cell(1, o)' = Cell(d + 1, o + off)
    BY <1>3, <2>1
  <2>3. End(d + 1) \in Nat
    BY <1>2, <1>3
  <2>4. 0 \in 0..(End(d + 1) - off - 1) /\ 0 + off = off /\ off \in 0..(End(d + 1) - 1)
    BY <2>2, <2>3
  <2> QED BY <1>2, <1>3, <2>2, <2>4
<1>4. ASSUME NEW k \in 2..(N - d) PROVE Cell(k, 0)' = Cell(d + k, 0)
  <2>1. k \in 1..(N - d) /\ k > 1
    BY <1>1
  <2> QED BY <2>1, ReleaseCells
<1>5. SUFFICES ASSUME NEW k \in 1..(N - d)
               PROVE  /\ Cell(k, 0)' >= 1 /\ Cell(k, 0)' + End(k)' <= taken + 1
                      /\ \A o \in 0..(End(k)' - 1) : Cell(k, o)' = Cell(k, 0)' + o
                      /\ Cell(k, 0)' + End(k)' = IF k = N - d THEN taken + 1
                                                 ELSE Cell(k + 1, 0)'
  <2>1. (\A k \in 1..(N - d) :
           /\ Cell(k, 0)' >= 1 /\ Cell(k, 0)' + End(k)' <= taken + 1
           /\ \A o \in 0..(End(k)' - 1) : Cell(k, o)' = Cell(k, 0)' + o
           /\ Cell(k, 0)' + End(k)' = IF k = N - d THEN taken + 1
                                      ELSE Cell(k + 1, 0)') => Consecutive'
    BY <1>1 DEF Consecutive
  <2>2. Place(cursor) = IF Len(chunks') = 0 THEN taken ELSE Cell(1, 0)' - 1
    <3>1. Place(cursor) = IF d = N THEN taken ELSE Cell(d + 1, 0) + off - 1
      BY DEF Shape
    <3>2. CASE d = N
      BY <1>1, <3>1, <3>2
    <3>3. CASE d # N
      <4>1. 1 \in 1..(N - d) /\ Len(chunks') # 0
        BY <1>1, <3>3
      <4>2. Cell(1, 0)' = Cell(d + 1, 0) + off
        BY <1>3, <4>1
      <4>3. Cell(d + 1, 0) \in Nat
        BY <1>2, <4>1
      <4>4. Cell(d + 1, 0) + off - 1 = Cell(1, 0)' - 1
        BY <4>2, <4>3
      <4>5. Place(cursor) = Cell(d + 1, 0) + off - 1
        BY <3>1, <3>3
      <4> QED BY <4>1, <4>4, <4>5
    <3> QED BY <3>2, <3>3
  <2> QED BY <2>1, <2>2
<1>6. k # N - d => Cell(k + 1, 0)' = Cell(d + (k + 1), 0)
  <2>1. k # N - d => k + 1 \in 2..(N - d)
    BY <1>1
  <2> QED BY <1>4, <2>1
<1>7. CASE k > 1
  <2>1. Cell(k, 0)' = Cell(d + k, 0) /\ End(k)' = End(d + k) /\ \A o : Cell(k, o)' = Cell(d + k, o)
    BY <1>7, ReleaseCells
  <2> QED BY <1>2, <1>6, <2>1
<1>8. CASE k = 1
  <2> DEFINE a == Cell(d + 1, 0)
             e == End(d + 1)
  <2>1. /\ off < e /\ End(k)' = e - off
        /\ \A o \in 0..(e - off - 1) : Cell(k, o)' = Cell(d + 1, o + off)
    BY <1>8, ReleaseCells
  <2>2. Cell(k, 0)' = a + off
    BY <1>3, <1>8
  <2>3. /\ a \in Nat /\ e \in Nat /\ a >= 1 /\ a + e <= taken + 1
        /\ \A o \in 0..(e - 1) : Cell(d + 1, o) = a + o
        /\ a + e = IF k = N - d THEN taken + 1 ELSE Cell(d + (k + 1), 0)
    BY <1>2, <1>8
  <2> HIDE DEF a, e
  <2>4. a + off >= 1 /\ (a + off) + (e - off) = a + e
    BY <2>3
  <2>5. ASSUME NEW o \in 0..(e - off - 1) PROVE Cell(d + 1, o + off) = (a + off) + o
    <3>1. o + off \in 0..(e - 1) /\ a + (o + off) = (a + off) + o
      BY <2>1, <2>3
    <3> QED BY <2>3, <3>1
  <2> QED BY <1>6, <2>1, <2>2, <2>3, <2>4, <2>5
<1> QED BY <1>5, <1>7, <1>8

LEMMA ReleaseStep ==
  ASSUME IInv, ReleaseUpTo(cursor), saved' \in Places, saved'.cursor = Origin, UNCHANGED got
  PROVE  /\ IInv'
         /\ Place(cursor)' = Place(cursor)
         /\ Place(saved.cursor)' = Place(cursor)
<1>1. PICK d \in 0..Len(chunks), off \in Nat : Shape(d, off)
  BY ReleaseShape
<1>2. cursor' = Origin /\ UNCHANGED <<input, taken, hitEOF, line, col, got>>
  BY ReleaseShape DEF ReleaseUpTo
<1>3. BufferTypeOK' /\ ChunkOwnedOnce' /\ EndIsEnd'
  BY <1>1, <1>2, ReleaseTypes DEF IInv, EndIsEnd
<1>4. /\ Consecutive'
      /\ Place(cursor) = IF Len(chunks') = 0 THEN taken ELSE Cell(1, 0)' - 1
  BY <1>1, <1>2, ReleaseConsecutive
<1>5. Len(chunks') \in Nat /\ \A k \in 1..Len(chunks') : End(k)' \in Nat /\ Cell(k, 0)' \in Nat
  <2>1. /\ chunks' \in Seq(ChunkIds)
        /\ mem' \in [ChunkIds -> [data : [Offsets -> 0..Len(input')], end : 0..ChunkSize]]
    BY <1>3 DEF BufferTypeOK
  <2>2. Len(input') \in Nat /\ ChunkSize \in Nat /\ 0 \in Offsets
    BY <1>2, InputType, ChunkAssumption DEF IInv, BufferTypeOK, Offsets
  <2>3. ASSUME NEW k \in 1..Len(chunks') PROVE End(k)' \in Nat /\ Cell(k, 0)' \in Nat
    <3>1. chunks'[k] \in ChunkIds
      BY <2>1, ElementOfSeq
    <3>2. mem'[chunks'[k]].end \in 0..ChunkSize /\ mem'[chunks'[k]].data[0] \in 0..Len(input')
      BY <2>1, <2>2, <3>1
    <3> QED BY <2>2, <3>2 DEF End, Cell
  <2> QED BY <2>1, <2>3
<1>6. cursor'.chunk = 0 /\ cursor'.offset = 0 /\ saved'.cursor = cursor'
  BY <1>2 DEF Origin
<1>7. Within(cursor)' /\ Within(saved.cursor)'
  <2>1. Len(chunks') # 0 => 1 \in 1..Len(chunks')
    BY <1>5
  <2> QED BY <1>5, <1>6, <2>1 DEF Within
<1>8. Place(cursor)' = Place(cursor) /\ Place(saved.cursor)' = Place(cursor)
  <2>1. Len(chunks') # 0 => 1 \in 1..Len(chunks') /\ ~(0 >= Len(chunks'))
    BY <1>5
  <2>2. Len(chunks') # 0 => Cell(1, 0)' + 0 - 1 = Cell(1, 0)' - 1
    BY <1>5, <2>1
  <2> QED BY <1>2, <1>4, <1>5, <1>6, <2>1, <2>2 DEF Place, Beyond
<1> QED BY <1>3, <1>4, <1>7, <1>8 DEF IInv

\* Release is such a step.
LEMMA ReleaseSaves ==
  ASSUME IInv, Release
  PROVE  ReleaseUpTo(cursor) /\ saved' \in Places /\ saved'.cursor = Origin /\ UNCHANGED got
<1>1. ReleaseUpTo(cursor) /\ saved' = [cursor |-> cursor', line |-> line, col |-> col] /\ UNCHANGED got
  BY DEF Release
<1>2. cursor' = Origin /\ Origin \in Cursor
  BY <1>1, ReleaseShape, ChunkAssumption DEF Origin, Cursor
<1> QED BY <1>1, <1>2, CursorTypes DEF Places

-----------------------------------------------------------------------------
(* The invariant.                                                          *)

LEMMA InitIInv == BufferInit => IInv
<1> SUFFICES ASSUME BufferInit PROVE IInv
  OBVIOUS
<1>1. Len(input) \in Nat /\ 0 \in 0..Len(input) /\ 0 \in 0..ChunkSize
  BY InputType, ChunkAssumption DEF BufferInit
<1>2. Len(chunks) = 0 /\ DOMAIN chunks = {} /\ InUse = {} /\ chunks \in Seq(ChunkIds)
  BY DEF BufferInit, InUse
<1>3. mem \in [ChunkIds -> [data : [Offsets -> 0..Len(input)], end : 0..ChunkSize]]
  BY <1>1 DEF BufferInit
<1>4. cursor \in Cursor /\ saved \in [cursor : Cursor, line : Nat \ {0}, col : Nat]
  BY <1>1 DEF BufferInit, Origin, Cursor
<1>5. BufferTypeOK
  BY <1>1, <1>2, <1>3, <1>4 DEF BufferInit, BufferTypeOK, NoEmptyChunk
<1>6. ChunkOwnedOnce
  BY <1>2 DEF BufferInit, ChunkOwnedOnce
<1>7. Consecutive
  BY <1>2 DEF Consecutive
<1>8. Within(cursor) /\ Within(saved.cursor) /\ EndIsEnd
  BY <1>2 DEF BufferInit, Within, Origin, EndIsEnd
<1> QED BY <1>5, <1>6, <1>7, <1>8 DEF IInv

LEMMA StutterIInv ==
  ASSUME IInv, UNCHANGED bufferVars
  PROVE  IInv'
<1>1. BufferTypeOK' /\ ChunkOwnedOnce'
  BY DEF IInv, bufferVars, BufferTypeOK, ChunkOwnedOnce, NoEmptyChunk, InUse
<1>2. Consecutive' /\ Within(cursor)' /\ Within(saved.cursor)' /\ EndIsEnd'
  BY DEF IInv, bufferVars, Consecutive, Within, EndIsEnd, Cell, End
<1> QED BY <1>1, <1>2 DEF IInv

LEMMA NextIInv == IInv /\ [BufferNext]_bufferVars => IInv'
<1> SUFFICES ASSUME IInv, [BufferNext]_bufferVars PROVE IInv'
  OBVIOUS
<1>1. CASE FillChunk
  BY <1>1, FillChunkStep
<1>2. CASE ReadError
  BY <1>2, ReadErrorStep
<1>3. CASE ReadByte
  BY <1>3, ReadByteStep
<1>4. CASE ReadEOF
  BY <1>4, ReadEOFStep
<1>5. CASE Save
  BY <1>5, SaveStep
<1>6. CASE Rewind
  BY <1>6, RewindStep
<1>7. CASE Release
  BY <1>7, ReleaseSaves, ReleaseStep
<1>8. CASE UNCHANGED bufferVars
  BY <1>8, StutterIInv
<1> QED BY <1>1, <1>2, <1>3, <1>4, <1>5, <1>6, <1>7, <1>8 DEF BufferNext

\* In every state the chunks hold consecutive input up to where the reader
\* stands, and both cursors are within them (fillChunk, readByte, releaseUpTo).
THEOREM BufferInvariant == BufferSpec => []IInv
BY InitIInv, NextIInv, PTL DEF BufferSpec

\* The buffer's state has its types throughout, and no chunk of the buffer is
\* ever empty: readByte finds a byte after at most one move to a next chunk.
THEOREM BufferTypeCorrect == BufferSpec => []BufferTypeOK
<1>1. IInv => BufferTypeOK
  BY DEF IInv
<1> QED BY <1>1, BufferInvariant, PTL

\* fillChunk, its return of an unused chunk and releaseUpTo keep every chunk
\* object in one place: once in the buffer or in the pool.
THEOREM ChunksAreOwnedOnce == BufferSpec => []ChunkOwnedOnce
<1>1. IInv => ChunkOwnedOnce
  BY DEF IInv
<1> QED BY <1>1, BufferInvariant, PTL

\* releaseUpTo leaves nothing that was read in memory.
THEOREM ReleaseKeepsUnread == BufferSpec => ReleaseKeepsOnlyUnread
<1>1. IInv /\ [BufferNext]_bufferVars => [Release => cursor' = Origin]_bufferVars
  BY ReleaseShape DEF Release
<1> QED BY <1>1, BufferInvariant, PTL DEF BufferSpec, ReleaseKeepsOnlyUnread

-----------------------------------------------------------------------------
(* What lies ahead of a cursor, in closed form.                            *)

\* The positions after p up to q.
Run(p, q) == [i \in 1..(q - p) |-> p + i]

LEMMA RunProperties ==
  ASSUME NEW p \in Nat, NEW q \in Nat, p <= q
  PROVE  /\ Run(p, q) \in Seq(Nat) /\ Len(Run(p, q)) = q - p
         /\ DOMAIN Run(p, q) = 1..(q - p)
         /\ \A i \in 1..(q - p) : Run(p, q)[i] = p + i
<1> DEFINE n == q - p
<1>1. n \in Nat
  OBVIOUS
<1>2. \A i \in 1..n : p + i \in Nat
  OBVIOUS
<1>3. Run(p, q) = [i \in 1..n |-> p + i]
  BY DEF Run
<1> HIDE DEF n
<1>4. Run(p, q) \in [1..n -> Nat]
  BY <1>2, <1>3
<1> QED BY <1>1, <1>3, <1>4 DEF n

LEMMA RunConcat ==
  ASSUME NEW p \in Nat, NEW q \in Nat, NEW r \in Nat, p <= q, q <= r
  PROVE  Run(p, q) \o Run(q, r) = Run(p, r)
<1> DEFINE a == Run(p, q)
           b == Run(q, r)
           c == Run(p, r)
<1>1. /\ a \in Seq(Nat) /\ b \in Seq(Nat) /\ c \in Seq(Nat)
      /\ Len(a) = q - p /\ Len(b) = r - q /\ Len(c) = r - p
      /\ \A i \in 1..(q - p) : a[i] = p + i
      /\ \A i \in 1..(r - q) : b[i] = q + i
      /\ \A i \in 1..(r - p) : c[i] = p + i
  <2>1. p <= r
    OBVIOUS
  <2> QED BY <2>1, RunProperties
<1> HIDE DEF a, b, c
<1>2. /\ a \o b \in Seq(Nat) /\ Len(a \o b) = Len(a) + Len(b)
      /\ \A i \in 1..(Len(a) + Len(b)) :
           (a \o b)[i] = IF i <= Len(a) THEN a[i] ELSE b[i - Len(a)]
  BY <1>1, ConcatProperties
<1>3. Len(a) + Len(b) = r - p
  BY <1>1
<1>4. ASSUME NEW i \in 1..(r - p) PROVE (a \o b)[i] = c[i]
  <2>1. CASE i <= q - p
    <3>1. i \in 1..(q - p)
      BY <2>1
    <3> QED BY <1>1, <1>2, <1>3, <2>1, <3>1
  <2>2. CASE ~(i <= q - p)
    <3>1. i - (q - p) \in 1..(r - q) /\ q + (i - (q - p)) = p + i
      BY <2>2
    <3> QED BY <1>1, <1>2, <1>3, <2>2, <3>1
  <2> QED BY <2>1, <2>2
<1>5. a \o b = c
  BY <1>1, <1>2, <1>3, <1>4, SeqEqual
<1> QED BY <1>5 DEF a, b, c

\* The bytes before chunk k, which may be one behind the last.
Before(k) == IF k > Len(chunks) THEN taken ELSE Cell(k, 0) - 1

LEMMA BeforeProperties ==
  ASSUME BufferTypeOK, Consecutive, NEW k \in 1..Len(chunks)
  PROVE  /\ Before(k) \in Nat /\ End(k) \in Nat /\ taken \in Nat
         /\ Before(k + 1) = Before(k) + End(k) /\ Before(k + 1) <= taken
         /\ \A o \in 0..(End(k) - 1) : Cell(k, o) = Before(k) + o + 1
<1> DEFINE a == Cell(k, 0)
           e == End(k)
           N == Len(chunks)
<1>1. /\ a \in Nat /\ e \in Nat /\ taken \in Nat /\ k \in Nat /\ N \in Nat
  BY ChunkNumbers
<1>2. /\ a >= 1 /\ a + e <= taken + 1
      /\ \A o \in 0..(e - 1) : Cell(k, o) = a + o
      /\ a + e = IF k = N THEN taken + 1 ELSE Cell(k + 1, 0)
  BY DEF Consecutive
<1>3. Before(k) = a - 1
  BY <1>1 DEF Before
<1>4. Before(k + 1) = IF k = N THEN taken ELSE Cell(k + 1, 0) - 1
  BY <1>1 DEF Before
<1> HIDE DEF a, e, N
<1>5. \A o \in 0..(e - 1) : Cell(k, o) = Before(k) + o + 1
  BY <1>1, <1>2, <1>3
<1>6. Before(k) \in Nat
  BY <1>1, <1>2, <1>3
<1>7. Before(k + 1) = a + e - 1
  BY <1>1, <1>2, <1>4
<1>8. Before(k + 1) = Before(k) + e /\ Before(k + 1) <= taken
  BY <1>1, <1>2, <1>3, <1>7
<1> QED BY <1>1, <1>5, <1>6, <1>8 DEF e

\* The rest of chunk k from offset o on, and the chunks behind it.
LEMMA RestOfChunk ==
  ASSUME BufferTypeOK, Consecutive, NEW k \in 1..Len(chunks), NEW o \in 0..End(k)
  PROVE  Cells(k, o, mem[chunks[k]].end) \o Run(Before(k + 1), taken)
           = Run(Before(k) + o, taken)
<1> DEFINE p == Before(k)
           e == End(k)
<1>1. /\ p \in Nat /\ e \in Nat /\ taken \in Nat
      /\ Before(k + 1) = p + e /\ p + e <= taken
      /\ \A i \in 0..(e - 1) : Cell(k, i) = p + i + 1
  BY BeforeProperties
<1>2. Cells(k, o, mem[chunks[k]].end) = [i \in 1..(e - o) |-> Cell(k, o + i - 1)]
  BY DEF Cells, Cell, End
<1>3. o \in 0..e
  OBVIOUS
<1> HIDE DEF p, e
<1>4. (p + e) - (p + o) = e - o /\ p + o \in Nat /\ p + e \in Nat /\ p + o <= p + e
  BY <1>1, <1>3
<1>5. ASSUME NEW i \in 1..(e - o) PROVE Cell(k, o + i - 1) = (p + o) + i
  <2>1. o + i - 1 \in 0..(e - 1) /\ p + (o + i - 1) + 1 = (p + o) + i
    BY <1>1, <1>3
  <2> QED BY <1>1, <2>1
<1>6. [i \in 1..(e - o) |-> Cell(k, o + i - 1)] = Run(p + o, p + e)
  BY <1>4, <1>5 DEF Run
<1>7. Run(p + o, p + e) \o Run(p + e, taken) = Run(p + o, taken)
  BY <1>1, <1>4, RunConcat
<1> QED BY <1>1, <1>2, <1>6, <1>7 DEF p

\* The recursive function in Ahead: what the chunks from k on hold.
Unfolds(f) == f = [k \in 1..(Len(chunks) + 1) |->
                     IF k > Len(chunks) THEN <<>>
                     ELSE Cells(k, 0, mem[chunks[k]].end) \o f[k + 1]]
From == CHOOSE f : Unfolds(f)

LEMMA FromIsRun ==
  ASSUME BufferTypeOK, Consecutive
  PROVE  \A k \in 1..(Len(chunks) + 1) : From[k] = Run(Before(k), taken)
<1> DEFINE N == Len(chunks)
           G == [k \in 1..(N + 1) |-> Run(Before(k), taken)]
           T == {k \in Nat : From[k] = Run(Before(k), taken)}
<1>1. N \in Nat /\ taken \in Nat
  BY ChunkType
<1>2. Before(N + 1) = taken /\ Run(taken, taken) = <<>>
  <2>1. N + 1 > N
    BY <1>1
  <2>2. Run(taken, taken) \in Seq(Nat) /\ Len(Run(taken, taken)) = 0
    <3>1. taken <= taken /\ taken - taken = 0
      BY <1>1
    <3> QED BY <1>1, <3>1, RunProperties
  <2> QED BY <2>1, <2>2, EmptySeq DEF Before
<1>3. ASSUME NEW k \in 1..N
      PROVE  Cells(k, 0, mem[chunks[k]].end) \o Run(Before(k + 1), taken) = Run(Before(k), taken)
  <2>1. 0 \in 0..End(k) /\ Before(k) + 0 = Before(k)
    BY BeforeProperties
  <2> QED BY <2>1, RestOfChunk
<1>4. Unfolds(G)
  <2>1. ASSUME NEW k \in 1..(N + 1)
        PROVE  G[k] = IF k > N THEN <<>> ELSE Cells(k, 0, mem[chunks[k]].end) \o G[k + 1]
    <3>1. CASE k > N
      <4>1. k = N + 1
        BY <1>1, <3>1
      <4> QED BY <1>2, <3>1, <4>1
    <3>2. CASE ~(k > N)
      <4>1. k \in 1..N /\ k + 1 \in 1..(N + 1)
        BY <1>1, <3>2
      <4>2. G[k] = Run(Before(k), taken) /\ G[k + 1] = Run(Before(k + 1), taken)
        BY <4>1
      <4> HIDE DEF G
      <4> QED BY <1>3, <3>2, <4>1, <4>2
    <3> QED BY <3>1, <3>2
  <2>2. G = [k \in 1..(N + 1) |-> G[k]]
    OBVIOUS
  <2> HIDE DEF G
  <2> QED BY <2>1, <2>2 DEF Unfolds
<1>5. Unfolds(From)
  BY <1>4 DEF From
<1> HIDE DEF G
<1>6. ASSUME NEW k \in 1..(N + 1)
      PROVE  From[k] = IF k > N THEN <<>> ELSE Cells(k, 0, mem[chunks[k]].end) \o From[k + 1]
  BY <1>5 DEF Unfolds
<1>7. N + 1 \in T
  BY <1>1, <1>2, <1>6
<1>8. ASSUME NEW k \in 1..N, k + 1 \in T PROVE k \in T
  <2>1. k \in 1..(N + 1) /\ ~(k > N) /\ k \in Nat
    BY <1>1
  <2> QED BY <1>3, <1>6, <1>8, <2>1
<1>9. 1..(N + 1) \subseteq T
  <2> HIDE DEF T
  <2> QED BY <1>1, <1>7, <1>8, DownwardInduction DEF T
<1> QED BY <1>9

LEMMA PlaceProperties ==
  ASSUME BufferTypeOK, Consecutive, NEW STATE c, c \in Cursor, Within(c)
  PROVE  /\ Place(c) \in Nat /\ Place(c) <= taken /\ taken \in Nat
         /\ Ahead(c) = Run(Place(c), taken)
<1> DEFINE k == c.chunk + 1
           o == c.offset
<1>1. Len(chunks) \in Nat /\ taken \in Nat /\ c.chunk \in Nat /\ o \in Nat
  BY ChunkType, ChunkAssumption DEF Cursor
<1>2. Ahead(c) = IF Beyond(c) THEN <<>>
                 ELSE Cells(k, o, ChunkAt(c).end) \o From[c.chunk + 2]
  BY DEF Ahead, From, Unfolds
<1>3. CASE Beyond(c)
  <2>1. Place(c) = taken
    BY <1>3 DEF Place
  <2>2. Run(taken, taken) \in Seq(Nat) /\ Len(Run(taken, taken)) = 0
    <3>1. taken <= taken /\ taken - taken = 0
      BY <1>1
    <3> QED BY <1>1, <3>1, RunProperties
  <2> QED BY <1>1, <1>2, <1>3, <2>1, <2>2, EmptySeq
<1>4. CASE ~Beyond(c)
  <2>1. k \in 1..Len(chunks) /\ c.chunk + 2 = k + 1 /\ k + 1 \in 1..(Len(chunks) + 1)
        /\ c.chunk # Len(chunks) /\ ~(k > Len(chunks))
    BY <1>1, <1>4 DEF Beyond
  <2>2. o \in 0..End(k)
    <3>1. o <= End(k) /\ End(k) \in Nat
      BY <2>1, ChunkNumbers DEF Within
    <3> QED BY <1>1, <3>1
  <2>3. ChunkAt(c).end = mem[chunks[k]].end
    BY DEF ChunkAt
  <2>4. Place(c) = Cell(k, 0) + o - 1
    BY <1>4 DEF Place
  <2>5. Place(c) = Before(k) + o /\ Before(k) + o <= taken /\ Before(k) \in Nat
    <3>1. Before(k) = Cell(k, 0) - 1 /\ Cell(k, 0) \in Nat
      BY <2>1, ChunkNumbers DEF Before
    <3>2. Before(k) \in Nat /\ Before(k) + End(k) <= taken /\ End(k) \in Nat
      BY <2>1, BeforeProperties
    <3> HIDE DEF k, o
    <3> QED BY <1>1, <2>2, <2>4, <3>1, <3>2
  <2>6. Ahead(c) = Cells(k, o, mem[chunks[k]].end) \o Run(Before(k + 1), taken)
    BY <1>2, <1>4, <2>1, <2>3, FromIsRun
  <2>7. Ahead(c) = Run(Before(k) + o, taken)
    BY <2>1, <2>2, <2>6, RestOfChunk
  <2> HIDE DEF k, o
  <2> QED BY <1>1, <2>5, <2>7
<1> QED BY <1>3, <1>4

LEMMA PositionIsPlace ==
  ASSUME IInv
  PROVE  /\ PositionOf(Here) = Place(cursor)
         /\ PositionOf(Settle(saved.cursor)) = Place(saved.cursor)
         /\ UnreadIsNext
<1>1. ASSUME NEW STATE c, c \in Cursor, Within(c)
      PROVE  PositionOf(c) = Place(c)
  <2>1. /\ Place(c) \in Nat /\ Place(c) <= taken /\ taken \in Nat
        /\ Ahead(c) = Run(Place(c), taken)
    BY <1>1, PlaceProperties DEF IInv
  <2>2. Len(Run(Place(c), taken)) = taken - Place(c)
    BY <2>1, RunProperties
  <2> QED BY <2>1, <2>2 DEF PositionOf
<1>2. PositionOf(Here) = Place(cursor)
  BY <1>1, CursorTypes
<1>3. /\ Settle(saved.cursor) \in Cursor /\ Within(Settle(saved.cursor))
      /\ Place(Settle(saved.cursor)) = Place(saved.cursor)
  BY CursorTypes, SettleWithin DEF IInv
<1>4. PositionOf(Settle(saved.cursor)) = Place(saved.cursor)
  BY <1>1, <1>3
<1>5. UnreadIsNext
  <2> DEFINE P == Place(Here)
             u == Ahead(Here)
  <2>1. P \in Nat /\ P <= taken /\ taken \in Nat /\ u = Run(P, taken)
    BY CursorTypes, PlaceProperties DEF IInv
  <2> HIDE DEF P, u
  <2>2. /\ DOMAIN u = 1..(taken - P) /\ Len(u) = taken - P
        /\ \A i \in 1..(taken - P) : u[i] = P + i
    BY <2>1, RunProperties
  <2>3. \A i \in DOMAIN u : u[i] = taken - Len(u) + i
    BY <2>1, <2>2
  <2> QED BY <2>3 DEF u, UnreadIsNext
<1> QED BY <1>2, <1>4, <1>5

\* Every chunk boundary, short read, compaction and release leaves the unread
\* bytes the consecutive ones that end where the reader stands.
THEOREM UnreadStaysNext == BufferSpec => []UnreadIsNext
<1>1. IInv => UnreadIsNext
  BY PositionIsPlace
<1> QED BY <1>1, BufferInvariant, PTL

-----------------------------------------------------------------------------
(* The refinement: the position in the stream is the place of the cursor.  *)

Mapped == /\ PositionOf(Here) = Place(cursor)
          /\ PositionOf(Settle(saved.cursor)) = Place(saved.cursor)

LEMMA MappedInit == BufferInit => Stream!Init
<1> SUFFICES ASSUME BufferInit PROVE Stream!Init
  OBVIOUS
<1>1. IInv
  BY InitIInv
<1>2. Mapped
  BY <1>1, PositionIsPlace DEF Mapped
<1>3. Place(cursor) = 0 /\ Place(saved.cursor) = 0
  <2>1. Len(chunks) = 0
    BY DEF BufferInit
  <2> QED BY <2>1 DEF BufferInit, Origin, Place, Beyond
<1> QED BY <1>2, <1>3 DEF Mapped, BufferInit, Stream!Init, Stream!Start, Stream!Inputs, Inputs

LEMMA MappedStep ==
  IInv /\ Mapped /\ Mapped' /\ [BufferNext]_bufferVars => [Stream!Next]_Stream!vars
<1> SUFFICES ASSUME IInv, Mapped, Mapped', [BufferNext]_bufferVars
             PROVE  [Stream!Next]_Stream!vars
  OBVIOUS
<1> DEFINE P == Place(cursor)
           Q == Place(saved.cursor)
<1>1. /\ PositionOf(Here) = P /\ PositionOf(Here)' = P'
      /\ PositionOf(Settle(saved.cursor)) = Q
      /\ PositionOf(Settle(saved.cursor))' = Q'
  BY DEF Mapped
<1> HIDE DEF P, Q
<1>2. CASE FillChunk
  <2>1. P' = P /\ Q' = Q /\ UNCHANGED <<input, line, col, got, saved>>
    BY <1>2, FillChunkStep DEF FillChunk, P, Q
  <2> QED BY <1>1, <2>1 DEF Stream!vars
<1>3. CASE ReadError
  <2>1. /\ Q' = Q
        /\ P' = P \/ (~Beyond(Here) /\ input[PosAt(Here)] = CR /\ P' = P + 1)
    BY <1>3, ReadErrorStep DEF P, Q
  <2>2. ~Beyond(Here) => PosAt(Here) = P + 1 /\ P < Len(input)
    <3>1. ~Beyond(Here) => PosAt(Here) = P + 1 /\ P \in Nat /\ P < taken
      BY CursorTypes, SettledByte DEF IInv, P
    <3>2. taken \in 0..Len(input) /\ Len(input) \in Nat
      BY InputType DEF IInv, BufferTypeOK
    <3> QED BY <3>1, <3>2
  <2>3. got # "failed" /\ got' = "failed" /\ UNCHANGED <<input, line, col, saved>>
    BY <1>3 DEF ReadError, NeedsFill
  <2>4. Stream!Fail
    BY <1>1, <2>1, <2>2, <2>3 DEF Stream!Fail
  <2> QED BY <2>4 DEF Stream!Next
<1>4. CASE ReadByte
  <2>1. /\ PosAt(Here) = P + 1 /\ P < Len(input) /\ Q' = Q
        /\ P' = P + IF /\ P + 2 <= Len(input) /\ input[P + 1] = CR /\ input[P + 2] = LF
                    THEN 2 ELSE 1
    BY <1>4, ReadByteStep DEF P, Q
  <2>2. /\ got # "failed" /\ got' = Value /\ UNCHANGED <<input, saved>>
        /\ line' = IF Value = LF THEN line + 1 ELSE line
        /\ col' = IF Value = LF THEN 0 ELSE col + 1
    BY <1>4 DEF ReadByte, Ready
  <2>3. Stream!Byte = Value
    BY <1>1, <2>1 DEF Stream!Byte, Value
  <2>4. P' = P + Stream!Width
    BY <1>1, <2>1 DEF Stream!Width, Stream!IsCRLF
  <2>5. Stream!Read
    BY <1>1, <2>1, <2>2, <2>3, <2>4 DEF Stream!Read
  <2> QED BY <2>5 DEF Stream!Next
<1>5. CASE ReadEOF
  <2>1. P' = P /\ P = Len(input) /\ Q' = Q
    BY <1>5, ReadEOFStep DEF P, Q
  <2>2. got # "failed" /\ got' = "EOF" /\ UNCHANGED <<input, line, col, saved>>
    BY <1>5 DEF ReadEOF
  <2>3. Stream!ReadEnd
    BY <1>1, <2>1, <2>2 DEF Stream!ReadEnd
  <2> QED BY <2>3 DEF Stream!Next
<1>6. CASE Save \/ Release
  <2>1. P' = P /\ Q' = P
    BY <1>6, SaveStep, ReleaseSaves, ReleaseStep DEF P, Q
  <2>2. /\ got # "failed" /\ UNCHANGED <<input, line, col, got>>
        /\ saved'.line = line /\ saved'.col = col
    BY <1>6 DEF Save, Release, ReleaseUpTo
  <2>3. Stream!Save
    BY <1>1, <2>1, <2>2 DEF Stream!Save
  <2> QED BY <2>3 DEF Stream!Next
<1>7. CASE Rewind
  <2>1. P' = Q /\ Q' = Q
    BY <1>7, RewindStep DEF P, Q
  <2>2. /\ got # "failed" /\ got' = "nothing" /\ UNCHANGED <<input, saved>>
        /\ line' = saved.line /\ col' = saved.col
    BY <1>7 DEF Rewind
  <2>3. Stream!Rewind
    BY <1>1, <2>1, <2>2 DEF Stream!Rewind
  <2> QED BY <2>3 DEF Stream!Next
<1>8. CASE UNCHANGED bufferVars
  <2>1. P' = P /\ Q' = Q
    BY <1>8 DEF bufferVars, P, Q, Place, Beyond, Cell
  <2> QED BY <1>1, <1>8, <2>1 DEF bufferVars, Stream!vars
<1> QED BY <1>2, <1>3, <1>4, <1>5, <1>6, <1>7, <1>8 DEF BufferNext

\* The chunk buffer implements the plain stream of normalised bytes: filling
\* is a stutter, and a release is the client saving its place.
THEOREM BufferRefinesStream == BufferSpec => RefinesByteStream
<1>1. IInv => Mapped
  BY PositionIsPlace DEF Mapped
<1> QED BY <1>1, BufferInvariant, MappedInit, MappedStep, PTL
        DEF BufferSpec, RefinesByteStream, Stream!Spec
=============================================================================
