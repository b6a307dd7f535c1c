-------------------------- MODULE RowReadersProofs ---------------------------
(***************************************************************************)
(* Proofs about the rows of the chunk buffer and the callers that read     *)
(* them, for every input, chunk size, field limit and way the reader cuts  *)
(* the input up: a row's fields lie in memory the buffer owns, a released  *)
(* row leaves at most one chunk behind, a caller that is done with its     *)
(* slices when it releases the row sees the row it was given, and the rows *)
(* delivered are those of RowStream.                                       *)
(*                                                                         *)
(* A field is the run of positions between the places of two cursors,      *)
(* however many chunks it spans; RowSoFar says that the runs of the fields *)
(* so far are the line so far, cut at its commas.                          *)
(***************************************************************************)
EXTENDS RowReaders, ChunkBufferProofs

-----------------------------------------------------------------------------
(* The inductive invariant.                                                *)

\* The cursors a rawField lies between.
StartOf(f) == [chunk |-> f.firstChunk, offset |-> f.firstStart]
EndOf(f) == IF f.extra = <<>> THEN [chunk |-> f.firstChunk, offset |-> f.firstEnd]
            ELSE [chunk |-> f.extra[Len(f.extra)].chunk, offset |-> f.extra[Len(f.extra)].hi]

InOrder(s, e) == s.chunk < e.chunk \/ (s.chunk = e.chunk /\ s.offset <= e.offset)

\* Two cursors with buffered bytes, and only these, between them.
Spans(s, e) == /\ s \in Cursor /\ e \in Cursor
               /\ Within(s) /\ Within(e) /\ ~Beyond(e)
               /\ InOrder(s, e)

\* The field lies in the buffer.
Held(f) == Spans(StartOf(f), EndOf(f)) /\ f = RawField(StartOf(f), EndOf(f))

Segment == [chunk : Nat, lo : Nat, hi : Nat]
RawFields == [firstChunk : Nat, firstStart : Nat, firstEnd : Nat, extra : Seq(Segment)]
RowStates == {"leading", "Outside", "InUnquoted", "error", "EOF"}
Open == state \in {"Outside", "InUnquoted"}

RowTypeOK == /\ state \in RowStates /\ rowInUse \in BOOLEAN
             /\ fields \in Seq(RawFields)

\* A chunk is filled when the bytes before it are used up, except for the one
\* that is read to see what follows a CR.
OneAhead ==
  \/ Len(chunks) <= Here.chunk + 1
  \/ ~Beyond(Here) /\ Len(chunks) = Here.chunk + 2 /\ Exhausted(After(Here))

\* A row that is out ends at the cursor, which no read has moved since.
OutEndsHere == rowInUse => /\ state = "leading" /\ releaseCursor = cursor
                           /\ Len(chunks) <= Here.chunk + 1

NoRowNoFields == ~rowInUse /\ state \in {"leading", "EOF"} => fields = <<>>

FieldsHeld == \A k \in DOMAIN fields : Held(fields[k])

FieldOpen == /\ fieldStart \in Cursor /\ Within(fieldStart) /\ ~Beyond(fieldStart)
             /\ InOrder(fieldStart, cursor)
             /\ Place(fieldStart) <= Place(cursor)
             /\ state = "Outside" => fields # <<>> /\ Place(fieldStart) = Place(cursor)

\* The positions a field holds: what FieldCells finds in memory (FieldIsRun).
RunOf(f) == Run(Place(StartOf(f)), Place(EndOf(f)))
Texts == [k \in DOMAIN fields |-> RunOf(fields[k])]
LimitKept == MaxFieldSize > 0 =>
  \A k \in DOMAIN fields : Place(EndOf(fields[k])) - Place(StartOf(fields[k])) <= MaxFieldSize

\* Where the line began that the fields are of.
LineStart == IF fields # <<>> THEN Place(StartOf(fields[1]))
             ELSE IF state \in {"leading", "EOF"} THEN Place(cursor) ELSE Place(fieldStart)

\* The fields so far and the one that is open are the line so far, cut.
RowSoFar ==
  /\ LineStart \in Nat /\ LineStart < Place(cursor)
  /\ Append(Texts, Run(Place(fieldStart), Place(cursor))) = Rows!Cut(LineStart, Place(cursor))
  /\ \A i \in (LineStart + 1)..Place(cursor) : input[i] \notin {CR, LF}
  /\ LimitKept

RowInv == /\ IInv /\ saved.cursor = Origin
          /\ RowTypeOK /\ OneAhead /\ OutEndsHere /\ NoRowNoFields
          /\ FieldsHeld
          /\ Open => FieldOpen /\ RowSoFar

-----------------------------------------------------------------------------
(* A field is the run between the places of its ends.                      *)

\* Chunks follow one another in the input.
LEMMA BeforeMonotone ==
  ASSUME BufferTypeOK, Consecutive, NEW j \in 1..(Len(chunks) + 1)
  PROVE  \A k \in 1..(Len(chunks) + 1) :
           k <= j => Before(k) \in Nat /\ Before(j) \in Nat /\ Before(k) <= Before(j)
<1> DEFINE N == Len(chunks)
           T == {k \in Nat : k <= j => Before(k) \in Nat /\ Before(k) <= Before(j)}
<1>1. N \in Nat /\ taken \in Nat /\ j \in Nat /\ j >= 1 /\ j <= N + 1
  BY ChunkType
<1>2. Before(j) \in Nat
  <2>1. CASE j = N + 1
    BY <1>1, <2>1 DEF Before
  <2>2. CASE j # N + 1
    <3>1. j \in 1..N
      BY <1>1, <2>2
    <3> QED BY <3>1, BeforeProperties
  <2> QED BY <2>1, <2>2
<1>3. N + 1 \in T
  <2>1. N + 1 <= j => N + 1 = j
    BY <1>1
  <2> QED BY <1>1, <1>2, <2>1
<1>4. ASSUME NEW k \in 1..N, k + 1 \in T PROVE k \in T
  <2>1. /\ Before(k) \in Nat /\ End(k) \in Nat /\ Before(k + 1) = Before(k) + End(k)
    BY BeforeProperties
  <2>2. Before(k) <= Before(k + 1)
    BY <2>1
  <2>3. k <= j => k + 1 <= j \/ k = j
    BY <1>1
  <2>4. k + 1 <= j => Before(k + 1) \in Nat /\ Before(k + 1) <= Before(j)
    BY <1>4
  <2>5. k + 1 <= j => Before(k) <= Before(j)
    BY <1>2, <2>1, <2>2, <2>4
  <2>6. k = j => Before(k) <= Before(j)
    BY <1>2
  <2> QED BY <2>1, <2>3, <2>5, <2>6
<1> T \in SUBSET Nat
  OBVIOUS
<1> HIDE DEF T
<1>5. 1..(N + 1) \subseteq T
  BY <1>1, <1>3, <1>4, DownwardInduction
<1> QED BY <1>2, <1>5 DEF T

\* The bytes of one chunk.
LEMMA CellsAreRun ==
  ASSUME BufferTypeOK, Consecutive, NEW k \in 1..Len(chunks),
         NEW hi \in 0..End(k), NEW lo \in 0..hi
  PROVE  Cells(k, lo, hi) = Run(Before(k) + lo, Before(k) + hi)
<1> DEFINE p == Before(k)
           e == End(k)
<1>1. p \in Nat /\ e \in Nat /\ \A i \in 0..(e - 1) : Cell(k, i) = p + i + 1
  BY BeforeProperties
<1>2. Cells(k, lo, hi) = [i \in 1..(hi - lo) |-> Cell(k, lo + i - 1)]
  BY DEF Cells, Cell
<1>3. hi \in 0..e
  OBVIOUS
<1> HIDE DEF p, e
<1>4. (p + hi) - (p + lo) = hi - lo
  BY <1>1, <1>3
<1>5. ASSUME NEW i \in 1..(hi - lo) PROVE Cell(k, lo + i - 1) = (p + lo) + i
  <2>1. lo + i - 1 \in 0..(e - 1) /\ p + (lo + i - 1) + 1 = (p + lo) + i
    BY <1>1, <1>3
  <2> QED BY <1>1, <2>1
<1>6. Cells(k, lo, hi) = Run(p + lo, p + hi)
  BY <1>2, <1>4, <1>5 DEF Run
<1> QED BY <1>6 DEF p

\* A cursor that is not behind the last chunk.
LEMMA PlaceInChunk ==
  ASSUME BufferTypeOK, Consecutive, NEW c \in Cursor, Within(c), ~Beyond(c)
  PROVE  /\ c.chunk \in Nat /\ c.chunk + 1 \in 1..Len(chunks) /\ c.offset \in 0..End(c.chunk + 1)
         /\ Before(c.chunk + 1) \in Nat /\ End(c.chunk + 1) \in Nat
         /\ Place(c) = Before(c.chunk + 1) + c.offset /\ Place(c) \in Nat /\ Place(c) <= taken
<1> DEFINE k == c.chunk + 1
<1>1. c.chunk \in Nat /\ c.offset \in Nat /\ Len(chunks) \in Nat
  BY ChunkType, ChunkAssumption DEF Cursor
<1>2. k \in 1..Len(chunks) /\ c.chunk # Len(chunks) /\ ~(k > Len(chunks))
  BY <1>1 DEF Beyond
<1>3. c.offset <= End(k)
  BY <1>2 DEF Within
<1>4. /\ Before(k) \in Nat /\ End(k) \in Nat /\ taken \in Nat
      /\ Before(k + 1) = Before(k) + End(k) /\ Before(k + 1) <= taken
  BY <1>2, BeforeProperties
<1>5. Place(c) = Cell(k, 0) + c.offset - 1 /\ Before(k) = Cell(k, 0) - 1 /\ Cell(k, 0) \in Nat
  BY <1>2, ChunkNumbers DEF Place, Before
<1> HIDE DEF k
<1>6. Place(c) = Before(k) + c.offset /\ Place(c) \in Nat /\ Place(c) <= taken
  BY <1>1, <1>3, <1>4, <1>5
<1>7. c.offset \in 0..End(k)
  BY <1>1, <1>3, <1>4
<1> QED BY <1>1, <1>2, <1>4, <1>6, <1>7 DEF k

\* What a span has on its way: chunk s.chunk + n ends at StopAt(n), and the
\* places up to there do not decrease.
Stops(s, e, n) == IF n = e.chunk - s.chunk THEN Place(e) ELSE Before(s.chunk + n + 2)

LEMMA SpanProperties ==
  ASSUME BufferTypeOK, Consecutive, NEW s, NEW e, Spans(s, e)
  PROVE  /\ s \in Cursor /\ e \in Cursor /\ ~Beyond(s)
         /\ s.chunk \in Nat /\ e.chunk \in Nat /\ s.chunk <= e.chunk /\ e.chunk < Len(chunks)
         /\ Place(s) \in Nat /\ Place(e) \in Nat
         /\ \A n \in 0..(e.chunk - s.chunk) :
              /\ s.chunk + n + 1 \in 1..Len(chunks)
              /\ Stops(s, e, n) \in Nat
              /\ Place(s) <= Stops(s, e, n)
              /\ n > 0 => /\ Stops(s, e, n - 1) = Before(s.chunk + n + 1)
                          /\ Stops(s, e, 0) <= Stops(s, e, n - 1)
                          /\ Stops(s, e, n - 1) <= Stops(s, e, n)
<1> DEFINE m == e.chunk - s.chunk
           N == Len(chunks)
<1>1. /\ s \in Cursor /\ e \in Cursor /\ Within(s) /\ Within(e) /\ ~Beyond(e) /\ InOrder(s, e)
  BY DEF Spans
<1>2. /\ e.chunk \in Nat /\ e.chunk + 1 \in 1..N /\ e.offset \in 0..End(e.chunk + 1)
      /\ Before(e.chunk + 1) \in Nat /\ End(e.chunk + 1) \in Nat
      /\ Place(e) = Before(e.chunk + 1) + e.offset /\ Place(e) \in Nat
  BY <1>1, PlaceInChunk
<1>3. N \in Nat /\ s.chunk \in Nat /\ s.offset \in Nat /\ e.offset \in Nat
  BY <1>1, ChunkType, ChunkAssumption DEF Cursor
<1>4. s.chunk <= e.chunk /\ e.chunk < N /\ (s.chunk = e.chunk => s.offset <= e.offset)
  BY <1>1, <1>2, <1>3 DEF InOrder
<1>5. ~Beyond(s)
  BY <1>2, <1>3, <1>4 DEF Beyond
<1>6. /\ s.chunk + 1 \in 1..N /\ s.offset \in 0..End(s.chunk + 1)
      /\ Before(s.chunk + 1) \in Nat /\ End(s.chunk + 1) \in Nat
      /\ Place(s) = Before(s.chunk + 1) + s.offset /\ Place(s) \in Nat
  BY <1>1, <1>5, PlaceInChunk
<1>7. m \in Nat /\ e.chunk = s.chunk + m
  BY <1>2, <1>3, <1>4
<1> HIDE DEF m
<1>8. Before(s.chunk + 2) = Before(s.chunk + 1) + End(s.chunk + 1)
  <2>1. (s.chunk + 1) + 1 = s.chunk + 2
    BY <1>3
  <2> QED BY <1>6, <2>1, BeforeProperties
<1>9. Place(s) <= Before(s.chunk + 2) /\ Before(s.chunk + 2) \in Nat
  BY <1>3, <1>6, <1>8
<1>10. ASSUME NEW n \in 0..m
       PROVE  /\ s.chunk + n + 1 \in 1..N
              /\ Stops(s, e, n) \in Nat
              /\ Place(s) <= Stops(s, e, n)
              /\ n > 0 => /\ Stops(s, e, n - 1) = Before(s.chunk + n + 1)
                          /\ Stops(s, e, 0) <= Stops(s, e, n - 1)
                          /\ Stops(s, e, n - 1) <= Stops(s, e, n)
  <2> DEFINE a == s.chunk + n + 1
  <2>1. /\ n \in Nat /\ n <= m /\ a \in 1..N /\ a + 1 \in 1..(N + 1) /\ a \in 1..(N + 1)
        /\ a + 1 = s.chunk + n + 2
    BY <1>3, <1>4, <1>7
  <2>2. /\ Before(a) \in Nat /\ End(a) \in Nat /\ Before(a + 1) = Before(a) + End(a)
    BY <2>1, BeforeProperties
  <2>3. s.chunk + 2 \in 1..(N + 1) /\ s.chunk + 2 <= a + 1 /\ (n > 0 => s.chunk + 2 <= a)
    <3>1. \A u, x, N1 \in Nat : u < N1 => /\ u + 2 \in 1..(N1 + 1) /\ u + 2 <= (u + x + 1) + 1
                                          /\ (x > 0 => u + 2 <= u + x + 1)
      OBVIOUS
    <3>2. s.chunk < N
      BY <1>2, <1>3, <1>4
    <3> QED BY <1>3, <2>1, <3>1, <3>2
  <2>4. Before(s.chunk + 2) <= Before(a + 1) /\ (n > 0 => Before(s.chunk + 2) <= Before(a))
    BY <2>1, <2>3, BeforeMonotone
  <2>5. n = m => Place(e) = Before(a) + e.offset
    BY <1>2, <1>3, <1>7
  <2>6. Stops(s, e, n) = IF n = m THEN Place(e) ELSE Before(a + 1)
    BY <2>1 DEF Stops, m
  <2>7. n > 0 => n - 1 # m /\ s.chunk + (n - 1) + 2 = a
    BY <1>3, <1>7, <2>1
  <2>8. n > 0 => Stops(s, e, n - 1) = Before(a)
    BY <2>7 DEF Stops, m
  <2>9. n > 0 => 0 # m /\ s.chunk + 0 + 2 = s.chunk + 2
    BY <1>3, <1>7, <2>1
  <2>10. n > 0 => Stops(s, e, 0) = Before(s.chunk + 2)
    BY <2>9 DEF Stops, m
  <2>11. n = m /\ n = 0 => a = s.chunk + 1 /\ s.offset <= e.offset
    BY <1>3, <1>4, <1>7
  <2>12. n = m /\ n = 0 => Place(s) <= Place(e)
    BY <1>3, <1>6, <2>2, <2>5, <2>11
  <2> HIDE DEF a
  <2>13. n > 0 => Place(s) <= Before(a)
    BY <1>6, <1>9, <2>2, <2>4
  <2>14. n = m /\ n > 0 => Place(s) <= Place(e) /\ Before(a) <= Place(e)
    <3>1. \A x, y, z, w \in Nat : x <= y /\ z = y + w => x <= z /\ y <= z
      OBVIOUS
    <3>2. Place(s) \in Nat /\ Place(e) \in Nat /\ Before(a) \in Nat /\ e.offset \in Nat
      BY <1>2, <1>3, <1>6, <2>2
    <3> QED BY <2>5, <2>13, <3>1, <3>2
  <2>15. Place(s) <= Before(a + 1) /\ Before(a) <= Before(a + 1) /\ Before(a + 1) \in Nat
    BY <1>6, <1>9, <2>2, <2>4
  <2>16. n > 0 \/ n = 0
    BY <2>1
  <2>17. Stops(s, e, n) \in Nat /\ Place(s) <= Stops(s, e, n)
    BY <1>2, <2>6, <2>12, <2>14, <2>15, <2>16
  <2>18. n > 0 => Before(a) <= Stops(s, e, n)
    BY <2>6, <2>14, <2>15
  <2> QED BY <2>1, <2>4, <2>8, <2>10, <2>17, <2>18 DEF a
<1> QED BY <1>1, <1>2, <1>3, <1>4, <1>5, <1>6, <1>10 DEF m

\* The segments of a span's rawField.
SegmentEnd(s, e, n) == IF n = e.chunk - s.chunk THEN e.offset ELSE End(s.chunk + n + 1)

LEMMA SegmentProperties ==
  ASSUME BufferTypeOK, Consecutive, NEW s, NEW e, Spans(s, e)
  PROVE  \A n \in 0..(e.chunk - s.chunk) :
           /\ SegmentEnd(s, e, n) \in 0..End(s.chunk + n + 1)
           /\ End(s.chunk + n + 1) \in Nat
           /\ Stops(s, e, n) = Before(s.chunk + n + 1) + SegmentEnd(s, e, n)
           /\ n = 0 => /\ s.offset \in 0..SegmentEnd(s, e, n)
                       /\ Place(s) = Before(s.chunk + n + 1) + s.offset
           /\ n > 0 => Stops(s, e, n - 1) = Before(s.chunk + n + 1)
<1>1. /\ s \in Cursor /\ e \in Cursor /\ ~Beyond(s)
      /\ s.chunk \in Nat /\ e.chunk \in Nat /\ s.chunk <= e.chunk /\ e.chunk < Len(chunks)
      /\ \A n \in 0..(e.chunk - s.chunk) :
           /\ s.chunk + n + 1 \in 1..Len(chunks)
           /\ n > 0 => Stops(s, e, n - 1) = Before(s.chunk + n + 1)
  BY SpanProperties
<1>2. Within(s) /\ Within(e) /\ ~Beyond(e) /\ InOrder(s, e)
  BY DEF Spans
<1>3. /\ e.offset \in 0..End(e.chunk + 1) /\ Place(e) = Before(e.chunk + 1) + e.offset
      /\ s.offset \in 0..End(s.chunk + 1) /\ Place(s) = Before(s.chunk + 1) + s.offset
  BY <1>1, <1>2, PlaceInChunk
<1>4. SUFFICES ASSUME NEW n \in 0..(e.chunk - s.chunk)
               PROVE  /\ SegmentEnd(s, e, n) \in 0..End(s.chunk + n + 1)
                      /\ End(s.chunk + n + 1) \in Nat
                      /\ Stops(s, e, n) = Before(s.chunk + n + 1) + SegmentEnd(s, e, n)
                      /\ n = 0 => /\ s.offset \in 0..SegmentEnd(s, e, n)
                                  /\ Place(s) = Before(s.chunk + n + 1) + s.offset
  BY <1>1
<1> DEFINE a == s.chunk + n + 1
<1>5. a \in 1..Len(chunks) /\ a + 1 = s.chunk + n + 2 /\ n \in Nat
  BY <1>1
<1>6. End(a) \in Nat /\ Before(a + 1) = Before(a) + End(a)
  BY <1>5, BeforeProperties
<1>7. n = e.chunk - s.chunk => a = e.chunk + 1
  BY <1>1
<1>8. n = 0 => a = s.chunk + 1
  BY <1>1
<1>9. n = 0 /\ n = e.chunk - s.chunk => s.offset <= e.offset
  <2>1. n = 0 /\ n = e.chunk - s.chunk => ~(s.chunk < e.chunk)
    BY <1>1
  <2> QED BY <1>2, <2>1 DEF InOrder
<1>10. CASE n = e.chunk - s.chunk
  <2>1. SegmentEnd(s, e, n) = e.offset /\ Stops(s, e, n) = Place(e)
    BY <1>10 DEF SegmentEnd, Stops
  <2>2. n = 0 => s.offset \in 0..e.offset
    BY <1>3, <1>9, <1>10
  <2> QED BY <1>3, <1>6, <1>7, <1>8, <1>10, <2>1, <2>2
<1>11. CASE n # e.chunk - s.chunk
  <2>1. SegmentEnd(s, e, n) = End(a) /\ Stops(s, e, n) = Before(a + 1)
    BY <1>5, <1>11 DEF SegmentEnd, Stops
  <2>2. End(a) \in 0..End(a)
    BY <1>6
  <2> QED BY <1>3, <1>6, <1>8, <2>1, <2>2
<1> QED BY <1>10, <1>11

LEMMA RawFieldShape ==
  ASSUME BufferTypeOK, Consecutive, NEW s, NEW e, Spans(s, e)
  PROVE  LET f == RawField(s, e)
             m == e.chunk - s.chunk
         IN  /\ f \in RawFields /\ StartOf(f) = s /\ EndOf(f) = e
             /\ f.firstChunk = s.chunk /\ f.firstStart = s.offset /\ f.firstEnd = SegmentEnd(s, e, 0)
             /\ Len(f.extra) = m /\ DOMAIN f.extra = 1..m /\ (f.extra = <<>> <=> m = 0)
             /\ \A n \in 1..m : f.extra[n] = [chunk |-> s.chunk + n, lo |-> 0, hi |-> SegmentEnd(s, e, n)]
<1> DEFINE f == RawField(s, e)
           m == e.chunk - s.chunk
<1>1. /\ s \in Cursor /\ e \in Cursor
      /\ s.chunk \in Nat /\ e.chunk \in Nat /\ m \in Nat
  BY SpanProperties
<1>2. s.offset \in Nat /\ e.offset \in Nat
  BY <1>1, ChunkAssumption DEF Cursor
<1>3. \A n \in 0..m : SegmentEnd(s, e, n) \in Nat
  BY SegmentProperties
<1>4. s = [chunk |-> s.chunk, offset |-> s.offset] /\ e = [chunk |-> e.chunk, offset |-> e.offset]
  BY <1>1 DEF Cursor
<1>5. f.extra = [i \in 1..m |-> [chunk |-> s.chunk + i, lo |-> 0, hi |-> SegmentEnd(s, e, i)]]
  <2>1. \A i \in 1..m : (s.chunk + i = e.chunk) <=> (i = m)
    BY <1>1
  <2>2. \A i \in 1..m : (IF s.chunk + i = e.chunk THEN e.offset ELSE mem[chunks[s.chunk + i + 1]].end)
                          = SegmentEnd(s, e, i)
    BY <2>1 DEF SegmentEnd, End
  <2> QED BY <2>2 DEF RawField, ExtraSegments
<1>6. /\ f.firstChunk = s.chunk /\ f.firstStart = s.offset
      /\ f = [firstChunk |-> f.firstChunk, firstStart |-> f.firstStart, firstEnd |-> f.firstEnd,
              extra |-> f.extra]
  BY DEF RawField
<1>7. f.firstEnd = SegmentEnd(s, e, 0)
  <2>1. f.firstEnd = IF s.chunk = e.chunk THEN e.offset ELSE End(s.chunk + 1)
    BY DEF RawField, End
  <2>2. (s.chunk = e.chunk) <=> (0 = m)
    BY <1>1
  <2>3. s.chunk + 0 + 1 = s.chunk + 1
    BY <1>1
  <2> QED BY <2>1, <2>2, <2>3 DEF SegmentEnd
<1> HIDE DEF f, m
<1>8. \A n \in 1..m : [chunk |-> s.chunk + n, lo |-> 0, hi |-> SegmentEnd(s, e, n)] \in Segment
  BY <1>1, <1>3 DEF Segment
<1>9. f.extra \in [1..m -> Segment]
  BY <1>5, <1>8
<1>10. f.extra \in Seq(Segment) /\ Len(f.extra) = m /\ DOMAIN f.extra = 1..m
  BY <1>1, <1>9
<1>11. f.extra = <<>> <=> m = 0
  BY <1>10, EmptySeq
<1>12. f \in RawFields
  <2>1. f.firstEnd \in Nat
    BY <1>1, <1>3, <1>7
  <2> QED BY <1>1, <1>2, <1>6, <1>10, <2>1 DEF RawFields
<1>13. StartOf(f) = s
  BY <1>4, <1>6 DEF StartOf
<1>14. EndOf(f) = e
  <2>1. CASE m = 0
    <3>1. SegmentEnd(s, e, 0) = e.offset /\ s.chunk = e.chunk
      BY <1>1, <2>1 DEF SegmentEnd, m
    <3> QED BY <1>4, <1>6, <1>7, <1>11, <2>1, <3>1 DEF EndOf
  <2>2. CASE m # 0
    <3>1. m \in 1..m /\ s.chunk + m = e.chunk
      BY <1>1, <2>2 DEF m
    <3>2. SegmentEnd(s, e, m) = e.offset
      BY DEF SegmentEnd, m
    <3>3. f.extra[m] = [chunk |-> e.chunk, lo |-> 0, hi |-> e.offset]
      BY <1>5, <3>1, <3>2
    <3> QED BY <1>4, <1>10, <1>11, <2>2, <3>3 DEF EndOf
  <2> QED BY <2>1, <2>2
<1> QED BY <1>5, <1>6, <1>7, <1>10, <1>11, <1>12, <1>13, <1>14 DEF f, m

\* The recursive function in FieldCells: the segments up to the n-th extra one.
Joins(f, g) == g = [n \in 0..Len(f.extra) |->
                      IF n = 0 THEN <<>>
                      ELSE g[n - 1] \o Cells(f.extra[n].chunk + 1, f.extra[n].lo, f.extra[n].hi)]
Joined(f) == CHOOSE g : Joins(f, g)

\* materializeSegments puts together the field's bytes, all of them, in order.
LEMMA FieldIsRun ==
  ASSUME BufferTypeOK, Consecutive, NEW s, NEW e, Spans(s, e)
  PROVE  /\ FieldCells(RawField(s, e)) = Run(Place(s), Place(e))
         /\ Place(s) \in Nat /\ Place(e) \in Nat /\ Place(s) <= Place(e)
<1> DEFINE f == RawField(s, e)
           m == e.chunk - s.chunk
           first == Stops(s, e, 0)
           G == [n \in 0..m |-> Run(first, Stops(s, e, n))]
<1>1. /\ s.chunk \in Nat /\ e.chunk \in Nat /\ m \in Nat
      /\ Place(s) \in Nat /\ Place(e) \in Nat
      /\ \A n \in 0..m : /\ s.chunk + n + 1 \in 1..Len(chunks)
                         /\ Stops(s, e, n) \in Nat /\ Place(s) <= Stops(s, e, n)
                         /\ n > 0 => /\ first <= Stops(s, e, n - 1)
                                     /\ Stops(s, e, n - 1) <= Stops(s, e, n)
  BY SpanProperties
<1>2. \A n \in 0..m :
        /\ SegmentEnd(s, e, n) \in 0..End(s.chunk + n + 1)
        /\ End(s.chunk + n + 1) \in Nat
        /\ Stops(s, e, n) = Before(s.chunk + n + 1) + SegmentEnd(s, e, n)
        /\ n = 0 => /\ s.offset \in 0..SegmentEnd(s, e, n)
                    /\ Place(s) = Before(s.chunk + n + 1) + s.offset
        /\ n > 0 => Stops(s, e, n - 1) = Before(s.chunk + n + 1)
  BY SegmentProperties
<1>3. /\ f.firstChunk = s.chunk /\ f.firstStart = s.offset /\ f.firstEnd = SegmentEnd(s, e, 0)
      /\ Len(f.extra) = m
      /\ \A n \in 1..m : f.extra[n] = [chunk |-> s.chunk + n, lo |-> 0, hi |-> SegmentEnd(s, e, n)]
  BY RawFieldShape
<1>4. Stops(s, e, m) = Place(e)
  BY DEF Stops
<1> HIDE DEF f, m
<1>5. 0 \in 0..m /\ m \in 0..m
  BY <1>1
<1>6. first \in Nat /\ Place(s) <= first
  BY <1>1, <1>5
<1>7. Cells(f.firstChunk + 1, f.firstStart, f.firstEnd) = Run(Place(s), first)
  <2>1. s.chunk + 0 + 1 = s.chunk + 1
    BY <1>1
  <2>2. /\ s.chunk + 1 \in 1..Len(chunks)
        /\ SegmentEnd(s, e, 0) \in 0..End(s.chunk + 1)
        /\ first = Before(s.chunk + 1) + SegmentEnd(s, e, 0)
        /\ s.offset \in 0..SegmentEnd(s, e, 0)
        /\ Place(s) = Before(s.chunk + 1) + s.offset
    BY <1>1, <1>2, <1>5, <2>1
  <2>3. Cells(s.chunk + 1, s.offset, SegmentEnd(s, e, 0))
          = Run(Before(s.chunk + 1) + s.offset, Before(s.chunk + 1) + SegmentEnd(s, e, 0))
    BY <2>2, CellsAreRun
  <2> QED BY <1>3, <2>2, <2>3
<1> HIDE DEF first
<1>8. ASSUME NEW n \in 1..m
      PROVE  Run(first, Stops(s, e, n)) = Run(first, Stops(s, e, n - 1))
                                          \o Cells(f.extra[n].chunk + 1, f.extra[n].lo, f.extra[n].hi)
  <2> DEFINE a == s.chunk + n + 1
             h == SegmentEnd(s, e, n)
  <2>1. /\ n \in 0..m /\ n > 0 /\ n - 1 \in 0..m /\ (s.chunk + n) + 1 = a
    BY <1>1
  <2>2. /\ a \in 1..Len(chunks) /\ h \in 0..End(a) /\ End(a) \in Nat
        /\ Stops(s, e, n) = Before(a) + h /\ Stops(s, e, n - 1) = Before(a)
        /\ Stops(s, e, n) \in Nat /\ Stops(s, e, n - 1) \in Nat
        /\ first <= Stops(s, e, n - 1) /\ Stops(s, e, n - 1) <= Stops(s, e, n)
    BY <1>1, <1>2, <2>1
  <2>3. /\ f.extra[n].chunk + 1 = a /\ f.extra[n].lo = 0 /\ f.extra[n].hi = h
    <3>1. f.extra[n] = [chunk |-> s.chunk + n, lo |-> 0, hi |-> h]
      BY <1>3
    <3> HIDE DEF a, h
    <3>2. f.extra[n].chunk = s.chunk + n /\ f.extra[n].lo = 0 /\ f.extra[n].hi = h
      BY <3>1
    <3> QED BY <2>1, <3>2
  <2> HIDE DEF a, h
  <2>4. 0 \in 0..h /\ Before(a) + 0 = Before(a)
    BY <2>2
  <2>5. Cells(a, 0, h) = Run(Before(a) + 0, Before(a) + h)
    BY <2>2, <2>4, CellsAreRun
  <2>6. Cells(a, 0, h) = Run(Stops(s, e, n - 1), Stops(s, e, n))
    BY <2>2, <2>4, <2>5
  <2>7. Run(first, Stops(s, e, n - 1)) \o Run(Stops(s, e, n - 1), Stops(s, e, n)) = Run(first, Stops(s, e, n))
    <3>1. /\ first \in Nat /\ Stops(s, e, n - 1) \in Nat /\ Stops(s, e, n) \in Nat
          /\ first <= Stops(s, e, n - 1) /\ Stops(s, e, n - 1) <= Stops(s, e, n)
      BY <1>6, <2>2
    <3> QED BY ONLY <3>1, RunConcat
  <2> QED BY <2>3, <2>6, <2>7
<1>9. Run(first, Stops(s, e, 0)) = <<>>
  <2>1. Stops(s, e, 0) = first
    BY DEF first
  <2>2. first <= first /\ first - first = 0
    BY <1>6
  <2>3. Run(first, first) \in Seq(Nat) /\ Len(Run(first, first)) = 0
    BY <1>6, <2>2, RunProperties
  <2> QED BY <2>1, <2>3, EmptySeq
<1>10. Joins(f, G)
  <2>1. ASSUME NEW n \in 0..m
        PROVE  G[n] = IF n = 0 THEN <<>>
                      ELSE G[n - 1] \o Cells(f.extra[n].chunk + 1, f.extra[n].lo, f.extra[n].hi)
    <3>1. CASE n = 0
      BY <1>9, <3>1
    <3>2. CASE n # 0
      <4>1. n \in 1..m /\ n - 1 \in 0..m
        BY <1>1, <3>2
      <4>2. G[n] = Run(first, Stops(s, e, n)) /\ G[n - 1] = Run(first, Stops(s, e, n - 1))
        BY <4>1
      <4> HIDE DEF G
      <4> QED BY <1>8, <3>2, <4>1, <4>2
    <3> QED BY <3>1, <3>2
  <2>2. G = [n \in 0..m |-> G[n]]
    OBVIOUS
  <2> HIDE DEF G
  <2> QED BY <1>3, <2>1, <2>2 DEF Joins
<1>11. Joins(f, Joined(f))
  BY <1>10 DEF Joined
<1> HIDE DEF G
<1>12. ASSUME NEW n \in 0..m
       PROVE  Joined(f)[n] = IF n = 0 THEN <<>>
                             ELSE Joined(f)[n - 1] \o Cells(f.extra[n].chunk + 1, f.extra[n].lo, f.extra[n].hi)
  BY <1>3, <1>11 DEF Joins
<1> DEFINE T == {n \in Nat : n <= m => Joined(f)[n] = Run(first, Stops(s, e, n))}
<1>13. 0 \in T
  BY <1>5, <1>9, <1>12
<1>14. ASSUME NEW n \in T PROVE n + 1 \in T
  <2>1. SUFFICES ASSUME n + 1 <= m PROVE Joined(f)[n + 1] = Run(first, Stops(s, e, n + 1))
    OBVIOUS
  <2>2. n \in Nat /\ n + 1 \in 1..m /\ n + 1 \in 0..m /\ n <= m /\ (n + 1) - 1 = n /\ n + 1 # 0
    BY <1>1, <2>1
  <2>3. Joined(f)[n] = Run(first, Stops(s, e, n))
    BY <2>2
  <2> HIDE DEF T
  <2>4. Joined(f)[n + 1] = Joined(f)[n] \o Cells(f.extra[n + 1].chunk + 1, f.extra[n + 1].lo, f.extra[n + 1].hi)
    BY <1>12, <2>2
  <2>5. Run(first, Stops(s, e, n + 1)) = Run(first, Stops(s, e, n))
          \o Cells(f.extra[n + 1].chunk + 1, f.extra[n + 1].lo, f.extra[n + 1].hi)
    BY <1>8, <2>2
  <2> QED BY <2>3, <2>4, <2>5
<1> T \in SUBSET Nat
  OBVIOUS
<1> HIDE DEF T
<1>15. m \in T
  BY <1>1, <1>13, <1>14, SetInduction
<1>16. Joined(f)[m] = Run(first, Place(e))
  BY <1>1, <1>4, <1>15 DEF T
<1>17. FieldCells(f) = Cells(f.firstChunk + 1, f.firstStart, f.firstEnd) \o Joined(f)[Len(f.extra)]
  BY DEF FieldCells, Joined, Joins
<1>18. first <= Place(e)
  <2>1. CASE m = 0
    BY <1>4, <1>6, <2>1 DEF first
  <2>2. CASE m # 0
    <3>1. m > 0 /\ m - 1 \in 0..m
      BY <1>1, <2>2
    <3>2. first <= Stops(s, e, m - 1) /\ Stops(s, e, m - 1) <= Stops(s, e, m) /\ Stops(s, e, m - 1) \in Nat
      BY <1>1, <1>5, <3>1 DEF first
    <3> QED BY <1>1, <1>4, <1>6, <3>2
  <2> QED BY <2>1, <2>2
<1>19. FieldCells(f) = Run(Place(s), Place(e))
  <2>1. Run(Place(s), first) \o Run(first, Place(e)) = Run(Place(s), Place(e))
    <3>1. /\ Place(s) \in Nat /\ first \in Nat /\ Place(e) \in Nat
          /\ Place(s) <= first /\ first <= Place(e)
      BY <1>1, <1>6, <1>18
    <3> QED BY ONLY <3>1, RunConcat
  <2> QED BY <1>3, <1>7, <1>16, <1>17, <2>1
<1> QED BY <1>1, <1>6, <1>18, <1>19 DEF f

\* The recursive function in FieldLength: the bytes up to the end of a chunk.
Sums(s, e, g) == g = [k \in s.chunk..e.chunk |->
                        IF k = s.chunk THEN mem[chunks[k + 1]].end - s.offset
                        ELSE g[k - 1] + (IF k = e.chunk THEN e.offset ELSE mem[chunks[k + 1]].end)]
SumUpTo(s, e) == CHOOSE g : Sums(s, e, g)

\* fieldLength counts the bytes of the field, in whatever chunks they are.
LEMMA LengthIsDistance ==
  ASSUME BufferTypeOK, Consecutive, NEW s, NEW e, Spans(s, e)
  PROVE  FieldLength(s, e) = Place(e) - Place(s)
<1> DEFINE m == e.chunk - s.chunk
           G == [k \in s.chunk..e.chunk |-> Stops(s, e, k - s.chunk) - Place(s)]
<1>1. /\ s.chunk \in Nat /\ e.chunk \in Nat /\ m \in Nat /\ s.chunk <= e.chunk
      /\ Place(s) \in Nat /\ Place(e) \in Nat
      /\ \A n \in 0..m : /\ s.chunk + n + 1 \in 1..Len(chunks) /\ Stops(s, e, n) \in Nat
  BY SpanProperties
<1>2. \A n \in 0..m :
        /\ SegmentEnd(s, e, n) \in 0..End(s.chunk + n + 1)
        /\ End(s.chunk + n + 1) \in Nat
        /\ Stops(s, e, n) = Before(s.chunk + n + 1) + SegmentEnd(s, e, n)
        /\ n = 0 => /\ s.offset \in 0..SegmentEnd(s, e, n)
                    /\ Place(s) = Before(s.chunk + n + 1) + s.offset
        /\ n > 0 => Stops(s, e, n - 1) = Before(s.chunk + n + 1)
  BY SegmentProperties
<1>3. Stops(s, e, m) = Place(e)
  BY DEF Stops
<1>4. 0 \in 0..m /\ m \in 0..m
  BY <1>1
<1>5. \A n \in 0..m : /\ Before(s.chunk + n + 1) \in Nat /\ SegmentEnd(s, e, n) \in Nat
  <2>1. \A n \in 0..m : SegmentEnd(s, e, n) \in Nat
    BY <1>2
  <2>2. \A n \in 0..m : Before(s.chunk + n + 1) \in Nat
    BY <1>1, BeforeProperties
  <2> QED BY <2>1, <2>2
<1>6. CASE s.chunk = e.chunk
  <2>1. m = 0 /\ SegmentEnd(s, e, 0) = e.offset
    BY <1>1, <1>6 DEF SegmentEnd
  <2>2. /\ Place(e) = Before(s.chunk + 0 + 1) + e.offset
        /\ Place(s) = Before(s.chunk + 0 + 1) + s.offset
        /\ Before(s.chunk + 0 + 1) \in Nat /\ e.offset \in Nat /\ s.offset \in Nat
    BY <1>2, <1>3, <1>4, <1>5, <2>1
  <2>3. FieldLength(s, e) = e.offset - s.offset
    BY <1>6 DEF FieldLength
  <2> QED BY <2>2, <2>3
<1>7. CASE s.chunk # e.chunk
  <2>1. m # 0
    BY <1>1, <1>7
  <2>2. ASSUME NEW k \in s.chunk..e.chunk
        PROVE  G[k] = IF k = s.chunk THEN mem[chunks[k + 1]].end - s.offset
                      ELSE G[k - 1] + (IF k = e.chunk THEN e.offset ELSE mem[chunks[k + 1]].end)
    <3> DEFINE n == k - s.chunk
    <3>1. n \in 0..m /\ n \in Nat /\ s.chunk + n + 1 = k + 1 /\ k \in Nat
      BY <1>1
    <3>2. (k = e.chunk <=> n = m) /\ (k = s.chunk <=> n = 0)
      BY <1>1
    <3>3. SegmentEnd(s, e, n) = IF k = e.chunk THEN e.offset ELSE mem[chunks[k + 1]].end
      BY <3>1, <3>2 DEF SegmentEnd, End
    <3>4. G[k] = Stops(s, e, n) - Place(s)
      OBVIOUS
    <3>5. CASE k = s.chunk
      <4>1. SegmentEnd(s, e, 0) = mem[chunks[k + 1]].end
        BY <1>7, <3>2, <3>3, <3>5
      <4>2. /\ Stops(s, e, 0) = Before(k + 1) + SegmentEnd(s, e, 0)
            /\ Place(s) = Before(k + 1) + s.offset
            /\ Before(k + 1) \in Nat /\ SegmentEnd(s, e, 0) \in Nat
            /\ s.offset \in Nat
        <5>1. n = 0 /\ s.chunk + 0 + 1 = k + 1
          BY <3>1, <3>2, <3>5
        <5> QED BY <1>2, <1>4, <1>5, <5>1
      <4> HIDE DEF G
      <4>3. Stops(s, e, 0) - Place(s) = mem[chunks[k + 1]].end - s.offset
        BY <4>1, <4>2
      <4> QED BY <3>2, <3>4, <3>5, <4>3
    <3>6. CASE k # s.chunk
      <4>1. k - 1 \in s.chunk..e.chunk /\ (k - 1) - s.chunk = n - 1 /\ n > 0 /\ n - 1 \in 0..m
        <5>1. k - 1 \in s.chunk..e.chunk /\ (k - 1) - s.chunk = n - 1
          <6>1. \A u, v, w \in Nat : w \in u..v /\ w # u => w - 1 \in u..v /\ (w - 1) - u = (w - u) - 1
            OBVIOUS
          <6>2. s.chunk \in Nat /\ e.chunk \in Nat
            BY <1>1
          <6> QED BY <3>1, <3>6, <6>1, <6>2
        <5>2. n # 0
          BY <3>2, <3>6
        <5> HIDE DEF n, m
        <5> QED BY <1>1, <3>1, <5>1, <5>2
      <4>2. G[k - 1] = Stops(s, e, n - 1) - Place(s)
        BY <4>1
      <4>3. /\ Stops(s, e, n) = Before(s.chunk + n + 1) + SegmentEnd(s, e, n)
            /\ Stops(s, e, n - 1) = Before(s.chunk + n + 1)
            /\ Before(s.chunk + n + 1) \in Nat /\ SegmentEnd(s, e, n) \in Nat
        BY <1>2, <1>5, <3>1, <4>1
      <4> HIDE DEF G, n
      <4>4. Stops(s, e, n) - Place(s) = (Stops(s, e, n - 1) - Place(s)) + SegmentEnd(s, e, n)
        BY <1>1, <4>3
      <4> QED BY <3>3, <3>4, <3>6, <4>2, <4>4
    <3> QED BY <3>5, <3>6
  <2>3. Sums(s, e, G)
    <3>1. G = [k \in s.chunk..e.chunk |-> G[k]]
      OBVIOUS
    <3> HIDE DEF G
    <3> QED BY <2>2, <3>1 DEF Sums
  <2>4. Sums(s, e, SumUpTo(s, e))
    BY <2>3 DEF SumUpTo
  <2> DEFINE U == SumUpTo(s, e)
             T == {n \in Nat : n <= m => U[s.chunk + n] = G[s.chunk + n]}
  <2>5. ASSUME NEW k \in s.chunk..e.chunk
        PROVE  U[k] = IF k = s.chunk THEN mem[chunks[k + 1]].end - s.offset
                      ELSE U[k - 1] + (IF k = e.chunk THEN e.offset ELSE mem[chunks[k + 1]].end)
    <3> HIDE DEF G
    <3> QED BY <2>4 DEF Sums
  <2> HIDE DEF G, U
  <2>6. 0 \in T
    <3>1. s.chunk \in s.chunk..e.chunk /\ s.chunk + 0 = s.chunk
      BY <1>1
    <3>2. U[s.chunk] = G[s.chunk]
      BY <2>2, <2>5, <3>1
    <3> QED BY <3>1, <3>2
  <2>7. ASSUME NEW n \in T PROVE n + 1 \in T
    <3>1. SUFFICES ASSUME n + 1 <= m PROVE U[s.chunk + (n + 1)] = G[s.chunk + (n + 1)]
      OBVIOUS
    <3> DEFINE k == s.chunk + (n + 1)
    <3>2. k \in s.chunk..e.chunk /\ k # s.chunk /\ k - 1 = s.chunk + n /\ n <= m
      <4>1. n \in Nat /\ s.chunk \in Nat /\ e.chunk \in Nat /\ s.chunk + m = e.chunk /\ m \in Nat
        BY <1>1
      <4>2. \A u, x, y \in Nat : x + 1 <= y => /\ u + (x + 1) \in u..(u + y) /\ u + (x + 1) # u
                                             /\ (u + (x + 1)) - 1 = u + x /\ x <= y
        OBVIOUS
      <4> HIDE DEF m, T
      <4>3. /\ s.chunk + (n + 1) \in s.chunk..(s.chunk + m) /\ s.chunk + (n + 1) # s.chunk
            /\ (s.chunk + (n + 1)) - 1 = s.chunk + n /\ n <= m
        BY ONLY <3>1, <4>1, <4>2
      <4> QED BY <4>1, <4>3
    <3>3. U[k - 1] = G[k - 1]
      BY <3>2
    <3> HIDE DEF k, T
    <3>4. U[k] = G[k]
      BY <2>2, <2>5, <3>2, <3>3
    <3> QED BY <3>4 DEF k
  <2> T \in SUBSET Nat
    OBVIOUS
  <2> HIDE DEF T
  <2>8. m \in T
    BY <1>1, <2>6, <2>7, SetInduction
  <2>9. U[e.chunk] = G[e.chunk]
    <3>1. s.chunk + m = e.chunk /\ m <= m
      BY <1>1
    <3> QED BY <2>8, <3>1 DEF T
  <2>10. e.chunk \in s.chunk..e.chunk /\ G[e.chunk] = Place(e) - Place(s)
    BY <1>1, <1>3 DEF G
  <2>11. FieldLength(s, e) = U[e.chunk]
    BY <1>7 DEF FieldLength, U, SumUpTo, Sums
  <2> QED BY <2>9, <2>10, <2>11
<1> QED BY <1>6, <1>7

-----------------------------------------------------------------------------
(* The line so far, cut: RowStream's Cut, one byte at a time.              *)

\* What the recursive function in Cut adds for the byte at r.
Extend(fs, r) == IF input[r] = Comma THEN Append(fs, <<>>)
                 ELSE [fs EXCEPT ![Len(fs)] = Append(@, r)]

CutsTo(p, q, g) == g = [r \in p..q |-> IF r = p THEN << <<>> >> ELSE Extend(g[r - 1], r)]

LEMMA CutStep ==
  ASSUME NEW p \in Nat, Len(input) \in Nat, p <= Len(input)
  PROVE  /\ Rows!Cut(p, p) = << <<>> >>
         /\ \A q \in p..Len(input) :
              q < Len(input) => Rows!Cut(p, q + 1) = Extend(Rows!Cut(p, q), q + 1)
<1> DEFINE n == Len(input)
           T == {i \in Nat : \E g : CutsTo(p, p + i, g)}
<1>1. 0 \in T
  <2> DEFINE g == [r \in p..(p + 0) |-> << <<>> >>]
  <2>1. \A r \in p..(p + 0) : r = p
    OBVIOUS
  <2>2. CutsTo(p, p + 0, g)
    BY <2>1 DEF CutsTo
  <2> QED BY <2>2
<1>2. ASSUME NEW i \in T PROVE i + 1 \in T
  <2>1. PICK g : CutsTo(p, p + i, g)
    OBVIOUS
  <2> DEFINE last == p + (i + 1)
             h == [r \in p..last |-> IF r = last THEN Extend(g[p + i], r) ELSE g[r]]
  <2>2. i \in Nat /\ last \in Nat /\ last # p /\ last - 1 = p + i /\ p + i # last /\ p + i \in p..last
    OBVIOUS
  <2>3. ASSUME NEW r \in p..last
        PROVE  h[r] = IF r = p THEN << <<>> >> ELSE Extend(h[r - 1], r)
    <3>1. CASE r = last
      <4>1. h[r] = Extend(g[p + i], r) /\ h[r - 1] = g[p + i]
        BY <2>2, <3>1
      <4> HIDE DEF h
      <4> QED BY <2>2, <3>1, <4>1
    <3>2. CASE r # last
      <4>1. r \in p..(p + i) /\ (r # p => r - 1 \in p..last /\ r - 1 # last)
        BY <2>2, <3>2
      <4>2. h[r] = g[r] /\ (r # p => h[r - 1] = g[r - 1])
        BY <3>2, <4>1
      <4>3. g[r] = IF r = p THEN << <<>> >> ELSE Extend(g[r - 1], r)
        <5> HIDE DEF h
        <5> QED BY <2>1, <4>1 DEF CutsTo
      <4> HIDE DEF h
      <4> QED BY <4>2, <4>3
    <3> QED BY <3>1, <3>2
  <2>4. h = [r \in p..last |-> h[r]]
    OBVIOUS
  <2> HIDE DEF h
  <2>5. CutsTo(p, last, h)
    BY <2>3, <2>4 DEF CutsTo
  <2> QED BY <2>5
<1>3. T \in SUBSET Nat
  OBVIOUS
<1> HIDE DEF T
<1>4. T = Nat
  BY ONLY <1>1, <1>2, <1>3, SetInduction
<1>5. \E g : CutsTo(p, n, g)
  <2>1. n - p \in T /\ p + (n - p) = n
    BY <1>4
  <2> QED BY <2>1 DEF T
<1> DEFINE C == CHOOSE g : CutsTo(p, n, g)
<1>6. CutsTo(p, n, C)
  BY <1>5
<1>7. \A q : Rows!Cut(p, q) = C[q]
  BY DEF Rows!Cut, CutsTo, Extend
<1> HIDE DEF C
<1>8. ASSUME NEW r \in p..n PROVE C[r] = IF r = p THEN << <<>> >> ELSE Extend(C[r - 1], r)
  BY <1>6 DEF CutsTo
<1>9. Rows!Cut(p, p) = << <<>> >>
  <2>1. p \in p..n
    OBVIOUS
  <2> QED BY <1>7, <1>8, <2>1
<1>10. ASSUME NEW q \in p..n, q < n PROVE Rows!Cut(p, q + 1) = Extend(Rows!Cut(p, q), q + 1)
  <2>1. q + 1 \in p..n /\ q + 1 # p /\ (q + 1) - 1 = q
    BY <1>10
  <2>2. C[q + 1] = Extend(C[q], q + 1)
    BY <1>8, <2>1
  <2> QED BY <1>7, <2>2
<1> QED BY <1>9, <1>10

\* The byte goes to the field that is last.
LEMMA ExtendLast ==
  ASSUME NEW T \in Seq(Seq(Nat)), NEW x \in Seq(Nat), NEW r \in Nat
  PROVE  Extend(Append(T, x), r) = IF input[r] = Comma THEN Append(Append(T, x), <<>>)
                                   ELSE Append(T, Append(x, r))
<1> DEFINE s == Append(T, x)
           n == Len(T) + 1
           y == Append(x, r)
<1>1. /\ s \in Seq(Seq(Nat)) /\ Len(s) = n /\ n \in Nat /\ n \in 1..n /\ s[n] = x /\ y \in Seq(Nat)
      /\ \A i \in 1..Len(T) : s[i] = T[i]
  BY AppendProperties, LenProperties
<1>2. /\ Append(T, y) \in Seq(Seq(Nat)) /\ Len(Append(T, y)) = n /\ Append(T, y)[n] = y
      /\ \A i \in 1..Len(T) : Append(T, y)[i] = T[i]
  BY <1>1, AppendProperties
<1>3. [s EXCEPT ![Len(s)] = Append(@, r)] = [s EXCEPT ![n] = y]
  BY <1>1
<1> HIDE DEF s, y
<1>4. /\ [s EXCEPT ![n] = y] \in Seq(Seq(Nat)) /\ Len([s EXCEPT ![n] = y]) = n
      /\ \A i \in 1..n : [s EXCEPT ![n] = y][i] = IF i = n THEN y ELSE s[i]
  BY <1>1, ExceptSeq
<1>5. ASSUME NEW i \in 1..n PROVE [s EXCEPT ![n] = y][i] = Append(T, y)[i]
  <2>1. i = n \/ (i # n /\ i \in 1..Len(T))
    OBVIOUS
  <2> HIDE DEF n
  <2> QED BY <1>1, <1>2, <1>4, <2>1
<1>6. [s EXCEPT ![n] = y] = Append(T, y)
  BY <1>2, <1>4, <1>5, SeqEqual
<1> QED BY <1>3, <1>6 DEF Extend, s, y

-----------------------------------------------------------------------------
(* What steps of the buffer leave of the fields.                           *)

\* What a step keeps that moves no byte and gives no chunk back.
Keeps ==
  /\ \A c \in Cursor : Within(c) /\ ~Beyond(c) =>
       Within(c)' /\ ~Beyond(c)' /\ Place(c)' = Place(c)
  /\ \A f : Held(f) => Held(f)'

LEMMA SameMemoryKeeps ==
  ASSUME UNCHANGED <<taken, mem, chunks>>
  PROVE  /\ Keeps
         /\ \A c : /\ Settle(c)' = Settle(c) /\ Place(c)' = Place(c)
                   /\ (Within(c)' <=> Within(c)) /\ (Beyond(c)' <=> Beyond(c))
                   /\ (Exhausted(c)' <=> Exhausted(c))
<1>1. \A c : /\ Settle(c)' = Settle(c) /\ Place(c)' = Place(c)
             /\ (Within(c)' <=> Within(c)) /\ (Beyond(c)' <=> Beyond(c))
             /\ (Exhausted(c)' <=> Exhausted(c))
  BY DEF Settle, Exhausted, ChunkAt, NextChunk, Place, Within, Beyond, Cell, End
<1>2. ASSUME NEW f, Held(f) PROVE Held(f)'
  <2>1. \A s, e : RawField(s, e)' = RawField(s, e)
    BY DEF RawField, ExtraSegments
  <2>2. \A s, e : Spans(s, e) => Spans(s, e)'
    BY <1>1 DEF Spans, InOrder, Cursor
  <2> QED BY <1>2, <2>1, <2>2 DEF Held, StartOf, EndOf
<1> QED BY <1>1, <1>2 DEF Keeps

LEMMA FillKeeps ==
  ASSUME IInv, FillChunk
  PROVE  Keeps
<1>1. CASE UNCHANGED <<taken, mem, chunks>>
  BY <1>1, SameMemoryKeeps
<1>2. ASSUME NEW id \in ChunkIds \ InUse, NEW n \in 1..ChunkSize, FillWith(id, n)
      PROVE  Keeps
  <2>1. \A c \in Cursor : Within(c) => Within(c)' /\ Place(c)' = Place(c)
    BY <1>2, FillPlaces
  <2>2. /\ Len(chunks') = Len(chunks) + 1 /\ Len(chunks) \in Nat
        /\ \A k \in 1..Len(chunks) : End(k)' = End(k)
    BY <1>2, FillCells, ChunkType DEF IInv
  <2>3. \A c \in Cursor : ~Beyond(c) => ~Beyond(c)'
    BY <2>2 DEF Beyond, Cursor
  <2>4. \A s, e : Spans(s, e) => Spans(s, e)'
    BY <2>1, <2>3 DEF Spans, InOrder, Cursor
  <2>5. ASSUME NEW s, NEW e, Spans(s, e) PROVE RawField(s, e)' = RawField(s, e)
    <3>1. /\ s.chunk \in Nat /\ e.chunk \in Nat /\ s.chunk <= e.chunk /\ e.chunk < Len(chunks)
      BY <2>5, SpanProperties DEF IInv
    <3>2. \A k \in s.chunk..e.chunk : mem'[chunks'[k + 1]].end = mem[chunks[k + 1]].end
      <4>1. \A k \in s.chunk..e.chunk : k + 1 \in 1..Len(chunks)
        BY <2>2, <3>1
      <4> QED BY <2>2, <4>1 DEF End
    <3>3. s.chunk \in s.chunk..e.chunk /\ \A i \in 1..(e.chunk - s.chunk) : s.chunk + i \in s.chunk..e.chunk
      BY <3>1
    <3>4. ExtraSegments(s, e)' = ExtraSegments(s, e)
      BY <3>2, <3>3 DEF ExtraSegments
    <3> QED BY <3>2, <3>3, <3>4 DEF RawField
  <2>6. ASSUME NEW f, Held(f) PROVE Held(f)'
    <3>1. Spans(StartOf(f), EndOf(f)) /\ f = RawField(StartOf(f), EndOf(f))
      BY <2>6 DEF Held
    <3>2. Spans(StartOf(f), EndOf(f))' /\ RawField(StartOf(f), EndOf(f))' = RawField(StartOf(f), EndOf(f))
      BY <2>4, <2>5, <3>1 DEF StartOf, EndOf
    <3> QED BY <3>1, <3>2 DEF Held, StartOf, EndOf
  <2> QED BY <2>1, <2>3, <2>6 DEF Keeps
<1> QED BY <1>1, <1>2 DEF FillChunk, FillWith

\* A field that is held has its ends in the buffer.
LEMMA HeldEnds ==
  ASSUME IInv, NEW f, Held(f)
  PROVE  /\ StartOf(f) \in Cursor /\ Within(StartOf(f)) /\ ~Beyond(StartOf(f))
         /\ EndOf(f) \in Cursor /\ Within(EndOf(f)) /\ ~Beyond(EndOf(f))
         /\ Place(StartOf(f)) \in Nat /\ Place(EndOf(f)) \in Nat
         /\ Place(StartOf(f)) <= Place(EndOf(f))
         /\ RunOf(f) \in Seq(Nat) /\ Len(RunOf(f)) = Place(EndOf(f)) - Place(StartOf(f))
         /\ FieldCells(f) = RunOf(f)
<1>1. Spans(StartOf(f), EndOf(f)) /\ f = RawField(StartOf(f), EndOf(f))
  BY DEF Held
<1>2. BufferTypeOK /\ Consecutive
  BY DEF IInv
<1> DEFINE s == StartOf(f)
           e == EndOf(f)
<1> HIDE DEF s, e
<1>3. /\ FieldCells(RawField(s, e)) = Run(Place(s), Place(e))
      /\ Place(s) \in Nat /\ Place(e) \in Nat /\ Place(s) <= Place(e)
  BY <1>1, <1>2, FieldIsRun DEF s, e
<1>4. s \in Cursor /\ e \in Cursor /\ ~Beyond(s)
  BY <1>1, <1>2, SpanProperties DEF s, e
<1>5. Within(s) /\ Within(e) /\ ~Beyond(e)
  BY <1>1 DEF Spans, s, e
<1>6. Run(Place(s), Place(e)) \in Seq(Nat) /\ Len(Run(Place(s), Place(e))) = Place(e) - Place(s)
  BY <1>3, RunProperties
<1> QED BY <1>1, <1>3, <1>4, <1>5, <1>6 DEF RunOf, s, e

\* The fields of the row stay what they are.
LEMMA FieldsKept ==
  ASSUME IInv, FieldsHeld, Keeps, UNCHANGED fields
  PROVE  /\ FieldsHeld' /\ Texts' = Texts /\ (LimitKept => LimitKept')
         /\ 1 \in DOMAIN fields => Place(StartOf(fields[1]))' = Place(StartOf(fields[1]))
<1>1. ASSUME NEW k \in DOMAIN fields
      PROVE  /\ Held(fields[k])'
             /\ Place(StartOf(fields[k]))' = Place(StartOf(fields[k]))
             /\ Place(EndOf(fields[k]))' = Place(EndOf(fields[k]))
  <2>1. PICK f : f = fields[k]
    OBVIOUS
  <2>2. Held(f) /\ f = fields'[k]
    BY <2>1 DEF FieldsHeld
  <2>3. Held(f)' /\ Place(StartOf(f))' = Place(StartOf(f)) /\ Place(EndOf(f))' = Place(EndOf(f))
    BY <2>2, HeldEnds DEF Keeps, StartOf, EndOf
  <2> QED BY <2>1, <2>2, <2>3
<1>2. FieldsHeld'
  BY <1>1 DEF FieldsHeld
<1>3. \A k \in DOMAIN fields : RunOf(fields[k])' = RunOf(fields[k])
  BY <1>1 DEF RunOf, Run
<1>4. Texts' = Texts
  BY <1>3 DEF Texts
<1>5. LimitKept => LimitKept'
  BY <1>1 DEF LimitKept
<1> QED BY <1>1, <1>2, <1>4, <1>5

-----------------------------------------------------------------------------
(* What each step of the buffer does to the cursor.                        *)

\* A chunk moved onto is the last one: OneAhead allows no other.
LEMMA NextIsLast ==
  ASSUME IInv, OneAhead, ~Beyond(Here)
  PROVE  LET peek == Settle(After(Here))
         IN  /\ After(Here) \in Cursor /\ Within(After(Here)) /\ ~Beyond(After(Here))
             /\ peek \in Cursor /\ Within(peek) /\ ~Exhausted(peek)
             /\ Here.chunk <= peek.chunk /\ Len(chunks) <= peek.chunk + 1
<1> DEFINE a == After(Here)
           peek == Settle(a)
<1>1. BufferTypeOK /\ Consecutive
  BY DEF IInv
<1>2. a \in Cursor /\ Within(a) /\ ~Beyond(a) /\ Here \in Cursor
  BY <1>1, CursorTypes, SettledByte
<1>3. peek \in Cursor /\ Within(peek) /\ ~Exhausted(peek)
  BY <1>1, <1>2, SettleWithin
<1>4. a.chunk = Here.chunk /\ Here.chunk \in Nat /\ Len(chunks) \in Nat
  BY <1>1, <1>2, ChunkType DEF After, Cursor
<1>5. peek.chunk = IF Exhausted(a) THEN Here.chunk + 1 ELSE Here.chunk
  BY <1>4 DEF Settle, NextChunk
<1>6. Len(chunks) <= Here.chunk + 1 \/ (Len(chunks) = Here.chunk + 2 /\ Exhausted(a))
  BY DEF OneAhead
<1> HIDE DEF peek, a
<1>7. Here.chunk <= peek.chunk /\ Len(chunks) <= peek.chunk + 1
  BY <1>4, <1>5, <1>6
<1> QED BY <1>2, <1>3, <1>7 DEF peek, a

\* readByte: what it consumes, and how far the buffer is filled then.
LEMMA ReadByteRows ==
  ASSUME IInv, OneAhead, ReadByte
  PROVE  /\ IInv' /\ Keeps /\ UNCHANGED <<input, taken, mem, chunks, saved>>
         /\ Len(chunks') <= Here'.chunk + 1
         /\ Here \in Cursor /\ Within(Here) /\ ~Beyond(Here) /\ Place(Here) = Place(cursor)
         /\ Place(cursor) \in Nat /\ Place(cursor) < Len(input)
         /\ Value # LF => /\ cursor' = After(Here) /\ Place(cursor)' = Place(cursor) + 1
                          /\ input[Place(cursor) + 1] = Value /\ Value \notin {CR, LF}
                          /\ ~Beyond(cursor)'
         /\ Value = LF => /\ input[Place(cursor) + 1] \in {CR, LF}
                          /\ Place(cursor)' = Rows!AfterBreak(Place(cursor))
<1> DEFINE P == Place(cursor)
           peek == Settle(After(Here))
<1>1. /\ IInv' /\ PosAt(Here) = P + 1 /\ P \in Nat /\ P < Len(input)
      /\ P' = P + IF /\ P + 2 <= Len(input) /\ input[P + 1] = CR /\ input[P + 2] = LF THEN 2 ELSE 1
  BY ReadByteStep
<1>2. UNCHANGED <<input, taken, mem, chunks, saved>>
  BY DEF ReadByte
<1>3. Keeps /\ \A c : Settle(c)' = Settle(c) /\ (Beyond(c)' <=> Beyond(c))
  BY <1>2, SameMemoryKeeps
<1>4. Here \in Cursor /\ Within(Here) /\ ~Beyond(Here) /\ Place(Here) = P
  BY CursorTypes DEF ReadByte, Ready
<1>5. /\ After(Here) \in Cursor /\ ~Beyond(After(Here))
      /\ peek \in Cursor /\ Within(peek) /\ ~Exhausted(peek) /\ Len(chunks) <= peek.chunk + 1
  BY <1>4, NextIsLast
<1>6. cursor' = IF TakesCRLF THEN Settle(After(peek)) ELSE After(Here)
  BY DEF ReadByte
<1>7. Value # LF => ~TakesCRLF /\ input[P + 1] = Value /\ Value \notin {CR, LF}
  BY <1>1 DEF Value, TakesCRLF
<1>8. Value = LF => input[P + 1] \in {CR, LF}
  BY <1>1 DEF Value
<1>9. Value # LF => cursor' = After(Here) /\ P' = P + 1 /\ ~Beyond(cursor)'
  <2>1. Value # LF => input[P + 1] # CR
    BY <1>7
  <2>2. Value # LF => cursor' = After(Here)
    BY <1>6, <1>7
  <2>3. Value # LF => ~Beyond(cursor)'
    BY <1>2, <1>5, <2>2 DEF Beyond
  <2> QED BY <1>1, <2>1, <2>2, <2>3
<1>10. Value = LF => P' = Rows!AfterBreak(P)
  <2>1. P # Len(input)
    BY <1>1
  <2> QED BY <1>1, <2>1 DEF Rows!AfterBreak
<1>11. Len(chunks') <= Here'.chunk + 1
  <2>1. CASE ~TakesCRLF
    <3>1. Here' = peek
      BY <1>2, <1>6, <2>1 DEF Here, Settle, Exhausted, Beyond, ChunkAt, NextChunk
    <3> QED BY <1>2, <1>5, <3>1
  <2>2. CASE TakesCRLF
    <3> DEFINE b == After(peek)
    <3>1. ~Beyond(peek)
      BY <2>2 DEF TakesCRLF, FollowedByLF
    <3>2. b \in Cursor /\ Within(b)
      BY <1>5, <3>1, SettledByte DEF IInv
    <3>3. ~Exhausted(Settle(b)) /\ Settle(b) \in Cursor
      BY <3>2, SettleWithin DEF IInv
    <3>4. Here' = Settle(Settle(b))
      BY <1>2, <1>6, <2>2 DEF Here, Settle, Exhausted, Beyond, ChunkAt, NextChunk
    <3>5. Here' = Settle(b)
      BY <3>3, <3>4 DEF Settle
    <3>6. b.chunk = peek.chunk /\ peek.chunk \in Nat
      BY <1>5 DEF After, Cursor
    <3>7. Settle(b).chunk = peek.chunk \/ Settle(b).chunk = peek.chunk + 1
      BY <3>6 DEF Settle, NextChunk
    <3>8. Len(chunks) \in Nat /\ chunks' = chunks
      BY <1>2, ChunkType DEF IInv
    <3> HIDE DEF peek, b
    <3> QED BY <1>5, <3>5, <3>6, <3>7, <3>8
  <2> QED BY <2>1, <2>2
<1> QED BY <1>1, <1>2, <1>3, <1>4, <1>7, <1>8, <1>9, <1>10, <1>11

LEMMA ReadEOFRows ==
  ASSUME IInv, ReadEOF
  PROVE  /\ IInv' /\ Keeps /\ UNCHANGED <<input, taken, mem, chunks, saved>>
         /\ Len(chunks') <= Here'.chunk + 1
         /\ cursor' = Here /\ Beyond(Here) /\ Here \in Cursor /\ Within(Here)
         /\ Place(cursor)' = Place(cursor) /\ Place(cursor) = Len(input) /\ Place(cursor) = taken
<1>1. IInv' /\ Place(cursor)' = Place(cursor) /\ Place(cursor) = Len(input)
  BY ReadEOFStep
<1>2. UNCHANGED <<input, taken, mem, chunks, saved>> /\ cursor' = Here /\ Beyond(Here)
  BY DEF ReadEOF
<1>3. Keeps
  BY <1>2, SameMemoryKeeps
<1>4. Here \in Cursor /\ Within(Here) /\ Place(Here) = Place(cursor) /\ ~Exhausted(Here)
  BY CursorTypes
<1>5. Here' = Here
  BY <1>2, <1>4 DEF Here, Settle, Exhausted, Beyond, ChunkAt, NextChunk
<1>6. Len(chunks) <= Here.chunk + 1
  BY <1>2, <1>4, ChunkType DEF Beyond, Cursor, IInv
<1>7. Place(cursor) = taken
  BY <1>2, <1>4 DEF Place
<1> QED BY <1>1, <1>2, <1>3, <1>4, <1>5, <1>6, <1>7

LEMMA ReadErrorRows ==
  ASSUME IInv, OneAhead, ReadError
  PROVE  IInv' /\ OneAhead' /\ Keeps /\ UNCHANGED <<input, taken, mem, chunks, saved>>
<1>1. IInv' /\ UNCHANGED <<input, taken, mem, chunks, saved>>
  BY ReadErrorStep DEF ReadError
<1>2. cursor' = IF Beyond(Here) THEN Here ELSE After(Here)
  BY DEF ReadError
<1>3. Here \in Cursor /\ ~Exhausted(Here) /\ Len(chunks) \in Nat
  BY CursorTypes, ChunkType DEF IInv
<1>4. Len(chunks') <= Here'.chunk + 1
  <2>1. CASE Beyond(Here)
    <3>1. Here' = Here
      BY <1>1, <1>2, <1>3, <2>1 DEF Here, Settle, Exhausted, Beyond, ChunkAt, NextChunk
    <3> QED BY <1>1, <1>3, <2>1, <3>1 DEF Beyond, Cursor
  <2>2. CASE ~Beyond(Here)
    <3>1. Len(chunks) <= Settle(After(Here)).chunk + 1
      BY <2>2, NextIsLast
    <3>2. Here' = Settle(After(Here))
      BY <1>1, <1>2, <2>2 DEF Here, Settle, Exhausted, Beyond, ChunkAt, NextChunk
    <3> QED BY <1>1, <3>1, <3>2
  <2> QED BY <2>1, <2>2
<1> QED BY <1>1, <1>4, SameMemoryKeeps DEF OneAhead

\* fillChunk fills the chunk the cursor is at or the one behind it, never more.
LEMMA FillRows ==
  ASSUME IInv, OneAhead, FillChunk
  PROVE  /\ IInv' /\ OneAhead' /\ Keeps /\ UNCHANGED <<input, saved>>
         /\ cursor' = Here /\ Place(cursor)' = Place(cursor)
<1>1. IInv' /\ Place(cursor)' = Place(cursor) /\ UNCHANGED <<input, saved>> /\ cursor' = Here
  BY FillChunkStep DEF FillChunk
<1>2. Here \in Cursor /\ Within(Here) /\ ~Exhausted(Here) /\ Len(chunks) \in Nat
  BY CursorTypes, ChunkType DEF IInv
<1>3. CASE UNCHANGED <<taken, mem, chunks>>
  <2>1. Here' = Here
    BY <1>1, <1>2, <1>3 DEF Here, Settle, Exhausted, Beyond, ChunkAt, NextChunk
  <2> QED BY <1>1, <1>3, <2>1, FillKeeps DEF OneAhead, Exhausted, Beyond, ChunkAt, After
<1>4. ASSUME NEW id \in ChunkIds \ InUse, NEW n \in 1..ChunkSize, FillWith(id, n)
      PROVE  OneAhead'
  <2>1. /\ Len(chunks') = Len(chunks) + 1
        /\ \A k \in 1..Len(chunks) : End(k)' = End(k)
        /\ \A k : k = Len(chunks) + 1 => End(k)' = n
    BY <1>4, FillCells
  <2>2. Here.chunk \in Nat /\ Here.chunk <= Len(chunks) /\ Here.offset \in Nat
    BY <1>2, ChunkAssumption DEF Cursor, Within
  <2>3. CASE Beyond(Here)
    <3>1. Here.chunk = Len(chunks) /\ Here.offset = 0
      BY <1>2, <2>2, <2>3, ChunkAssumption DEF Beyond, Within, Cursor
    <3>2. \A k : k = Here.chunk + 1 => ~(Here.offset >= End(k)')
      BY <2>1, <3>1
    <3>3. Here' = Here
      <4>1. PICK c : c = Here
        OBVIOUS
      <4>2. Settle(c)' = c
        BY <3>2, <4>1 DEF Settle, Exhausted, ChunkAt, End
      <4> QED BY <1>1, <4>1, <4>2 DEF Here
    <3> QED BY <1>2, <2>1, <3>1, <3>3 DEF OneAhead
  <2>4. CASE ~Beyond(Here)
    <3>0. PICK c, k : c = Here /\ k = Here.chunk + 1
      OBVIOUS
    <3>1. k \in 1..Len(chunks)
      BY <1>2, <2>2, <2>4, <3>0 DEF Beyond
    <3>2. End(k)' = End(k)
      BY <2>1, <3>1
    <3>3. ~(Here.offset >= End(k))
      BY <1>2, <2>4, <3>0 DEF Exhausted, ChunkAt, End
    <3>4. Here' = Here
      <4>1. Settle(c)' = c
        BY <3>0, <3>2, <3>3 DEF Settle, Exhausted, ChunkAt, End
      <4> QED BY <1>1, <3>0, <4>1 DEF Here
    <3>5. After(Here).chunk = Here.chunk
      BY <1>2 DEF After, Cursor
    <3>6. Beyond(Settle(After(Here)))
      BY <2>4 DEF FillChunk, NeedsFill
    <3>7. Exhausted(After(Here)) /\ Len(chunks) <= Here.chunk + 1
      <4>1. ~Beyond(After(Here))
        BY <2>4, <3>5 DEF Beyond
      <4>2. Exhausted(After(Here))
        BY <3>6, <4>1 DEF Settle
      <4>3. Settle(After(Here)).chunk = Here.chunk + 1
        BY <3>5, <4>2 DEF Settle, NextChunk
      <4> QED BY <1>2, <2>2, <3>6, <4>2, <4>3 DEF Beyond
    <3>8. Len(chunks) = Here.chunk + 1
      BY <1>2, <2>2, <3>0, <3>1, <3>7
    <3>9. ~Beyond(Here)' /\ Exhausted(After(Here))'
      <4>1. ~(Here.chunk >= Len(chunks'))
        BY <1>2, <2>1, <2>2, <3>8
      <4>2. After(Here).offset >= End(k)'
        BY <3>0, <3>2, <3>5, <3>7 DEF Exhausted, ChunkAt, End
      <4> QED BY <3>0, <3>4, <3>5, <4>1, <4>2 DEF Exhausted, Beyond, ChunkAt, End, After
    <3>10. Len(chunks') = Here'.chunk + 2
      BY <1>2, <2>1, <2>2, <3>4, <3>8
    <3> QED BY <3>9, <3>10 DEF OneAhead
  <2> QED BY <2>3, <2>4
<1>5. OneAhead'
  BY <1>3, <1>4 DEF FillChunk, FillWith
<1> QED BY <1>1, <1>5, FillKeeps

-----------------------------------------------------------------------------
(* What each step does to the row.                                         *)

LEMMA EmptyRun ==
  ASSUME NEW p \in Nat
  PROVE  Run(p, p) = <<>>
<1>1. p <= p /\ p - p = 0
  OBVIOUS
<1>2. Run(p, p) \in Seq(Nat) /\ Len(Run(p, p)) = 0
  BY <1>1, RunProperties
<1> QED BY <1>2, EmptySeq

LEMMA RunGrows ==
  ASSUME NEW p \in Nat, NEW q \in Nat, p <= q
  PROVE  Append(Run(p, q), q + 1) = Run(p, q + 1)
<1> DEFINE a == Append(Run(p, q), q + 1)
           b == Run(p, q + 1)
<1>1. /\ Run(p, q) \in Seq(Nat) /\ Len(Run(p, q)) = q - p
      /\ \A i \in 1..(q - p) : Run(p, q)[i] = p + i
  BY RunProperties
<1>2. q + 1 \in Nat /\ p <= q + 1
  OBVIOUS
<1>3. /\ b \in Seq(Nat) /\ Len(b) = (q + 1) - p
      /\ \A i \in 1..((q + 1) - p) : b[i] = p + i
  BY <1>2, RunProperties
<1>4. /\ a \in Seq(Nat) /\ Len(a) = (q - p) + 1
      /\ \A i \in 1..(q - p) : a[i] = p + i
      /\ a[(q - p) + 1] = q + 1
  BY <1>1, <1>2, AppendProperties
<1> HIDE DEF a, b
<1>5. (q + 1) - p = (q - p) + 1
  OBVIOUS
<1>6. ASSUME NEW i \in 1..Len(a) PROVE a[i] = b[i]
  <2>1. i \in 1..(q - p) \/ i = (q - p) + 1
    BY <1>4
  <2>2. p + ((q - p) + 1) = q + 1 /\ i \in 1..((q + 1) - p)
    BY <1>4, <1>5
  <2> QED BY <1>3, <1>4, <2>1, <2>2
<1>7. a = b
  BY <1>3, <1>4, <1>5, <1>6, SeqEqual
<1> QED BY <1>7 DEF a, b

\* One more byte of a line that is cut so far.
LEMMA LineBegins ==
  ASSUME NEW p \in Nat, Len(input) \in Nat, p <= Len(input), NEW T, T = <<>>
  PROVE  Append(T, Run(p, p)) = Rows!Cut(p, p)
<1>1. Run(p, p) = <<>> /\ Rows!Cut(p, p) = << <<>> >>
  BY EmptyRun, CutStep
<1> QED BY <1>1

LEMMA LineGrows ==
  ASSUME NEW T \in Seq(Seq(Nat)), NEW p \in Nat, NEW a \in Nat, NEW q \in Nat,
         p <= q, a <= q, Len(input) \in Nat, q < Len(input),
         Append(T, Run(a, q)) = Rows!Cut(p, q)
  PROVE  Rows!Cut(p, q + 1) = IF input[q + 1] = Comma
                              THEN Append(Append(T, Run(a, q)), Run(q + 1, q + 1))
                              ELSE Append(T, Run(a, q + 1))
<1>1. q \in p..Len(input) /\ q + 1 \in Nat /\ p <= Len(input)
  OBVIOUS
<1>2. Rows!Cut(p, q + 1) = Extend(Append(T, Run(a, q)), q + 1)
  BY <1>1, CutStep
<1>3. Run(a, q) \in Seq(Nat)
  BY RunProperties
<1>4. Extend(Append(T, Run(a, q)), q + 1)
        = IF input[q + 1] = Comma THEN Append(Append(T, Run(a, q)), <<>>)
          ELSE Append(T, Append(Run(a, q), q + 1))
  BY <1>1, <1>3, ExtendLast
<1>5. Run(q + 1, q + 1) = <<>> /\ Append(Run(a, q), q + 1) = Run(a, q + 1)
  BY <1>1, EmptyRun, RunGrows
<1> QED BY <1>2, <1>4, <1>5

LEMMA TextsType ==
  ASSUME IInv, RowTypeOK, FieldsHeld
  PROVE  /\ Texts \in Seq(Seq(Nat)) /\ Len(Texts) = Len(fields)
         /\ Len(fields) \in Nat /\ DOMAIN fields = 1..Len(fields)
         /\ (fields = <<>> <=> Len(fields) = 0) /\ (fields = <<>> => Texts = <<>>)
<1>1. fields \in Seq(RawFields) /\ Len(fields) \in Nat /\ DOMAIN fields = 1..Len(fields)
  BY LenProperties DEF RowTypeOK
<1>2. \A k \in DOMAIN fields : RunOf(fields[k]) \in Seq(Nat)
  BY HeldEnds DEF FieldsHeld
<1>3. Texts \in [1..Len(fields) -> Seq(Nat)]
  BY <1>1, <1>2 DEF Texts
<1>4. Texts \in Seq(Seq(Nat)) /\ Len(Texts) = Len(fields)
  BY <1>1, <1>3
<1>5. (fields = <<>> <=> Len(fields) = 0) /\ (fields = <<>> => Texts = <<>>)
  BY <1>1, <1>4, EmptySeq
<1> QED BY <1>1, <1>4, <1>5

\* emitField appends the run between its cursors.
LEMMA EmitFields ==
  ASSUME IInv, RowTypeOK, FieldsHeld, UNCHANGED <<taken, mem, chunks>>,
         NEW s, NEW e, Spans(s, e), fields' = Append(fields, RawField(s, e))
  PROVE  /\ fields' \in Seq(RawFields) /\ fields' # <<>> /\ FieldsHeld'
         /\ Texts' = Append(Texts, Run(Place(s), Place(e)))
         /\ LimitKept /\ Fits(s, e) => LimitKept'
         /\ Place(StartOf(fields[1]))' = IF fields = <<>> THEN Place(s) ELSE Place(StartOf(fields[1]))
<1> DEFINE N == Len(fields)
<1>1. PICK f : f = RawField(s, e)
  OBVIOUS
<1>2. BufferTypeOK /\ Consecutive
  BY DEF IInv
<1>3. f \in RawFields /\ StartOf(f) = s /\ EndOf(f) = e
  BY <1>1, <1>2, RawFieldShape
<1>4. Held(f) /\ RunOf(f) = Run(Place(s), Place(e)) /\ RunOf(f) \in Seq(Nat)
  <2>1. Held(f)
    BY <1>1, <1>3 DEF Held
  <2> QED BY <1>3, <2>1, HeldEnds DEF RunOf
<1>5. /\ fields \in Seq(RawFields) /\ N \in Nat /\ DOMAIN fields = 1..N
      /\ (fields = <<>> <=> N = 0) /\ Texts \in Seq(Seq(Nat)) /\ Len(Texts) = N
  BY TextsType DEF RowTypeOK
<1>6. /\ fields' \in Seq(RawFields) /\ fields' # <<>> /\ Len(fields') = N + 1
      /\ fields'[N + 1] = f /\ \A k \in 1..N : fields'[k] = fields[k]
  BY <1>1, <1>3, <1>5, AppendProperties
<1>7. DOMAIN fields' = 1..(N + 1) /\ \A k \in 1..(N + 1) : k \in 1..N \/ k = N + 1
  BY <1>5, <1>6
<1>8. Keeps /\ \A c : Place(c)' = Place(c)
  BY SameMemoryKeeps
<1>9. \A g : RunOf(g)' = RunOf(g) /\ Place(StartOf(g))' = Place(StartOf(g)) /\ Place(EndOf(g))' = Place(EndOf(g))
  BY <1>8 DEF RunOf, Run, StartOf, EndOf
<1> HIDE DEF N
<1>10. ASSUME NEW k \in 1..(N + 1)
       PROVE  \E g : /\ g = fields'[k] /\ Held(g)
                     /\ (k \in 1..N => g = fields[k]) /\ (k = N + 1 => g = f)
  <2>1. CASE k \in 1..N
    <3>1. fields'[k] = fields[k] /\ Held(fields[k]) /\ k # N + 1
      <4>1. k # N + 1
        BY <1>5, <2>1
      <4>2. k \in DOMAIN fields
        BY <1>5, <2>1
      <4> QED BY <1>6, <2>1, <4>1, <4>2 DEF FieldsHeld
    <3> QED BY <3>1
  <2>2. CASE k = N + 1 /\ k \notin 1..N
    BY <1>4, <1>6, <2>2
  <2> QED BY <1>7, <2>1, <2>2
<1>11. FieldsHeld'
  <2>1. ASSUME NEW k \in 1..(N + 1) PROVE Held(fields[k])'
    <3>1. PICK g : g = fields'[k] /\ Held(g)
      BY <1>10
    <3>2. Held(g)'
      BY <1>8, <3>1 DEF Keeps
    <3> QED BY <3>1, <3>2
  <2> QED BY <1>7, <2>1 DEF FieldsHeld
<1>12. Texts' = Append(Texts, Run(Place(s), Place(e)))
  <2>1. Texts' = [k \in 1..(N + 1) |-> RunOf(fields[k])']
    BY <1>7 DEF Texts
  <2>2. ASSUME NEW k \in 1..(N + 1)
        PROVE  RunOf(fields[k])' = Append(Texts, RunOf(f))[k]
    <3>1. PICK g : /\ g = fields'[k]
                   /\ (k \in 1..N => g = fields[k]) /\ (k = N + 1 => g = f)
      BY <1>10
    <3>2. RunOf(fields[k])' = RunOf(g)
      BY <1>9, <3>1
    <3>3. k \in 1..N => Texts[k] = RunOf(g)
      BY <1>5, <3>1 DEF Texts
    <3>4. /\ \A i \in 1..N : Append(Texts, RunOf(f))[i] = Texts[i]
          /\ Append(Texts, RunOf(f))[N + 1] = RunOf(f)
      BY <1>4, <1>5, AppendProperties
    <3> QED BY <1>7, <3>1, <3>2, <3>3, <3>4
  <2>3. Append(Texts, RunOf(f)) = [k \in 1..(N + 1) |-> Append(Texts, RunOf(f))[k]]
    <3>1. Append(Texts, RunOf(f)) \in Seq(Seq(Nat)) /\ Len(Append(Texts, RunOf(f))) = N + 1
      BY <1>4, <1>5, AppendProperties
    <3> QED BY <3>1, LenProperties
  <2>4. Texts' = Append(Texts, RunOf(f))
    BY <2>1, <2>2, <2>3
  <2> QED BY <1>4, <2>4
<1>13. ASSUME LimitKept, Fits(s, e) PROVE LimitKept'
  <2>1. SUFFICES ASSUME MaxFieldSize > 0, NEW k \in 1..(N + 1)
                 PROVE  (Place(EndOf(fields[k])) - Place(StartOf(fields[k])) <= MaxFieldSize)'
    BY <1>7 DEF LimitKept
  <2>2. PICK g : /\ g = fields'[k]
                 /\ (k \in 1..N => g = fields[k]) /\ (k = N + 1 => g = f)
    BY <1>10
  <2>3. Place(EndOf(g)) - Place(StartOf(g)) <= MaxFieldSize
    <3>1. CASE k \in 1..N
      BY <1>5, <1>13, <2>1, <2>2, <3>1 DEF LimitKept
    <3>2. CASE k = N + 1
      <4>1. FieldLength(s, e) <= MaxFieldSize
        BY <1>13, <2>1 DEF Fits
      <4>2. FieldLength(s, e) = Place(e) - Place(s)
        BY <1>2, LengthIsDistance
      <4> QED BY <1>3, <2>2, <3>2, <4>1, <4>2
    <3> QED BY <1>7, <3>1, <3>2
  <2>4. Place(EndOf(g))' = Place(EndOf(g)) /\ Place(StartOf(g))' = Place(StartOf(g))
    BY <1>9
  <2> QED BY <2>2, <2>3, <2>4
<1>14. Place(StartOf(fields[1]))' = IF fields = <<>> THEN Place(s) ELSE Place(StartOf(fields[1]))
  <2>1. 1 \in 1..(N + 1) /\ (N = 0 => 1 = N + 1) /\ (N # 0 => 1 \in 1..N)
    BY <1>5
  <2>2. PICK g : /\ g = fields'[1]
                 /\ (1 \in 1..N => g = fields[1]) /\ (1 = N + 1 => g = f)
    BY <1>10, <2>1
  <2>3. Place(StartOf(fields[1]))' = Place(StartOf(g))
    BY <1>9, <2>2
  <2> QED BY <1>3, <1>5, <2>1, <2>2, <2>3
<1> QED BY <1>6, <1>11, <1>12, <1>13, <1>14

\* The open field spans the buffer up to the byte that ends it.
LEMMA OpenSpan ==
  ASSUME RowInv, Open
  PROVE  /\ fieldStart \in Cursor /\ Within(fieldStart) /\ ~Beyond(fieldStart)
         /\ InOrder(fieldStart, Here)
         /\ ~Beyond(Here) => Spans(fieldStart, Here)
         /\ Beyond(Here) => /\ Spans(fieldStart, ClampCursor(Here))
                            /\ Place(ClampCursor(Here)) = Place(cursor)
         /\ Place(fieldStart) \in Nat /\ Place(fieldStart) <= Place(cursor)
<1>1. /\ IInv /\ BufferTypeOK /\ Consecutive
      /\ fieldStart \in Cursor /\ Within(fieldStart) /\ ~Beyond(fieldStart)
      /\ InOrder(fieldStart, cursor) /\ Place(fieldStart) <= Place(cursor)
  BY DEF RowInv, FieldOpen, IInv
<1>2. /\ Here \in Cursor /\ Within(Here) /\ cursor \in Cursor /\ Place(Here) = Place(cursor)
  BY <1>1, CursorTypes
<1>3. /\ fieldStart.chunk \in Nat /\ fieldStart.offset \in Nat /\ cursor.chunk \in Nat
      /\ Here.chunk \in Nat /\ Len(chunks) \in Nat
  BY <1>1, <1>2, ChunkType, ChunkAssumption DEF Cursor
<1>4. InOrder(fieldStart, Here)
  <2>1. CASE Exhausted(cursor)
    <3>1. Here.chunk = cursor.chunk + 1
      BY <2>1 DEF Here, Settle, NextChunk
    <3> QED BY <1>1, <1>3, <3>1 DEF InOrder
  <2>2. CASE ~Exhausted(cursor)
    BY <1>1, <2>2 DEF Here, Settle
  <2> QED BY <2>1, <2>2
<1>5. ~Beyond(Here) => Spans(fieldStart, Here)
  BY <1>1, <1>2, <1>4 DEF Spans
<1>6. ASSUME Beyond(Here)
      PROVE  Spans(fieldStart, ClampCursor(Here)) /\ Place(ClampCursor(Here)) = Place(cursor)
  <2> DEFINE N == Len(chunks)
             c == [chunk |-> N - 1, offset |-> End(N)]
  <2>1. N # 0 /\ fieldStart.chunk < N /\ N \in 1..N /\ N - 1 \in Nat
    BY <1>1, <1>3 DEF Beyond
  <2>2. ClampCursor(Here) = c
    <3>1. chunks # <<>>
      BY <2>1
    <3> QED BY <1>6, <3>1 DEF ClampCursor, End
  <2>3. /\ End(N) \in Nat /\ End(N) <= ChunkSize /\ ChunkSize \in Nat /\ Cell(N, 0) \in Nat /\ taken \in Nat
    BY <1>1, <2>1, ChunkNumbers
  <2>4. c \in Cursor /\ c.chunk = N - 1 /\ c.offset = End(N) /\ (N - 1) + 1 = N /\ N - 1 # N
    BY <1>3, <2>1, <2>3 DEF Cursor
  <2>5. Within(c) /\ ~Beyond(c)
    <3>1. N - 1 <= N /\ ~(N - 1 >= N) /\ End(N) <= End(N)
      BY <1>3, <2>3
    <3> QED BY <2>4, <3>1 DEF Within, Beyond
  <2>6. InOrder(fieldStart, c)
    <3>1. fieldStart.chunk < N - 1 \/ fieldStart.chunk = N - 1
      BY <1>3, <2>1
    <3>2. fieldStart.chunk = N - 1 => fieldStart.offset <= End(N)
      BY <1>1, <2>1, <2>4 DEF Within
    <3> QED BY <2>4, <3>1, <3>2 DEF InOrder
  <2>7. Place(c) = taken
    <3>1. Place(c) = Cell(N, 0) + End(N) - 1
      BY <2>4, <2>5 DEF Place
    <3>2. Cell(N, 0) + End(N) = taken + 1
      BY <1>1, <2>1 DEF Consecutive
    <3> QED BY <2>3, <3>1, <3>2
  <2>8. Place(cursor) = taken
    BY <1>2, <1>6 DEF Place
  <2> QED BY <1>1, <2>2, <2>4, <2>5, <2>6, <2>7, <2>8 DEF Spans
<1>7. Place(fieldStart) \in Nat
  BY <1>1, PlaceInChunk
<1> QED BY <1>1, <1>4, <1>5, <1>6, <1>7

\* A row that has an error keeps the fields it has; so does one between rows.
LEMMA StopInv ==
  ASSUME RowInv, IInv', OneAhead', Keeps, saved' = saved, ~rowInUse,
         state' \in {"leading", "error", "EOF"},
         state' # "error" => fields = <<>>,
         UNCHANGED <<fields, rowInUse>>
  PROVE  RowInv'
<1>1. FieldsHeld'
  BY FieldsKept DEF RowInv
<1>2. RowTypeOK'
  BY DEF RowInv, RowTypeOK, RowStates
<1>3. OutEndsHere' /\ NoRowNoFields' /\ ~Open'
  BY DEF OutEndsHere, NoRowNoFields, Open
<1> QED BY <1>1, <1>2, <1>3 DEF RowInv

LEMMA SkipBlankLineInv ==
  ASSUME RowInv, SkipBlankLine
  PROVE  RowInv'
<1>1. state = "leading" /\ ~rowInUse /\ ReadByte /\ UNCHANGED <<state, fields, rowInUse>>
  BY DEF SkipBlankLine, Scanning, rowVars
<1>2. fields = <<>>
  BY <1>1 DEF RowInv, NoRowNoFields
<1>3. IInv' /\ OneAhead' /\ Keeps /\ saved' = saved
  BY <1>1, ReadByteRows DEF RowInv, OneAhead
<1> QED BY <1>1, <1>2, <1>3, StopInv

\* The end of a row: the last field is emitted, and the cursor noted.
LEMMA FinishInv ==
  ASSUME RowInv, IInv', saved' = saved, UNCHANGED <<taken, mem, chunks>>,
         Len(chunks') <= Here'.chunk + 1,
         NEW s, NEW e, Spans(s, e), fields' = Append(fields, RawField(s, e)), FinishRow
  PROVE  RowInv'
<1>1. fields' \in Seq(RawFields) /\ FieldsHeld'
  BY EmitFields DEF RowInv
<1>2. RowTypeOK' /\ OneAhead' /\ OutEndsHere' /\ NoRowNoFields' /\ ~Open'
  BY <1>1 DEF FinishRow, RowTypeOK, RowStates, OneAhead, OutEndsHere, NoRowNoFields, Open
<1> QED BY <1>1, <1>2 DEF RowInv

LEMMA EndRowInv ==
  ASSUME RowInv, EndRow
  PROVE  RowInv'
<1>1. Open /\ ~rowInUse /\ ReadByte /\ EmitThen(fieldStart, Here, FinishRow)
  BY DEF EndRow, Scanning, Open
<1>2. /\ IInv' /\ OneAhead' /\ Keeps /\ UNCHANGED <<taken, mem, chunks, saved>> /\ ~Beyond(Here)
      /\ Len(chunks') <= Here'.chunk + 1
  BY <1>1, ReadByteRows DEF RowInv, OneAhead
<1>3. CASE Fits(fieldStart, Here)
  <2>1. fields' = Append(fields, RawField(fieldStart, Here)) /\ FinishRow
    BY <1>1, <1>3 DEF EmitThen
  <2>2. Spans(fieldStart, Here)
    BY <1>1, <1>2, OpenSpan
  <2> QED BY <1>2, <2>1, <2>2, FinishInv
<1>4. CASE ~Fits(fieldStart, Here)
  <2>1. state' = "error" /\ UNCHANGED <<fields, rowInUse>>
    BY <1>1, <1>4 DEF EmitThen
  <2> QED BY <1>1, <1>2, <2>1, StopInv
<1> QED BY <1>3, <1>4

LEMMA EndOfInputInv ==
  ASSUME RowInv, EndOfInput
  PROVE  RowInv'
<1>1. ~rowInUse /\ ReadEOF
  BY DEF EndOfInput
<1>2. /\ IInv' /\ OneAhead' /\ Keeps /\ UNCHANGED <<taken, mem, chunks, saved>> /\ Beyond(Here)
      /\ Len(chunks') <= Here'.chunk + 1
  BY <1>1, ReadEOFRows DEF RowInv, OneAhead
<1>3. CASE state = "leading" /\ state' = "EOF" /\ UNCHANGED <<fields, fieldStart, rowInUse, releaseCursor>>
  <2>1. fields = <<>>
    BY <1>1, <1>3 DEF RowInv, NoRowNoFields
  <2> QED BY <1>1, <1>2, <1>3, <2>1, StopInv
<1>4. CASE Open /\ EmitThen(fieldStart, ClampCursor(Here), FinishRow)
  <2>1. CASE Fits(fieldStart, ClampCursor(Here))
    <3>1. fields' = Append(fields, RawField(fieldStart, ClampCursor(Here))) /\ FinishRow
      BY <1>4, <2>1 DEF EmitThen
    <3>2. Spans(fieldStart, ClampCursor(Here))
      BY <1>2, <1>4, OpenSpan
    <3> QED BY <1>2, <3>1, <3>2, FinishInv
  <2>2. CASE ~Fits(fieldStart, ClampCursor(Here))
    <3>1. state' = "error" /\ UNCHANGED <<fields, rowInUse>>
      BY <1>4, <2>2 DEF EmitThen
    <3> QED BY <1>1, <1>2, <3>1, StopInv
  <2> QED BY <2>1, <2>2
<1> QED BY <1>3, <1>4 DEF EndOfInput, Open

LEMMA ReaderFailsInv ==
  ASSUME RowInv, ReaderFails
  PROVE  RowInv'
<1>1. ~rowInUse /\ ReadError /\ state' = "error" /\ UNCHANGED <<fields, rowInUse>>
  BY DEF ReaderFails
<1>2. IInv' /\ OneAhead' /\ Keeps /\ saved' = saved
  BY <1>1, ReadErrorRows DEF RowInv
<1> QED BY <1>1, <1>2, StopInv

\* RowSoFar after a step, from the values it is about.
LEMMA SoFarThen ==
  ASSUME input' = input, NEW L \in Nat, NEW P \in Nat, NEW a, NEW T,
         LineStart' = L, Place(cursor)' = P, Texts' = T, Place(fieldStart)' = a,
         Append(T, Run(a, P)) = Rows!Cut(L, P), L < P,
         \A i \in (L + 1)..P : input[i] \notin {CR, LF}, LimitKept'
  PROVE  RowSoFar'
<1>1. \A l, p : Rows!Cut(l, p)' = Rows!Cut(l, p)
  BY DEF Rows!Cut
<1>2. Append(Texts, Run(Place(fieldStart), Place(cursor)))' = Append(T, Run(a, P))
  BY DEF Run
<1>3. Rows!Cut(LineStart, Place(cursor))' = Rows!Cut(L, P)
  BY <1>1
<1> QED BY <1>2, <1>3 DEF RowSoFar

\* What the open line says of its cursors, for lemmas about numbers.
LEMMA OpenLine ==
  ASSUME RowInv, Open
  PROVE  /\ LineStart \in Nat /\ Place(cursor) \in Nat /\ Place(fieldStart) \in Nat
         /\ LineStart < Place(cursor) /\ Place(fieldStart) <= Place(cursor)
         /\ Texts \in Seq(Seq(Nat)) /\ Len(input) \in Nat /\ Place(cursor) <= Len(input)
         /\ Append(Texts, Run(Place(fieldStart), Place(cursor))) = Rows!Cut(LineStart, Place(cursor))
         /\ \A i \in (LineStart + 1)..Place(cursor) : input[i] \notin {CR, LF}
         /\ LimitKept
         /\ fields = <<>> => LineStart = Place(fieldStart)
         /\ fields # <<>> => LineStart = Place(StartOf(fields[1])) /\ 1 \in DOMAIN fields
<1>1. RowSoFar /\ IInv /\ BufferTypeOK /\ Consecutive /\ RowTypeOK /\ FieldsHeld
  BY DEF RowInv, IInv
<1>2. Place(cursor) \in Nat /\ Place(cursor) <= taken /\ taken \in Nat
  BY <1>1, CursorTypes, PlaceProperties DEF IInv
<1>3. taken <= Len(input) /\ Len(input) \in Nat
  <2>1. Len(input) \in Nat /\ taken \in 0..Len(input)
    BY <1>1, InputType DEF BufferTypeOK
  <2> QED BY <2>1
<1>4. Place(cursor) <= Len(input)
  BY <1>2, <1>3
<1>5. Texts \in Seq(Seq(Nat)) /\ (fields # <<>> => 1 \in DOMAIN fields)
  BY <1>1, TextsType
<1>6. Place(fieldStart) \in Nat /\ Place(fieldStart) <= Place(cursor)
  BY OpenSpan
<1>7. fields = <<>> => LineStart = Place(fieldStart)
  BY DEF LineStart, Open
<1>8. fields # <<>> => LineStart = Place(StartOf(fields[1]))
  BY DEF LineStart
<1> QED BY <1>1, <1>2, <1>3, <1>4, <1>5, <1>6, <1>7, <1>8 DEF RowSoFar

\* The open row goes on.
LEMMA OpenThen ==
  ASSUME RowInv, IInv', OneAhead', saved' = saved, ~rowInUse, rowInUse' = rowInUse,
         fields' \in Seq(RawFields), FieldsHeld',
         state' \in {"Outside", "InUnquoted"}, FieldOpen', RowSoFar'
  PROVE  RowInv'
<1>1. RowTypeOK' /\ OutEndsHere' /\ NoRowNoFields'
  BY DEF RowInv, RowTypeOK, RowStates, OutEndsHere, NoRowNoFields
<1> QED BY <1>1 DEF RowInv

\* A comma ends the field that began at s.
LEMMA CommaInv ==
  ASSUME RowInv, ~rowInUse, ReadByte, Value = Comma,
         NEW s, Spans(s, Here), NEW L \in Nat, NEW P \in Nat, NEW a \in Nat,
         P = Place(cursor), a = Place(s), L <= P, a <= P,
         L = IF fields = <<>> THEN a ELSE Place(StartOf(fields[1])),
         Append(Texts, Run(a, P)) = Rows!Cut(L, P), LimitKept,
         \A i \in (L + 1)..P : input[i] \notin {CR, LF},
         Fits(s, Here), EmitThen(s, Here, Goto("Outside"))
  PROVE  RowInv' /\ LineStart' = L
<1>1. /\ fields' = Append(fields, RawField(s, Here)) /\ fieldStart' = cursor'
      /\ state' = "Outside" /\ UNCHANGED rowInUse
  BY DEF EmitThen, Goto
<1>2. /\ IInv' /\ OneAhead' /\ Keeps /\ UNCHANGED <<input, taken, mem, chunks, saved>>
      /\ P < Len(input) /\ Place(Here) = P
      /\ Place(cursor)' = P + 1 /\ input[P + 1] = Comma
      /\ Comma \notin {CR, LF} /\ ~Beyond(cursor)'
  <2>1. Comma # LF
    BY RowAssumption
  <2> QED BY <2>1, ReadByteRows DEF RowInv, OneAhead
<1>3. Texts \in Seq(Seq(Nat)) /\ Len(input) \in Nat
  BY TextsType, InputType DEF RowInv, IInv, BufferTypeOK
<1>4. PICK T : T = Texts
  OBVIOUS
<1>5. /\ fields' \in Seq(RawFields) /\ fields' # <<>> /\ FieldsHeld'
      /\ Texts' = Append(T, Run(a, P)) /\ LimitKept'
      /\ Place(StartOf(fields[1]))' = L
  BY <1>1, <1>2, <1>4, EmitFields DEF RowInv
<1>6. Rows!Cut(L, P + 1) = Append(Append(T, Run(a, P)), Run(P + 1, P + 1))
  BY <1>2, <1>3, <1>4, LineGrows
<1>7. P + 1 \in Nat /\ L < P + 1 /\ \A i \in (L + 1)..(P + 1) : i \in (L + 1)..P \/ i = P + 1
  OBVIOUS
<1>8. LineStart' = L /\ Place(cursor)' = P + 1 /\ Place(fieldStart)' = P + 1
  BY <1>1, <1>2, <1>5 DEF LineStart
<1>9. \A i \in (L + 1)..(P + 1) : input[i] \notin {CR, LF}
  BY <1>2, <1>7
<1>10. RowSoFar'
  BY <1>2, <1>5, <1>6, <1>7, <1>8, <1>9, SoFarThen
<1>11. FieldOpen'
  <2>1. cursor' \in Cursor' /\ Within(cursor)'
    BY <1>2 DEF IInv, BufferTypeOK
  <2>2. cursor'.chunk \in Nat /\ cursor'.offset \in Nat
    BY <2>1, ChunkAssumption DEF Cursor
  <2>3. InOrder(cursor', cursor')
    BY <2>2 DEF InOrder
  <2>4. P + 1 <= P + 1
    OBVIOUS
  <2> QED BY <1>1, <1>2, <1>5, <1>8, <2>1, <2>3, <2>4 DEF FieldOpen, InOrder
<1> QED BY <1>1, <1>2, <1>5, <1>8, <1>10, <1>11, OpenThen

LEMMA DelimiterInv ==
  ASSUME RowInv, Delimiter
  PROVE  RowInv' /\ (state' # "error" => LineStart' = LineStart)
<1>1. Open /\ ~rowInUse /\ ReadByte /\ Value = Comma /\ EmitThen(fieldStart, Here, Goto("Outside"))
  BY DEF Delimiter, Scanning, Open
<1>2. IInv' /\ OneAhead' /\ Keeps /\ UNCHANGED saved /\ ~Beyond(Here)
  BY <1>1, ReadByteRows DEF RowInv, OneAhead
<1>3. CASE ~Fits(fieldStart, Here)
  <2>1. state' = "error" /\ UNCHANGED <<fields, rowInUse>>
    BY <1>1, <1>3 DEF EmitThen
  <2> QED BY <1>1, <1>2, <2>1, StopInv
<1>4. CASE Fits(fieldStart, Here)
  <2>1. Spans(fieldStart, Here)
    BY <1>1, <1>2, OpenSpan
  <2>2. PICK L, P, a : L = LineStart /\ P = Place(cursor) /\ a = Place(fieldStart)
    OBVIOUS
  <2>3. /\ L \in Nat /\ P \in Nat /\ a \in Nat /\ L < P /\ a <= P
        /\ Append(Texts, Run(a, P)) = Rows!Cut(L, P)
        /\ \A i \in (L + 1)..P : input[i] \notin {CR, LF}
        /\ LimitKept
        /\ (fields = <<>> => L = a) /\ (fields # <<>> => L = Place(StartOf(fields[1])))
    BY <1>1, <2>2, OpenLine
  <2>4. L <= P
    BY <2>3
  <2> QED BY <1>1, <1>4, <2>1, <2>2, <2>3, <2>4, CommaInv
<1> QED BY <1>3, <1>4

LEMMA FirstByteInv ==
  ASSUME RowInv, FirstByte
  PROVE  RowInv' /\ (state' # "error" => LineStart' = LineStart)
<1>1. state = "leading" /\ ~rowInUse /\ ReadByte /\ Value # LF /\ fields = <<>>
  BY DEF FirstByte, Scanning, RowInv, NoRowNoFields
<1>2. /\ IInv' /\ OneAhead' /\ Keeps /\ UNCHANGED <<input, taken, mem, chunks, saved>>
      /\ Here \in Cursor /\ Within(Here) /\ ~Beyond(Here) /\ Place(Here) = Place(cursor)
      /\ Place(cursor) \in Nat /\ Place(cursor) < Len(input)
      /\ cursor' = After(Here) /\ Place(cursor)' = Place(cursor) + 1
      /\ input[Place(cursor) + 1] = Value /\ Value \notin {CR, LF}
  BY <1>1, ReadByteRows DEF RowInv, OneAhead
<1>3. PICK P, c : P = Place(cursor) /\ c = Here
  OBVIOUS
<1>4. P \in Nat /\ P < Len(input) /\ P <= Len(input) /\ P <= P /\ Len(input) \in Nat
  <2>1. Len(input) \in Nat
    BY InputType DEF RowInv, IInv, BufferTypeOK
  <2> QED BY <1>2, <1>3, <2>1
<1>5. c \in Cursor /\ c.chunk \in Nat /\ c.offset \in Nat
  BY <1>2, <1>3, ChunkAssumption DEF Cursor
<1>6. Spans(c, c)
  <2>1. InOrder(c, c)
    BY <1>5 DEF InOrder
  <2> QED BY <1>2, <1>3, <2>1 DEF Spans
<1>7. LimitKept /\ Texts = <<>> /\ DOMAIN fields = {}
  <2>1. DOMAIN fields = {}
    BY <1>1
  <2>2. Texts = <<>>
    BY <1>1, TextsType DEF RowInv
  <2> QED BY <2>1, <2>2 DEF LimitKept
<1>8. Append(Texts, Run(P, P)) = Rows!Cut(P, P)
  BY <1>4, <1>7, LineBegins
<1>9. \A i \in (P + 1)..P : input[i] \notin {CR, LF}
  BY <1>4
<1> LineStart = P
  BY <1>1, <1>3 DEF LineStart
<1>10. CASE Value = Comma
  <2>1. EmitThen(Here, Here, Goto("Outside"))
    BY <1>10 DEF FirstByte
  <2>2. CASE ~Fits(Here, Here)
    <3>1. state' = "error" /\ UNCHANGED <<fields, rowInUse>>
      BY <2>1, <2>2 DEF EmitThen
    <3> QED BY <1>1, <1>2, <3>1, StopInv
  <2>3. CASE Fits(Here, Here)
    BY <1>1, <1>2, <1>3, <1>4, <1>6, <1>7, <1>8, <1>9, <1>10, <2>1, <2>3, CommaInv
  <2> QED BY <2>2, <2>3
<1>11. CASE Value # Comma
  <2>1. fieldStart' = c /\ state' = "InUnquoted" /\ UNCHANGED <<rowInUse, fields>>
    BY <1>3, <1>11 DEF FirstByte, Goto
  <2>2. FieldsHeld' /\ Texts' = <<>> /\ LimitKept'
    BY <1>2, <1>7, <2>1, FieldsKept DEF RowInv
  <2>3. c \in Cursor' /\ Within(c)' /\ ~Beyond(c)' /\ Place(c)' = P
    BY <1>2, <1>3, <1>5 DEF Keeps, Cursor
  <2>4. LineStart' = P /\ Place(fieldStart)' = P /\ Place(cursor)' = P + 1
    BY <1>1, <1>2, <1>3, <2>1, <2>3 DEF LineStart
  <2>5. Append(<<>>, Run(P, P + 1)) = Rows!Cut(P, P + 1)
    <3>1. <<>> \in Seq(Seq(Nat))
      OBVIOUS
    <3>2. input[P + 1] # Comma
      BY <1>2, <1>3, <1>11
    <3>3. Append(<<>>, Run(P, P)) = Rows!Cut(P, P)
      BY <1>7, <1>8
    <3> QED BY <1>4, <3>1, <3>2, <3>3, LineGrows
  <2>6. P < P + 1 /\ P <= P + 1 /\ P + 1 \in Nat /\ \A i \in (P + 1)..(P + 1) : i = P + 1
    BY <1>4
  <2>7. \A i \in (P + 1)..(P + 1) : input[i] \notin {CR, LF}
    BY <1>2, <1>3, <2>6
  <2>8. RowSoFar'
    BY <1>2, <1>4, <2>2, <2>4, <2>5, <2>6, <2>7, SoFarThen
  <2>9. InOrder(c, After(c)) /\ cursor' = After(c)
    <3>1. After(c) = [chunk |-> c.chunk, offset |-> c.offset + 1]
      BY <1>5 DEF After, Cursor
    <3> QED BY <1>2, <1>3, <1>5, <3>1 DEF InOrder
  <2>10. FieldOpen'
    BY <2>1, <2>3, <2>4, <2>6, <2>9 DEF FieldOpen, InOrder
  <2>11. fields' \in Seq(RawFields)
    BY <2>1 DEF RowInv, RowTypeOK
  <2> QED BY <1>1, <1>2, <2>1, <2>2, <2>4, <2>8, <2>10, <2>11, OpenThen
<1> QED BY <1>10, <1>11

LEMMA FieldByteInv ==
  ASSUME RowInv, FieldByte
  PROVE  RowInv' /\ (state' # "error" => LineStart' = LineStart)
<1>1. /\ Open /\ ~rowInUse /\ ReadByte /\ Value \notin {Comma, LF}
      /\ fieldStart' = (IF state = "Outside" THEN Here ELSE fieldStart)
      /\ state' = "InUnquoted" /\ UNCHANGED <<rowInUse, fields>>
  BY DEF FieldByte, Scanning, Open, Goto
<1>2. /\ IInv' /\ OneAhead' /\ Keeps /\ UNCHANGED <<input, taken, mem, chunks, saved>>
      /\ Here \in Cursor /\ Within(Here) /\ ~Beyond(Here) /\ Place(Here) = Place(cursor)
      /\ Place(cursor) < Len(input)
      /\ cursor' = After(Here) /\ Place(cursor)' = Place(cursor) + 1
      /\ input[Place(cursor) + 1] = Value /\ Value \notin {CR, LF}
  BY <1>1, ReadByteRows DEF RowInv, OneAhead
<1>3. PICK L, P, a, s : /\ L = LineStart /\ P = Place(cursor) /\ a = Place(fieldStart)
                        /\ s = IF state = "Outside" THEN Here ELSE fieldStart
  OBVIOUS
<1>4. /\ L \in Nat /\ P \in Nat /\ a \in Nat /\ L < P /\ a <= P /\ Texts \in Seq(Seq(Nat))
      /\ Len(input) \in Nat /\ Append(Texts, Run(a, P)) = Rows!Cut(L, P)
      /\ \A i \in (L + 1)..P : input[i] \notin {CR, LF}
      /\ LimitKept
      /\ fields = <<>> => L = a
      /\ fields # <<>> => L = Place(StartOf(fields[1])) /\ 1 \in DOMAIN fields
  BY <1>1, <1>3, OpenLine
<1>5. s \in Cursor /\ Within(s) /\ ~Beyond(s) /\ InOrder(s, Here) /\ Place(s) = a
  <2>1. CASE state = "Outside"
    <3>1. s = Here /\ a = P
      BY <1>1, <1>3, <2>1 DEF RowInv, FieldOpen
    <3>2. Here.chunk \in Nat /\ Here.offset \in Nat
      BY <1>2, ChunkAssumption DEF Cursor
    <3> QED BY <1>2, <1>3, <3>1, <3>2 DEF InOrder
  <2>2. CASE state # "Outside"
    BY <1>1, <1>3, <2>2, OpenSpan
  <2> QED BY <2>1, <2>2
<1>6. s \in Cursor' /\ Within(s)' /\ ~Beyond(s)' /\ Place(s)' = a
  BY <1>2, <1>5 DEF Keeps, Cursor
<1>7. FieldsHeld' /\ Texts' = Texts /\ LimitKept'
  BY <1>1, <1>2, <1>4, FieldsKept DEF RowInv
<1>8. fields # <<>> => Place(StartOf(fields[1]))' = L
  BY <1>1, <1>2, <1>4, FieldsKept DEF RowInv
<1>9. Place(fieldStart)' = a /\ Place(cursor)' = P + 1
  BY <1>1, <1>2, <1>3, <1>6
<1>10. LineStart' = L
  BY <1>1, <1>4, <1>8, <1>9 DEF LineStart
<1>11. P < Len(input) /\ L <= P
  BY <1>2, <1>3, <1>4
<1>12. Append(Texts, Run(a, P + 1)) = Rows!Cut(L, P + 1)
  <2>1. input[P + 1] # Comma
    BY <1>1, <1>2, <1>3
  <2> QED BY <1>4, <1>11, <2>1, LineGrows
<1>13. /\ P + 1 \in Nat /\ L < P + 1 /\ a <= P + 1
       /\ \A i \in (L + 1)..(P + 1) : i \in (L + 1)..P \/ i = P + 1
  BY <1>4
<1>14. \A i \in (L + 1)..(P + 1) : input[i] \notin {CR, LF}
  BY <1>2, <1>3, <1>4, <1>13
<1>15. RowSoFar'
  BY <1>2, <1>4, <1>7, <1>9, <1>10, <1>12, <1>13, <1>14, SoFarThen
<1>16. InOrder(s, cursor')
  <2>1. PICK c : c = Here
    OBVIOUS
  <2>2. c \in Cursor /\ c.chunk \in Nat /\ c.offset \in Nat /\ s.offset \in Nat
    BY <1>2, <1>5, <2>1, ChunkAssumption DEF Cursor
  <2>3. After(c) = [chunk |-> c.chunk, offset |-> c.offset + 1]
    BY <2>2 DEF After, Cursor
  <2> QED BY <1>2, <1>5, <2>1, <2>2, <2>3 DEF InOrder
<1>17. FieldOpen'
  BY <1>1, <1>3, <1>6, <1>9, <1>13, <1>16 DEF FieldOpen, InOrder
<1>18. fields' \in Seq(RawFields)
  BY <1>1 DEF RowInv, RowTypeOK
<1> QED BY <1>1, <1>2, <1>3, <1>7, <1>10, <1>15, <1>17, <1>18, OpenThen

LEMMA FillInv ==
  ASSUME RowInv, Fill
  PROVE  RowInv' /\ (state' # "error" => LineStart' = LineStart)
<1>1. ~rowInUse /\ FillChunk /\ UNCHANGED <<state, fields, fieldStart, rowInUse>> /\ state \notin Ended
  BY DEF Fill, rowVars
<1>2. /\ IInv' /\ OneAhead' /\ Keeps /\ UNCHANGED <<input, saved>>
      /\ cursor' = Here /\ Place(cursor)' = Place(cursor)
  BY <1>1, FillRows DEF RowInv
<1>3. FieldsHeld' /\ Texts' = Texts /\ (LimitKept => LimitKept')
  BY <1>1, <1>2, FieldsKept DEF RowInv
<1>4. CASE ~Open
  <2>1. RowTypeOK' /\ OutEndsHere' /\ NoRowNoFields' /\ ~Open'
    BY <1>1, <1>4 DEF RowInv, RowTypeOK, OutEndsHere, NoRowNoFields, Open
  <2>2. state' # "error" => LineStart' = LineStart
    <3>1. state # "error" => state \in {"leading", "EOF"} /\ fields = <<>>
      BY <1>1, <1>4 DEF RowInv, RowTypeOK, RowStates, NoRowNoFields, Open
    <3> QED BY <1>1, <1>2, <3>1 DEF LineStart
  <2> QED BY <1>2, <1>3, <2>1, <2>2 DEF RowInv
<1>5. CASE Open
  <2>1. PICK L, P, a, s : L = LineStart /\ P = Place(cursor) /\ a = Place(fieldStart) /\ s = fieldStart
    OBVIOUS
  <2>2. /\ L \in Nat /\ P \in Nat /\ a \in Nat /\ L < P /\ a <= P
        /\ Append(Texts, Run(a, P)) = Rows!Cut(L, P)
        /\ \A i \in (L + 1)..P : input[i] \notin {CR, LF}
        /\ LimitKept
        /\ fields = <<>> => L = a
        /\ fields # <<>> => L = Place(StartOf(fields[1])) /\ 1 \in DOMAIN fields
    BY <1>5, <2>1, OpenLine
  <2>3. s \in Cursor /\ Within(s) /\ ~Beyond(s) /\ InOrder(s, Here)
    BY <1>5, <2>1, OpenSpan
  <2>4. s \in Cursor' /\ Within(s)' /\ ~Beyond(s)' /\ Place(s)' = a
    BY <1>2, <2>1, <2>3 DEF Keeps, Cursor
  <2>5. Place(fieldStart)' = a /\ Place(cursor)' = P
    BY <1>1, <1>2, <2>1, <2>4
  <2>6. LineStart' = L
    <3>1. fields # <<>> => Place(StartOf(fields[1]))' = L
      BY <1>1, <1>2, <2>2, FieldsKept DEF RowInv
    <3> QED BY <1>1, <1>5, <2>2, <2>5, <3>1 DEF LineStart, Open
  <2>7. RowSoFar'
    BY <1>2, <1>3, <2>2, <2>5, <2>6, SoFarThen
  <2>8. state = "Outside" => fields # <<>> /\ a = P
    BY <1>5, <2>1 DEF RowInv, FieldOpen
  <2>9. FieldOpen'
    BY <1>1, <1>2, <2>1, <2>2, <2>3, <2>4, <2>5, <2>8 DEF FieldOpen, InOrder
  <2>10. fields' \in Seq(RawFields)
    BY <1>1 DEF RowInv, RowTypeOK
  <2> QED BY <1>1, <1>2, <1>3, <1>5, <2>1, <2>6, <2>7, <2>9, <2>10, OpenThen DEF Open
<1> QED BY <1>4, <1>5

\* Release gives back everything up to the cursor: no more than the one chunk
\* read ahead can remain.
LEMMA ReleaseRowStep ==
  ASSUME RowInv, ReleaseRow
  PROVE  /\ IInv' /\ cursor' = Origin /\ Len(chunks') <= 1
         /\ Place(cursor)' = Place(cursor) /\ UNCHANGED <<input, saved, state>>
         /\ state = "leading" /\ rowInUse' = FALSE /\ fields' = <<>>
<1>1. /\ IInv /\ saved.cursor = Origin /\ releaseCursor = cursor /\ state = "leading"
      /\ Len(chunks) <= Here.chunk + 1
  BY DEF ReleaseRow, RowInv, OutEndsHere
<1>2. /\ ReleaseUpTo(cursor) /\ UNCHANGED <<state, releaseCursor, saved, got>>
      /\ rowInUse' = FALSE /\ fields' = <<>>
  BY <1>1 DEF ReleaseRow
<1>3. saved \in Places
  BY <1>1, CursorTypes
<1>4. IInv' /\ Place(cursor)' = Place(cursor)
  BY <1>1, <1>2, <1>3, ReleaseStep
<1>5. cursor' = Origin
  BY <1>1, <1>2, ReleaseShape
<1>6. PICK d \in 0..Len(chunks), off \in Nat : Shape(d, off) /\ Here.chunk <= d
  BY <1>1, <1>2, ReleaseShape
<1>7. Len(chunks) \in Nat /\ Here.chunk \in Nat
  BY <1>1, CursorTypes, ChunkType DEF IInv, Cursor
<1>8. Len(chunks') = Len(chunks) - d
  <2>1. chunks \in Seq(ChunkIds) /\ chunks' = SubSeq(chunks, d + 1, Len(chunks))
    BY <1>1, <1>6 DEF Shape, IInv, BufferTypeOK
  <2> QED BY <2>1, DropProperties
<1>9. Len(chunks') <= 1
  BY <1>1, <1>6, <1>7, <1>8
<1> QED BY <1>1, <1>2, <1>4, <1>5, <1>9 DEF ReleaseUpTo

LEMMA ReleaseRowInv ==
  ASSUME RowInv, ReleaseRow
  PROVE  RowInv'
<1>1. /\ IInv' /\ cursor' = Origin /\ Len(chunks') <= 1 /\ UNCHANGED <<saved, state>>
      /\ state = "leading" /\ rowInUse' = FALSE /\ fields' = <<>>
  BY ReleaseRowStep
<1>2. OneAhead'
  <2>1. Here'.chunk = 0 \/ Here'.chunk = 1
    BY <1>1 DEF Here, Settle, NextChunk, Origin
  <2>2. Len(chunks') \in Nat
    BY <1>1, LenProperties DEF IInv, BufferTypeOK
  <2>3. Len(chunks') <= Here'.chunk + 1
    BY <1>1, <2>1, <2>2
  <2> QED BY <2>3 DEF OneAhead
<1>3. RowTypeOK' /\ FieldsHeld' /\ OutEndsHere' /\ NoRowNoFields' /\ ~Open'
  <2>1. DOMAIN fields' = {} /\ fields' \in Seq(RawFields)
    BY <1>1
  <2>2. FieldsHeld'
    BY <2>1 DEF FieldsHeld
  <2> QED BY <1>1, <2>1, <2>2 DEF RowTypeOK, RowStates, OutEndsHere, NoRowNoFields, Open
<1>4. saved'.cursor = Origin
  BY <1>1 DEF RowInv
<1> QED BY <1>1, <1>2, <1>3, <1>4 DEF RowInv

LEMMA InitRowInv ==
  ASSUME ReadersInit
  PROVE  RowInv
<1>1. /\ BufferInit /\ state = "leading" /\ fields = <<>> /\ rowInUse = FALSE
  BY DEF ReadersInit, RowInit
<1>2. IInv
  BY <1>1, InitIInv
<1>3. saved.cursor = Origin /\ chunks = <<>>
  BY <1>1 DEF BufferInit
<1>4. OneAhead
  <2>1. Here.chunk \in Nat
    BY <1>2, CursorTypes DEF Cursor
  <2> QED BY <1>3, <2>1 DEF OneAhead
<1>5. RowTypeOK /\ FieldsHeld /\ OutEndsHere /\ NoRowNoFields /\ ~Open
  <2>1. DOMAIN fields = {} /\ fields \in Seq(RawFields)
    BY <1>1
  <2>2. FieldsHeld
    BY <2>1 DEF FieldsHeld
  <2> QED BY <1>1, <2>1, <2>2 DEF RowTypeOK, RowStates, OutEndsHere, NoRowNoFields, Open
<1> QED BY <1>2, <1>3, <1>4, <1>5 DEF RowInv

LEMMA StutterRowInv ==
  ASSUME RowInv, UNCHANGED csvVars
  PROVE  RowInv' /\ LineStart' = LineStart /\ Place(cursor)' = Place(cursor) /\ Texts' = Texts
<1>1. /\ UNCHANGED bufferVars /\ UNCHANGED <<taken, mem, chunks, saved, cursor, input>>
      /\ UNCHANGED <<state, fields, fieldStart, rowInUse, releaseCursor>>
  BY DEF csvVars, bufferVars, rowVars
<1>2. IInv'
  BY <1>1, StutterIInv DEF RowInv
<1>3. Keeps /\ \A c : /\ Settle(c)' = Settle(c) /\ Place(c)' = Place(c)
                      /\ (Within(c)' <=> Within(c)) /\ (Beyond(c)' <=> Beyond(c))
                      /\ (Exhausted(c)' <=> Exhausted(c))
  BY <1>1, SameMemoryKeeps
<1>4. FieldsHeld' /\ Texts' = Texts /\ (LimitKept => LimitKept')
  BY <1>1, <1>3, FieldsKept DEF RowInv
<1>5. Here' = Here
  BY <1>1, <1>3 DEF Here
<1>6. OneAhead' /\ OutEndsHere'
  BY <1>1, <1>3, <1>5 DEF RowInv, OneAhead, OutEndsHere, After
<1>7. RowTypeOK' /\ NoRowNoFields' /\ (Open' <=> Open)
  BY <1>1 DEF RowInv, RowTypeOK, NoRowNoFields, Open
<1>8. Open => FieldOpen'
  BY <1>1, <1>3 DEF RowInv, FieldOpen, InOrder, Cursor
<1>9. LineStart' = LineStart
  <2>1. \A f : Place(StartOf(f))' = Place(StartOf(f))
    BY <1>3 DEF StartOf
  <2> QED BY <1>1, <1>3, <2>1 DEF LineStart, StartOf
<1>10. ASSUME Open PROVE RowSoFar'
  <2>1. PICK L, P, a : L = LineStart /\ P = Place(cursor) /\ a = Place(fieldStart)
    OBVIOUS
  <2>2. /\ L \in Nat /\ P \in Nat /\ L < P
        /\ Append(Texts, Run(a, P)) = Rows!Cut(L, P)
        /\ \A i \in (L + 1)..P : input[i] \notin {CR, LF}
        /\ LimitKept
    BY <1>10, <2>1, OpenLine
  <2>3. Place(cursor)' = P /\ Place(fieldStart)' = a
    BY <1>1, <1>3, <2>1
  <2>4. LineStart' = L
    BY <1>9, <2>1
  <2> QED BY <1>1, <1>4, <2>1, <2>2, <2>3, <2>4, SoFarThen
<1> QED BY <1>1, <1>2, <1>3, <1>4, <1>6, <1>7, <1>8, <1>10, <1>9 DEF RowInv

LEMMA NextRowInv ==
  ASSUME RowInv, [ReadersNext]_readerVars
  PROVE  RowInv'
<1>1. CASE AskForRow
  <2>1. \/ SkipBlankLine \/ FirstByte \/ Delimiter \/ EndRow \/ FieldByte
        \/ EndOfInput \/ Fill \/ ReaderFails
    BY <1>1 DEF AskForRow, ScanStep
  <2> QED BY <2>1, SkipBlankLineInv, FirstByteInv, DelimiterInv, EndRowInv, FieldByteInv,
             EndOfInputInv, FillInv, ReaderFailsInv
<1>2. CASE TakeSlices \/ ReadSlices
  <2>1. UNCHANGED csvVars
    BY <1>2 DEF TakeSlices, ReadSlices
  <2> QED BY <2>1, StutterRowInv
<1>3. CASE GiveBack
  BY <1>3, ReleaseRowInv DEF GiveBack
<1>4. CASE UNCHANGED readerVars
  BY <1>4, StutterRowInv DEF readerVars
<1> QED BY <1>1, <1>2, <1>3, <1>4 DEF ReadersNext

-----------------------------------------------------------------------------
(* The theorems.                                                           *)

\* The invariant holds in every reachable state of every caller: the buffer's
\* own invariant, where a row's fields lie, how far the buffer reads ahead and
\* what the open row says of the line.
THEOREM RowInvariant == ReadersSpec => []RowInv
<1>1. ReadersInit => RowInv
  BY InitRowInv
<1>2. RowInv /\ [ReadersNext]_readerVars => RowInv'
  BY NextRowInv
<1> QED BY <1>1, <1>2, PTL DEF ReadersSpec

\* Every segment of every field of a row lies in a chunk the buffer owns and
\* below that chunk's fill mark: Bytes never indexes past a chunk.
LEMMA HeldInBounds ==
  ASSUME RowInv
  PROVE  FieldsInBounds
<1>1. SUFFICES ASSUME NEW f, Held(f),
                      NEW g \in {[chunk |-> f.firstChunk, lo |-> f.firstStart, hi |-> f.firstEnd]}
                                  \cup {f.extra[i] : i \in DOMAIN f.extra}
               PROVE  /\ g.chunk < Len(chunks)
                      /\ g.lo <= g.hi
                      /\ g.hi <= mem[chunks[g.chunk + 1]].end
  BY DEF FieldsInBounds, RowInv, FieldsHeld
<1>2. PICK s, e : s = StartOf(f) /\ e = EndOf(f)
  OBVIOUS
<1>3. Spans(s, e) /\ f = RawField(s, e) /\ BufferTypeOK /\ Consecutive
  BY <1>1, <1>2 DEF Held, RowInv, IInv
<1>4. PICK m : m = e.chunk - s.chunk
  OBVIOUS
<1>5. /\ s.chunk \in Nat /\ e.chunk \in Nat /\ Len(chunks) \in Nat /\ m \in Nat
      /\ s.chunk <= e.chunk /\ e.chunk < Len(chunks)
  BY <1>3, <1>4, SpanProperties, ChunkType
<1>6. /\ f.firstChunk = s.chunk /\ f.firstStart = s.offset /\ f.firstEnd = SegmentEnd(s, e, 0)
      /\ DOMAIN f.extra = 1..m
      /\ \A n \in 1..m : f.extra[n] = [chunk |-> s.chunk + n, lo |-> 0, hi |-> SegmentEnd(s, e, n)]
  BY <1>3, <1>4, RawFieldShape
<1>7. \A n \in 0..m :
        /\ SegmentEnd(s, e, n) \in 0..End(s.chunk + n + 1)
        /\ End(s.chunk + n + 1) \in Nat
        /\ n = 0 => s.offset \in 0..SegmentEnd(s, e, n)
  BY <1>3, <1>4, SegmentProperties
<1>8. PICK n \in 0..m : /\ g.chunk = s.chunk + n /\ g.hi = SegmentEnd(s, e, n)
                        /\ g.lo \in 0..g.hi
  <2>1. CASE g = [chunk |-> f.firstChunk, lo |-> f.firstStart, hi |-> f.firstEnd]
    <3>1. g.chunk = s.chunk /\ g.lo = s.offset /\ g.hi = SegmentEnd(s, e, 0)
      BY <1>6, <2>1
    <3>2. 0 \in 0..m /\ s.chunk + 0 = s.chunk
      BY <1>5
    <3>3. s.offset \in 0..SegmentEnd(s, e, 0)
      BY <1>7, <3>2
    <3> QED BY <3>1, <3>2, <3>3
  <2>2. CASE \E i \in 1..m : g = f.extra[i]
    <3>1. PICK i \in 1..m : g = f.extra[i]
      BY <2>2
    <3>2. g.chunk = s.chunk + i /\ g.lo = 0 /\ g.hi = SegmentEnd(s, e, i)
      <4>1. PICK h : h = SegmentEnd(s, e, i)
        OBVIOUS
      <4>2. g = [chunk |-> s.chunk + i, lo |-> 0, hi |-> h]
        BY <1>6, <3>1, <4>1
      <4> QED BY <4>1, <4>2
    <3>3. i \in 0..m
      BY <1>5
    <3>4. 0 \in 0..SegmentEnd(s, e, i)
      BY <1>7, <3>3
    <3> QED BY <3>2, <3>3, <3>4
  <2> QED BY <1>1, <1>6, <2>1, <2>2
<1>9. g.hi \in 0..End(g.chunk + 1) /\ End(g.chunk + 1) \in Nat
  BY <1>7, <1>8
<1>10. g.chunk < Len(chunks)
  BY <1>4, <1>5, <1>8
<1>11. g.lo <= g.hi /\ g.hi <= End(g.chunk + 1)
  BY <1>8, <1>9
<1> QED BY <1>10, <1>11 DEF End

\* Bytes never indexes past a chunk: whatever the input, the chunk size and the
\* cuts of the reader, each segment of each field of a row lies in a chunk the
\* buffer still owns and below its fill mark.
THEOREM FieldsLieInBounds == ReadersSpec => []FieldsInBounds
<1>1. RowInv => FieldsInBounds
  BY HeldInBounds
<1> QED BY <1>1, RowInvariant, PTL

\* Memory does not grow with the number of rows: after RawRow.Release the
\* buffer holds one chunk at most, the one read ahead behind a CR.
THEOREM ReleaseBoundsMemory == ReadersSpec => ReleasedMemoryBounded
<1>1. RowInv /\ [ReadersNext]_readerVars => [ReleaseRow => Len(chunks') <= 1]_csvVars
  BY ReleaseRowStep
<1> QED BY <1>1, RowInvariant, PTL DEF ReadersSpec, ReleasedMemoryBounded

-----------------------------------------------------------------------------
(* What the callers see.                                                   *)

\* The slice Bytes returns, or the copy, shows the field's bytes.
LEMMA SliceShowsField ==
  ASSUME RowInv, NEW f, Held(f)
  PROVE  ReadThrough(SliceOf(f)) = FieldCells(f)
<1>1. CASE f.extra # <<>>
  BY <1>1 DEF SliceOf, ReadThrough
<1>2. CASE f.extra = <<>>
  <2>1. PICK s, e : s = StartOf(f) /\ e = EndOf(f)
    OBVIOUS
  <2>2. Spans(s, e) /\ f = RawField(s, e) /\ BufferTypeOK /\ Consecutive
    BY <1>2, <2>1 DEF Held, RowInv, IInv
  <2>3. /\ f.firstChunk = s.chunk /\ f.firstStart = s.offset /\ f.firstEnd = SegmentEnd(s, e, 0)
        /\ e.chunk - s.chunk = 0
    BY <1>2, <2>2, RawFieldShape
  <2>4. /\ s.chunk \in Nat /\ e.chunk \in Nat /\ s.chunk + 1 \in 1..Len(chunks)
    <3>1. s.chunk \in Nat /\ e.chunk \in Nat /\ s.chunk < Len(chunks)
      BY <2>2, <2>3, SpanProperties
    <3>2. Len(chunks) \in Nat
      BY <2>2, ChunkType
    <3> QED BY <3>1, <3>2
  <2>5. s.chunk + 0 + 1 = s.chunk + 1 /\ 0 \in 0..(e.chunk - s.chunk) /\ 0 = e.chunk - s.chunk
    BY <2>3, <2>4
  <2>6. PICK k, lo, hi : k = s.chunk + 1 /\ lo = s.offset /\ hi = SegmentEnd(s, e, 0)
    OBVIOUS
  <2>7. /\ k \in 1..Len(chunks) /\ hi \in 0..End(k) /\ lo \in 0..hi
        /\ Place(s) = Before(k) + lo /\ Place(e) = Before(k) + hi
    <3>1. Stops(s, e, 0) = Place(e)
      BY <2>5 DEF Stops
    <3> QED BY <2>2, <2>4, <2>5, <2>6, <3>1, SegmentProperties
  <2>8. Cells(k, lo, hi) = Run(Place(s), Place(e))
    BY <2>2, <2>7, CellsAreRun
  <2>9. ReadThrough(SliceOf(f)) = Cells(k, lo, hi)
    <3>1. SliceOf(f) = [chunk |-> chunks[k], lo |-> lo, hi |-> hi]
      BY <1>2, <2>3, <2>6 DEF SliceOf
    <3>2. ReadThrough([chunk |-> chunks[k], lo |-> lo, hi |-> hi])
            = [i \in 1..(hi - lo) |-> mem[chunks[k]].data[lo + i - 1]]
      BY DEF ReadThrough
    <3> QED BY <3>1, <3>2 DEF Cells
  <2>10. FieldCells(f) = Run(Place(s), Place(e))
    BY <2>2, FieldIsRun
  <2> QED BY <2>8, <2>9, <2>10
<1> QED BY <1>1, <1>2

\* What a caller holds that gives its row back last.
SeesRow ==
  /\ todo \in {<<>>, <<"take", "read", "release">>, <<"read", "release">>, <<"release">>}
  /\ todo = <<"read", "release">> =>
       /\ slices = [k \in DOMAIN fields |-> SliceOf(fields[k])]
       /\ delivered = [k \in DOMAIN fields |-> FieldCells(fields[k])]
  /\ seen # <<>> => seen = delivered

\* What Do makes of each list.
LEMMA DoProperties ==
  /\ Head(<<"take", "read", "release">>) = "take"
  /\ Tail(<<"take", "read", "release">>) = <<"read", "release">>
  /\ Head(<<"read", "release">>) = "read"
  /\ Tail(<<"read", "release">>) = <<"release">>
  /\ Head(<<"release">>) = "release"
  /\ Tail(<<"release">>) = <<>>
<1>1. /\ Head(<<"take", "read", "release">>) = "take"
      /\ Head(<<"read", "release">>) = "read"
      /\ Head(<<"release">>) = "release"
  OBVIOUS
<1>2. Tail(<<"take", "read", "release">>) = <<"read", "release">>
  OBVIOUS
<1>3. Tail(<<"read", "release">>) = <<"release">>
  OBVIOUS
<1>4. Tail(<<"release">>) = <<>>
  OBVIOUS
<1> QED BY <1>1, <1>2, <1>3, <1>4

LEMMA SeesRowStep ==
  ASSUME Caller # "SdkValidator", RowInv, SeesRow, [ReadersNext]_readerVars
  PROVE  SeesRow'
<1>1. CASE AskForRow
  <2>1. /\ todo' \in {<<>>, <<"take", "read", "release">>}
        /\ UNCHANGED <<slices, delivered, seen>>
    BY <1>1 DEF AskForRow, HandlingOrder
  <2> QED BY <2>1 DEF SeesRow
<1>2. CASE TakeSlices
  <2>1. todo = <<"take", "read", "release">> /\ todo' = <<"read", "release">>
    BY <1>2, DoProperties DEF TakeSlices, Do, SeesRow
  <2>2. /\ slices' = [k \in DOMAIN fields |-> SliceOf(fields[k])]
        /\ delivered' = [k \in DOMAIN fields |-> FieldCells(fields[k])]
        /\ seen' = <<>> /\ UNCHANGED <<mem, chunks, fields>>
    BY <1>2 DEF TakeSlices, csvVars, bufferVars, rowVars
  <2>3. \A f : SliceOf(f)' = SliceOf(f) /\ FieldCells(f)' = FieldCells(f)
    <3>1. UNCHANGED <<mem, chunks>>
      BY <2>2
    <3> QED BY ONLY <3>1 DEF SliceOf, FieldCells, Cells
  <2> QED BY <2>1, <2>2, <2>3 DEF SeesRow
<1>3. CASE ReadSlices
  <2>1. todo = <<"read", "release">> /\ todo' = <<"release">>
    BY <1>3, DoProperties DEF ReadSlices, Do, SeesRow
  <2>2. seen' = [k \in DOMAIN slices |-> ReadThrough(slices[k])] /\ UNCHANGED delivered
    BY <1>3 DEF ReadSlices
  <2>3. DOMAIN slices = DOMAIN fields /\ \A k \in DOMAIN fields : slices[k] = SliceOf(fields[k])
    BY <2>1 DEF SeesRow
  <2>4. \A k \in DOMAIN fields : ReadThrough(slices[k]) = FieldCells(fields[k])
    BY <2>3, SliceShowsField DEF RowInv, FieldsHeld
  <2>5. seen' = delivered
    BY <2>1, <2>2, <2>3, <2>4 DEF SeesRow
  <2> QED BY <2>1, <2>2, <2>5 DEF SeesRow
<1>4. CASE GiveBack
  <2>1. todo = <<"release">> /\ todo' = <<>> /\ UNCHANGED <<slices, delivered, seen>>
    BY <1>4, DoProperties DEF GiveBack, Do, SeesRow
  <2> QED BY <2>1 DEF SeesRow
<1>5. CASE UNCHANGED readerVars
  <2>1. UNCHANGED <<mem, chunks, fields, todo, slices, delivered, seen>>
    BY <1>5 DEF readerVars, callerVars, csvVars, bufferVars, rowVars
  <2>2. \A f : SliceOf(f)' = SliceOf(f) /\ FieldCells(f)' = FieldCells(f)
    <3>1. UNCHANGED <<mem, chunks>>
      BY <2>1
    <3> QED BY ONLY <3>1 DEF SliceOf, FieldCells, Cells
  <2> QED BY <2>1, <2>2 DEF SeesRow
<1> QED BY <1>1, <1>2, <1>3, <1>4, <1>5 DEF ReadersNext

\* A caller that reads its slices for the last time before it releases the row
\* reads the bytes of the row it was given: the file validator, the file
\* decoder and the SDK decoder do, the SDK validator does not.
THEOREM CallersSeeTheirRow ==
  ASSUME Caller # "SdkValidator"
  PROVE  ReadersSpec => []SeenAsDelivered
<1>1. ReadersInit => SeesRow
  BY DEF ReadersInit, SeesRow
<1>2. RowInv /\ SeesRow /\ [ReadersNext]_readerVars => SeesRow'
  BY SeesRowStep
<1>3. SeesRow => SeenAsDelivered
  BY DEF SeesRow, SeenAsDelivered
<1> QED BY <1>1, <1>2, <1>3, RowInvariant, PTL DEF ReadersSpec

-----------------------------------------------------------------------------
(* The refinement: between rows the position in RowStream is where the     *)
(* line starts, with a row out it is the place of the cursor.              *)

\* The fields so far, looked up in memory, and the positions, in terms of
\* places.
Lines == /\ [k \in DOMAIN fields |-> FieldCells(fields[k])] = Texts
         /\ PositionOf(Here) = Place(cursor)
         /\ state # "error" /\ ~rowInUse => PositionOf(RowStart) = LineStart

LEMMA LinesHold ==
  ASSUME RowInv
  PROVE  Lines
<1>1. \A k \in DOMAIN fields : FieldCells(fields[k]) = RunOf(fields[k])
  BY HeldEnds DEF RowInv, FieldsHeld
<1>2. PositionOf(Here) = Place(cursor)
  BY PositionIsPlace DEF RowInv
<1>3. ASSUME NEW STATE c, c \in Cursor, Within(c)
      PROVE  PositionOf(c) = Place(c)
  <2>1. /\ Place(c) \in Nat /\ Place(c) <= taken /\ taken \in Nat
        /\ Ahead(c) = Run(Place(c), taken)
    BY <1>3, PlaceProperties DEF RowInv, IInv
  <2>2. Len(Run(Place(c), taken)) = taken - Place(c)
    BY <2>1, RunProperties
  <2> QED BY <2>1, <2>2 DEF PositionOf
<1>4. ASSUME state # "error", ~rowInUse
      PROVE  PositionOf(RowStart) = LineStart
  <2>1. CASE fields # <<>>
    <3>1. RowStart = StartOf(fields[1])
      BY <2>1 DEF RowStart, StartOf
    <3>2. 1 \in DOMAIN fields
      BY <2>1, TextsType DEF RowInv
    <3>3. StartOf(fields[1]) \in Cursor /\ Within(StartOf(fields[1]))
      BY <3>2, HeldEnds DEF RowInv, FieldsHeld
    <3>4. RowStart \in Cursor /\ Within(RowStart) /\ Place(RowStart) = LineStart
      BY <2>1, <3>1, <3>3 DEF LineStart
    <3> QED BY <1>3, <3>4
  <2>2. CASE fields = <<>> /\ state \in {"leading", "EOF"}
    <3>1. RowStart = Here /\ LineStart = Place(cursor)
      BY <2>2 DEF RowStart, LineStart
    <3> QED BY <1>2, <3>1
  <2>3. CASE fields = <<>> /\ state \notin {"leading", "EOF"}
    <3>1. Open
      BY <1>4, <2>3 DEF RowInv, RowTypeOK, RowStates, Open
    <3>2. RowStart = fieldStart /\ LineStart = Place(fieldStart)
      BY <2>3 DEF RowStart, LineStart
    <3>3. fieldStart \in Cursor /\ Within(fieldStart)
      BY <3>1, OpenSpan
    <3>4. RowStart \in Cursor /\ Within(RowStart)
      BY <3>2, <3>3
    <3> QED BY <1>3, <3>2, <3>4
  <2> QED BY <2>1, <2>2, <2>3
<1> QED BY <1>1, <1>2, <1>4 DEF Lines, Texts

\* The line ends at the first line break, or where the input does.
LEMMA LineEndsHere ==
  ASSUME NEW L \in Nat, NEW P \in Nat, L <= P, Len(input) \in Nat, P <= Len(input),
         P = Len(input) \/ input[P + 1] \in {CR, LF},
         \A i \in (L + 1)..P : input[i] \notin {CR, LF}
  PROVE  Rows!LineEnd(L) = P
<1> DEFINE Ends(q) == /\ q = Len(input) \/ input[q + 1] \in {CR, LF}
                      /\ \A r \in (L + 1)..q : input[r] \notin {CR, LF}
<1>1. P \in L..Len(input) /\ Ends(P)
  OBVIOUS
<1>2. ASSUME NEW q \in L..Len(input), Ends(q) PROVE q = P
  <2>1. CASE q < P
    <3>1. q + 1 \in (L + 1)..P /\ q # Len(input)
      BY <2>1
    <3> QED BY <1>2, <3>1
  <2>2. CASE P < q
    <3>1. P + 1 \in (L + 1)..q /\ P # Len(input)
      BY <2>2
    <3> QED BY <1>2, <3>1
  <2> QED BY <2>1, <2>2
<1>3. Rows!LineEnd(L) = CHOOSE q \in L..Len(input) : Ends(q)
  BY DEF Rows!LineEnd, Rows!Breaks
<1> HIDE DEF Ends
<1> QED BY <1>1, <1>2, <1>3

\* The abstract steps, from the values the mapping has.
LEMMA FailsAbove ==
  ASSUME ~rowInUse, state \notin Ended, state' = "error", UNCHANGED <<input, rowInUse>>
  PROVE  Rows!Fail
BY DEF Rows!Fail, Rows!Error, Ended

LEMMA StaysAbove ==
  ASSUME ~rowInUse, state \notin Ended, state' \notin Ended, UNCHANGED <<input, rowInUse>>,
         Lines, Lines', LineStart' = LineStart
  PROVE  UNCHANGED Rows!vars
<1>1. PositionOf(RowStart)' = PositionOf(RowStart)
  BY DEF Lines, Ended
<1> QED BY <1>1 DEF Rows!vars, Ended

\* A row that ends is the line up to here, cut, and no field is too long.
LEMMA RowAbove ==
  ASSUME RowInv, Open, ~rowInUse, Lines, Lines', UNCHANGED <<input, taken, mem, chunks>>,
         NEW e, Spans(fieldStart, e), Fits(fieldStart, e), Place(e) = Place(cursor),
         fields' = Append(fields, RawField(fieldStart, e)), rowInUse' = TRUE, state' = "leading",
         Place(cursor) = Len(input) \/ input[Place(cursor) + 1] \in {CR, LF},
         Place(cursor)' = Rows!AfterBreak(Place(cursor))
  PROVE  Rows!NextRow
<1>1. PICK L, P, a, T : /\ L = LineStart /\ P = Place(cursor) /\ a = Place(fieldStart) /\ T = Texts
  OBVIOUS
<1>2. /\ L \in Nat /\ P \in Nat /\ a \in Nat /\ L < P /\ a <= P /\ T \in Seq(Seq(Nat))
      /\ Len(input) \in Nat /\ P <= Len(input) /\ L <= P /\ L < Len(input) /\ L + 1 \in (L + 1)..P
      /\ Append(T, Run(a, P)) = Rows!Cut(L, P)
      /\ \A i \in (L + 1)..P : input[i] \notin {CR, LF}
      /\ LimitKept
  <2>1. /\ L \in Nat /\ P \in Nat /\ a \in Nat /\ L < P /\ a <= P /\ T \in Seq(Seq(Nat))
        /\ Len(input) \in Nat /\ P <= Len(input)
        /\ Append(T, Run(a, P)) = Rows!Cut(L, P)
        /\ \A i \in (L + 1)..P : input[i] \notin {CR, LF}
        /\ LimitKept
    BY <1>1, OpenLine
  <2>2. L <= P /\ L < Len(input) /\ L + 1 \in (L + 1)..P
    BY ONLY <2>1
  <2> QED BY <2>1, <2>2
<1>3. Rows!LineEnd(L) = P
  BY <1>1, <1>2, LineEndsHere
<1>4. Texts' = Append(T, Run(a, P))
  BY <1>1, EmitFields DEF RowInv
<1>5. ASSUME MaxFieldSize > 0, NEW k \in DOMAIN Append(T, Run(a, P))
      PROVE  ~(Len(Append(T, Run(a, P))[k]) > MaxFieldSize)
  <2>1. Run(a, P) \in Seq(Nat) /\ Len(Run(a, P)) = P - a /\ MaxFieldSize \in Nat
    BY <1>2, RunProperties, RowAssumption
  <2>2. /\ DOMAIN Append(T, Run(a, P)) = 1..(Len(T) + 1) /\ Len(T) \in Nat
        /\ \A i \in 1..Len(T) : Append(T, Run(a, P))[i] = T[i]
        /\ Append(T, Run(a, P))[Len(T) + 1] = Run(a, P)
    <3>1. /\ Append(T, Run(a, P)) \in Seq(Seq(Nat)) /\ Len(Append(T, Run(a, P))) = Len(T) + 1
          /\ Len(T) \in Nat
          /\ \A i \in 1..Len(T) : Append(T, Run(a, P))[i] = T[i]
          /\ Append(T, Run(a, P))[Len(T) + 1] = Run(a, P)
      <4>1. T \in Seq(Seq(Nat)) /\ Run(a, P) \in Seq(Nat)
        BY <1>2, <2>1
      <4> QED BY ONLY <4>1, AppendProperties, LenProperties
    <3> QED BY ONLY <3>1, LenProperties
  <2>3. P - a <= MaxFieldSize
    <3>1. FieldLength(fieldStart, e) <= MaxFieldSize
      BY <1>5 DEF Fits
    <3>2. FieldLength(fieldStart, e) = Place(e) - Place(fieldStart)
      BY LengthIsDistance DEF RowInv, IInv
    <3> QED BY <1>1, <3>1, <3>2
  <2>4. \A i \in 1..Len(T) : Len(T[i]) <= MaxFieldSize
    <3>1. Len(T) = Len(fields) /\ DOMAIN fields = 1..Len(fields)
      BY <1>1, TextsType DEF RowInv
    <3>2. ASSUME NEW i \in 1..Len(T) PROVE Len(T[i]) <= MaxFieldSize
      <4>1. Held(fields[i]) /\ T[i] = RunOf(fields[i])
        BY <1>1, <3>1 DEF RowInv, FieldsHeld, Texts
      <4>2. Len(T[i]) = Place(EndOf(fields[i])) - Place(StartOf(fields[i]))
        BY <4>1, HeldEnds DEF RowInv
      <4> QED BY <1>2, <1>5, <3>1, <4>2 DEF LimitKept
    <3> QED BY <3>2
  <2>5. Len(Append(T, Run(a, P))[k]) <= MaxFieldSize /\ Len(Append(T, Run(a, P))[k]) \in Nat
    <3>1. k \in 1..Len(T) \/ k = Len(T) + 1
      BY <2>2
    <3>2. CASE k \in 1..Len(T)
      <4>1. T[k] \in Seq(Nat)
        BY <1>2, <3>2, ElementOfSeq
      <4> QED BY <2>2, <2>4, <3>2, <4>1, LenProperties
    <3>3. CASE k = Len(T) + 1
      BY <1>2, <2>1, <2>2, <2>3, <3>3
    <3> QED BY <3>1, <3>2, <3>3
  <2> QED BY <2>1, <2>5
<1>6. state # "error" /\ state # "EOF"
  BY DEF Open
<1>7. PositionOf(RowStart) = L /\ PositionOf(Here)' = Rows!AfterBreak(P)
  BY <1>1, <1>6 DEF Lines
<1>8. [k \in DOMAIN fields |-> FieldCells(fields[k])]' = Rows!Cut(L, P)
  BY <1>2, <1>4 DEF Lines
<1>9. input[L + 1] \notin {CR, LF}
  BY <1>2
<1>10. MaxFieldSize > 0 => ~\E k \in DOMAIN Rows!Cut(L, P) : Len(Rows!Cut(L, P)[k]) > MaxFieldSize
  BY <1>2, <1>5
<1> HIDE DEF Lines
<1> QED BY <1>2, <1>3, <1>6, <1>7, <1>8, <1>9, <1>10 DEF Rows!NextRow, Rows!Breaks

\* No step is taken from a row that has ended, in error or at the end of input.
LEMMA NotEnded ==
  ASSUME SkipBlankLine \/ FirstByte \/ Delimiter \/ EndRow \/ FieldByte \/ Fill \/ ReaderFails
  PROVE  ~rowInUse /\ state \notin Ended
BY DEF SkipBlankLine, FirstByte, Delimiter, EndRow, FieldByte, Fill, ReaderFails, Scanning, Ended

\* Bytes of a line and fills are stutters, the line's end is NextRow, a blank
\* line's SkipBreak; a field that is too large or a read that fails is Fail.
LEMMA ScanAbove ==
  ASSUME RowInv, Lines, Lines',
         SkipBlankLine \/ FirstByte \/ Delimiter \/ EndRow \/ FieldByte \/ Fill \/ ReaderFails
  PROVE  [Rows!Next]_Rows!vars
<1>1. ~rowInUse /\ state \notin Ended
  BY NotEnded
<1>2. input' = input
  BY DEF SkipBlankLine, FirstByte, Delimiter, EndRow, FieldByte, Fill, ReaderFails,
         ReadByte, FillChunk, ReadError
<1>3. ASSUME rowInUse' = rowInUse, state' = "error" PROVE Rows!Next
  BY <1>1, <1>2, <1>3, FailsAbove DEF Rows!Next
<1>4. ASSUME rowInUse' = rowInUse, state' \notin Ended, LineStart' = LineStart
      PROVE  UNCHANGED Rows!vars
  BY <1>1, <1>2, <1>4, StaysAbove
<1>5. CASE SkipBlankLine
  <2>1. /\ state = "leading" /\ ReadByte /\ Value = LF /\ UNCHANGED <<state, fields, fieldStart, rowInUse>>
    BY <1>5 DEF SkipBlankLine, Scanning, rowVars
  <2>2. fields = <<>>
    BY <1>1, <2>1 DEF RowInv, NoRowNoFields
  <2>3. PICK P : P = Place(cursor)
    OBVIOUS
  <2>4. P < Len(input) /\ input[P + 1] \in {CR, LF} /\ Place(cursor)' = Rows!AfterBreak(P)
    BY <2>1, <2>3, ReadByteRows DEF RowInv
  <2>5. LineStart = P /\ LineStart' = Rows!AfterBreak(P)
    BY <2>1, <2>2, <2>3, <2>4 DEF LineStart
  <2>6. PositionOf(RowStart) = P /\ PositionOf(RowStart)' = Rows!AfterBreak(P)
    BY <1>1, <2>1, <2>5 DEF Lines, Ended
  <2>7. Rows!SkipBreak
    BY <1>1, <1>2, <2>1, <2>4, <2>6 DEF Rows!SkipBreak, Rows!Breaks, Ended
  <2> QED BY <2>7 DEF Rows!Next
<1>6. CASE FirstByte
  <2>1. rowInUse' = rowInUse /\ state' \in {"error", "Outside", "InUnquoted"}
    BY <1>6 DEF FirstByte, EmitThen, Goto
  <2>2. state' # "error" => LineStart' = LineStart
    BY <1>6, FirstByteInv
  <2> QED BY <1>3, <1>4, <2>1, <2>2 DEF Ended
<1>7. CASE Delimiter
  <2>1. rowInUse' = rowInUse /\ state' \in {"error", "Outside", "InUnquoted"}
    BY <1>7 DEF Delimiter, EmitThen, Goto
  <2>2. state' # "error" => LineStart' = LineStart
    BY <1>7, DelimiterInv
  <2> QED BY <1>3, <1>4, <2>1, <2>2 DEF Ended
<1>8. CASE FieldByte
  <2>1. rowInUse' = rowInUse /\ state' \in {"error", "Outside", "InUnquoted"}
    BY <1>8 DEF FieldByte, EmitThen, Goto
  <2>2. state' # "error" => LineStart' = LineStart
    BY <1>8, FieldByteInv
  <2> QED BY <1>3, <1>4, <2>1, <2>2 DEF Ended
<1>9. CASE Fill
  <2>1. rowInUse' = rowInUse /\ state' = state
    BY <1>9 DEF Fill, rowVars
  <2>2. state' # "error" => LineStart' = LineStart
    BY <1>9, FillInv
  <2> QED BY <1>1, <1>3, <1>4, <2>1, <2>2 DEF Ended
<1>10. CASE ReaderFails
  <2>1. rowInUse' = rowInUse /\ state' = "error"
    BY <1>10 DEF ReaderFails
  <2> QED BY <1>3, <2>1
<1>11. CASE EndRow
  <2>1. Open /\ ReadByte /\ Value = LF /\ EmitThen(fieldStart, Here, FinishRow)
    BY <1>11 DEF EndRow, Scanning, Open
  <2>2. /\ UNCHANGED <<input, taken, mem, chunks>> /\ ~Beyond(Here) /\ Place(Here) = Place(cursor)
        /\ input[Place(cursor) + 1] \in {CR, LF}
        /\ Place(cursor)' = Rows!AfterBreak(Place(cursor))
    BY <2>1, ReadByteRows DEF RowInv
  <2>3. CASE ~Fits(fieldStart, Here)
    <3>1. rowInUse' = rowInUse /\ state' = "error"
      BY <2>1, <2>3 DEF EmitThen
    <3> QED BY <1>3, <3>1
  <2>4. CASE Fits(fieldStart, Here)
    <3>1. /\ fields' = Append(fields, RawField(fieldStart, Here))
          /\ rowInUse' = TRUE /\ state' = "leading"
      BY <2>1, <2>4 DEF EmitThen, FinishRow
    <3>2. Spans(fieldStart, Here)
      BY <2>1, <2>2, OpenSpan
    <3>3. Rows!NextRow
      BY <1>1, <2>1, <2>2, <2>4, <3>1, <3>2, RowAbove
    <3> QED BY <3>3 DEF Rows!Next
  <2> QED BY <2>3, <2>4
<1> QED BY <1>5, <1>6, <1>7, <1>8, <1>9, <1>10, <1>11

\* The end of the input ends the row that is open, or there are no more.
LEMMA EndAbove ==
  ASSUME RowInv, Lines, Lines', EndOfInput
  PROVE  Rows!Next
<1>1. ~rowInUse /\ ReadEOF
  BY DEF EndOfInput
<1>2. /\ UNCHANGED <<input, taken, mem, chunks>> /\ Beyond(Here)
      /\ Place(cursor)' = Place(cursor) /\ Place(cursor) = Len(input)
  BY <1>1, ReadEOFRows DEF RowInv
<1>3. CASE state = "leading" /\ state' = "EOF" /\ UNCHANGED <<fields, fieldStart, rowInUse, releaseCursor>>
  <2>1. fields = <<>>
    BY <1>1, <1>3 DEF RowInv, NoRowNoFields
  <2>2. LineStart = Len(input) /\ LineStart' = Len(input)
    BY <1>2, <1>3, <2>1 DEF LineStart
  <2>3. PositionOf(RowStart) = Len(input) /\ PositionOf(RowStart)' = Len(input)
    BY <1>1, <1>3, <2>2 DEF Lines
  <2>4. Rows!NoMoreRows
    BY <1>1, <1>2, <1>3, <2>3 DEF Rows!NoMoreRows
  <2> QED BY <2>4 DEF Rows!Next
<1>4. CASE Open /\ EmitThen(fieldStart, ClampCursor(Here), FinishRow)
  <2>1. PICK e : e = ClampCursor(Here)
    OBVIOUS
  <2>2. Spans(fieldStart, e) /\ Place(e) = Place(cursor)
    BY <1>2, <1>4, <2>1, OpenSpan
  <2>3. CASE ~Fits(fieldStart, e)
    <3>1. rowInUse' = rowInUse /\ state' = "error"
      BY <1>4, <2>1, <2>3 DEF EmitThen
    <3>2. Rows!Fail
      BY <1>1, <1>2, <1>4, <3>1, FailsAbove DEF Open, Ended
    <3> QED BY <3>2 DEF Rows!Next
  <2>4. CASE Fits(fieldStart, e)
    <3>1. /\ fields' = Append(fields, RawField(fieldStart, e))
          /\ rowInUse' = TRUE /\ state' = "leading"
      BY <1>4, <2>1, <2>4 DEF EmitThen, FinishRow
    <3>2. Place(cursor)' = Rows!AfterBreak(Place(cursor))
      BY <1>2 DEF Rows!AfterBreak
    <3>3. Rows!NextRow
      BY <1>1, <1>2, <1>4, <2>2, <2>4, <3>1, <3>2, RowAbove
    <3> QED BY <3>3 DEF Rows!Next
  <2> QED BY <2>3, <2>4
<1> QED BY <1>3, <1>4 DEF EndOfInput, Open

LEMMA ReleaseAbove ==
  ASSUME RowInv, Lines, Lines', ReleaseRow
  PROVE  Rows!Release
<1>1. /\ Place(cursor)' = Place(cursor) /\ UNCHANGED <<input, state>>
      /\ state = "leading" /\ rowInUse' = FALSE /\ fields' = <<>>
  BY ReleaseRowStep
<1>2. rowInUse
  BY DEF ReleaseRow
<1>3. LineStart' = Place(cursor)
  BY <1>1 DEF LineStart
<1>4. PositionOf(Here) = Place(cursor) /\ PositionOf(RowStart)' = Place(cursor)
  BY <1>1, <1>3 DEF Lines
<1> QED BY <1>1, <1>2, <1>4 DEF Rows!Release

LEMMA StutterAbove ==
  ASSUME RowInv, Lines, Lines', UNCHANGED csvVars
  PROVE  UNCHANGED Rows!vars
<1>1. LineStart' = LineStart /\ Place(cursor)' = Place(cursor) /\ Texts' = Texts
  BY StutterRowInv
<1>2. UNCHANGED <<input, state, rowInUse>>
  BY DEF csvVars, bufferVars, rowVars
<1>3. /\ PositionOf(Here)' = PositionOf(Here)
      /\ [k \in DOMAIN fields |-> FieldCells(fields[k])]' = [k \in DOMAIN fields |-> FieldCells(fields[k])]
      /\ state # "error" /\ ~rowInUse => PositionOf(RowStart)' = PositionOf(RowStart)
  BY <1>1, <1>2 DEF Lines
<1> QED BY <1>2, <1>3 DEF Rows!vars

LEMMA RowsInit ==
  ASSUME ReadersInit
  PROVE  Rows!Init
<1>1. RowInv
  BY InitRowInv
<1>2. /\ BufferInit /\ state = "leading" /\ fields = <<>> /\ rowInUse = FALSE
  BY DEF ReadersInit, RowInit
<1>3. PositionOf(RowStart) = LineStart
  BY <1>1, <1>2, LinesHold DEF Lines
<1>4. LineStart = 0
  <2>1. Len(chunks) = 0
    BY <1>2 DEF BufferInit
  <2> QED BY <1>2, <2>1 DEF LineStart, BufferInit, Origin, Place, Beyond
<1> QED BY <1>2, <1>3, <1>4 DEF BufferInit, Inputs, Rows!Init

LEMMA RowsStep ==
  ASSUME RowInv, Lines, Lines', [ReadersNext]_readerVars
  PROVE  [Rows!Next]_Rows!vars
<1>1. CASE AskForRow
  <2>1. \/ EndOfInput
        \/ SkipBlankLine \/ FirstByte \/ Delimiter \/ EndRow \/ FieldByte \/ Fill \/ ReaderFails
    BY <1>1 DEF AskForRow, ScanStep
  <2> QED BY <2>1, ScanAbove, EndAbove
<1>2. CASE TakeSlices \/ ReadSlices
  <2>1. UNCHANGED csvVars
    BY <1>2 DEF TakeSlices, ReadSlices
  <2> QED BY <2>1, StutterAbove
<1>3. CASE GiveBack
  BY <1>3, ReleaseAbove DEF GiveBack, Rows!Next
<1>4. CASE UNCHANGED readerVars
  <2>1. UNCHANGED csvVars
    BY <1>4 DEF readerVars
  <2> QED BY <2>1, StutterAbove
<1> QED BY <1>1, <1>2, <1>3, <1>4 DEF ReadersNext

\* The rows NextRow delivers are the input's non-blank lines in order, each cut
\* at its commas, byte for byte, however the reader cuts the input up and
\* however the chunks fall; a row comes out only when the one before it has been
\* given back, and none after an error.
THEOREM RowsAreLines == ReadersSpec => Rows!SafeSpec
<1>1. ReadersInit => Rows!Init
  BY RowsInit
<1>2. RowInv => Lines
  BY LinesHold
<1>3. RowInv /\ Lines /\ Lines' /\ [ReadersNext]_readerVars => [Rows!Next]_Rows!vars
  BY RowsStep
<1> QED BY <1>1, <1>2, <1>3, RowInvariant, PTL DEF ReadersSpec, Rows!SafeSpec
=============================================================================
