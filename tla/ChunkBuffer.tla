----------------------------- MODULE ChunkBuffer ----------------------------
(***************************************************************************)
(* csvstream/chunk_buffer.go: the input is read into fixed-size chunks of  *)
(* memory, delivered byte by byte with line breaks normalised, and given   *)
(* back to a pool when the row that used them is released.                 *)
(*                                                                         *)
(* A cell of memory holds the stream position of the byte stored in it, so *)
(* that bytes keep their identity when they are copied.  Offsets and chunk *)
(* indexes count from 0 as in the code; chunk k of the buffer is           *)
(* chunks[k + 1].                                                          *)
(*                                                                         *)
(* readByte is split where it calls fillChunk: the step that delivers a    *)
(* byte waits for the fills it needs.  One goroutine owns the buffer, so   *)
(* nothing can run in between.                                             *)
(***************************************************************************)
EXTENDS Naturals, Sequences, FiniteSets

CONSTANTS Bytes, CR, LF,
          MaxInput,    \* bound: longest input
          ChunkSize,   \* bytes a chunk holds
          ChunkIds     \* bound: the chunk objects there can be at once

ASSUME ByteAssumption == {CR, LF} \subseteq Bytes /\ CR # LF /\ MaxInput \in Nat
ASSUME ChunkAssumption == /\ ChunkSize \in Nat \ {0}
                          /\ IsFiniteSet(ChunkIds)
                          /\ Cardinality(ChunkIds) > MaxInput

VARIABLES input,    \* what the reader holds, fixed at the start
          taken,    \* how many bytes the reader has handed over
          hitEOF,   \* the reader has reported the end
          mem,      \* chunk object -> its cells and how many are in use
          chunks,   \* the buffer's chunk objects, in input order
          pool,     \* chunk objects given back
          cursor,   \* the next byte: chunk index and offset
          line, col,
          saved,    \* cursor, line and column to rewind to
          got       \* what the last readByte returned

bufferVars == <<input, taken, hitEOF, mem, chunks, pool, cursor, line, col,
                saved, got>>

Offsets == 0..(ChunkSize - 1)
Cursor  == [chunk : Nat, offset : 0..ChunkSize]
Origin  == [chunk |-> 0, offset |-> 0]
Inputs  == UNION {[1..n -> Bytes] : n \in 0..MaxInput}
InUse   == {chunks[k] : k \in DOMAIN chunks}

-----------------------------------------------------------------------------
(* Looking at the buffer through a cursor.                                 *)

ChunkAt(c)   == mem[chunks[c.chunk + 1]]
Beyond(c)    == c.chunk >= Len(chunks)
Exhausted(c) == ~Beyond(c) /\ c.offset >= ChunkAt(c).end
NextChunk(c) == [chunk |-> c.chunk + 1, offset |-> 0]
\* Where a read through c really happens: no chunk of the buffer is empty,
\* so one move is enough (NoEmptyChunk).
Settle(c)    == IF Exhausted(c) THEN NextChunk(c) ELSE c
After(c)     == [c EXCEPT !.offset = @ + 1]
PosAt(c)     == ChunkAt(c).data[c.offset]

\* The cells of chunk k from offset lo up to hi, as a sequence of positions.
Cells(k, lo, hi) == [i \in 1..(hi - lo) |-> mem[chunks[k]].data[lo + i - 1]]

\* Everything buffered from cursor c on.
Ahead(c) ==
  LET from[k \in 1..(Len(chunks) + 1)] ==
        IF k > Len(chunks) THEN <<>>
        ELSE Cells(k, 0, mem[chunks[k]].end) \o from[k + 1]
  IN  IF Beyond(c) THEN <<>>
      ELSE Cells(c.chunk + 1, c.offset, ChunkAt(c).end) \o from[c.chunk + 2]

\* How many input bytes lie before cursor c.
PositionOf(c) == taken - Len(Ahead(c))

-----------------------------------------------------------------------------
BufferInit ==
  /\ input \in Inputs
  /\ taken = 0 /\ hitEOF = FALSE
  /\ mem = [id \in ChunkIds |-> [data |-> [o \in Offsets |-> 0], end |-> 0]]
  /\ chunks = <<>> /\ pool = {}
  /\ cursor = Origin /\ line = 1 /\ col = 0
  /\ saved = [cursor |-> Origin, line |-> 1, col |-> 0]
  /\ got = "nothing"

Here == Settle(cursor)

\* readByte needs data: at its cursor, or behind a CR to look for the LF.
NeedsFill == /\ got # "failed"
             /\ ~hitEOF
             /\ \/ Beyond(Here)
                \/ /\ ~Beyond(Here)
                   /\ input[PosAt(Here)] = CR
                   /\ Beyond(Settle(After(Here)))

\* A chunk after a read of n bytes into it.
\* Mutant: its fill mark taken for a position of the input.
FilledAbsolute(chunk, n) ==
  [data |-> [o \in Offsets |-> IF o < n THEN taken + o + 1 ELSE chunk.data[o]],
   end  |-> taken + n]
Filled(chunk, n) ==
  [data |-> [o \in Offsets |-> IF o < n THEN taken + o + 1 ELSE chunk.data[o]],
   end  |-> n]

\* fillChunk: the pool hands out a chunk of its own or a new one; the read
\* may be short, and may report the end together with the last bytes.
FillChunk ==
  /\ NeedsFill
  /\ cursor' = Here
  /\ \/ \E id \in ChunkIds \ InUse, n \in 1..ChunkSize :
          /\ taken + n <= Len(input)
          /\ mem' = [mem EXCEPT ![id] = Filled(@, n)]
          /\ chunks' = Append(chunks, id)
          /\ pool' = pool \ {id}
          /\ taken' = taken + n
          /\ hitEOF' \in {FALSE, taken + n = Len(input)}
          /\ UNCHANGED got
     \/ /\ taken = Len(input)
        /\ hitEOF' = TRUE
        /\ \E id \in ChunkIds \ InUse : pool' = pool \cup {id}
        /\ UNCHANGED <<taken, mem, chunks, got>>
  /\ UNCHANGED <<input, line, col, saved>>

\* A read error goes to readByte's caller, who reads no more.  The CR it was
\* looking behind is already consumed.
ReadError ==
  /\ NeedsFill
  /\ got' = "failed"
  /\ cursor' = IF Beyond(Here) THEN Here ELSE After(Here)
  /\ \E id \in ChunkIds \ InUse : pool' = pool \cup {id}
  /\ UNCHANGED <<input, taken, hitEOF, mem, chunks, line, col, saved>>

(* readByte, once the data it needs is there.                              *)
Ready == got # "failed" /\ ~NeedsFill /\ ~Beyond(Here)

\* Mutant: looks for the LF in the CR's own chunk only.
FollowedByLFInChunk == LET peek == After(Here)
                       IN  ~Exhausted(peek) /\ input[PosAt(peek)] = LF
FollowedByLF == LET peek == Settle(After(Here))
                IN  ~Beyond(peek) /\ input[PosAt(peek)] = LF
TakesCRLF == input[PosAt(Here)] = CR /\ FollowedByLF
Value == IF input[PosAt(Here)] \in {CR, LF} THEN LF ELSE input[PosAt(Here)]

ReadByte ==
  /\ Ready
  /\ got' = Value
  /\ cursor' = IF TakesCRLF THEN Settle(After(Settle(After(Here))))
                            ELSE After(Here)
  /\ line' = IF Value = LF THEN line + 1 ELSE line
  /\ col' = IF Value = LF THEN 0 ELSE col + 1
  /\ UNCHANGED <<input, taken, hitEOF, mem, chunks, pool, saved>>

ReadEOF ==
  /\ got # "failed"
  /\ hitEOF /\ Beyond(Here)
  /\ cursor' = Here
  /\ got' = "EOF"
  /\ UNCHANGED <<input, taken, hitEOF, mem, chunks, pool, line, col, saved>>

-----------------------------------------------------------------------------
(* releaseUpTo(c): chunks before c go to the pool; the chunk c is in loses *)
(* the bytes before c, by moving the others down in place.                 *)

\* Mutant: the cursor is not moved with the bytes.
Unmoved(n, d) == n
Less(n, d) == IF n >= d THEN n - d ELSE 0

\* The chunks given back.
\* Mutant: gives back the chunk that c is in as well.
ReturnedOneMore(c) == {chunks[k] : k \in {j \in DOMAIN chunks : j <= c.chunk + 1}}
Returned(c) == {chunks[k] : k \in 1..c.chunk}

\* Nothing of the first remaining chunk lies behind c.
\* Mutant: off by one.
SpentStrictly(c, chunk) == c.offset > chunk.end
Spent(c, chunk) == c.offset >= chunk.end

\* The bytes of a chunk from offset d on, moved to its start.
\* Mutant: the fill mark stays.
MovedDownOnly(chunk, d) ==
  [chunk EXCEPT !.data = [o \in Offsets |-> IF o < chunk.end - d THEN @[o + d] ELSE @[o]]]
MovedDown(chunk, d) ==
  [data |-> [o \in Offsets |-> IF o < chunk.end - d THEN chunk.data[o + d]
                               ELSE chunk.data[o]],
   end  |-> chunk.end - d]

ReleaseUpTo(c0) ==
  LET c    == IF c0.chunk > Len(chunks)
              THEN [chunk |-> Len(chunks), offset |-> 0] ELSE c0
      kept == SubSeq(chunks, c.chunk + 1, Len(chunks))
      cur  == [cursor EXCEPT !.chunk = Less(@, c.chunk)]
      head == mem[kept[1]]
  IN
  /\ pool' = pool \cup Returned(c)
  /\ \/ /\ kept = <<>>
        /\ chunks' = <<>> /\ cursor' = Origin
        /\ UNCHANGED mem
     \/ /\ kept # <<>> /\ c.offset = 0
        /\ chunks' = kept /\ cursor' = cur
        /\ UNCHANGED mem
     \/ /\ kept # <<>> /\ c.offset > 0 /\ Spent(c, head)
        /\ chunks' = Tail(kept)
        /\ cursor' = IF Tail(kept) = <<>> THEN Origin
                     ELSE [chunk |-> Less(cur.chunk, 1), offset |-> 0]
        /\ UNCHANGED mem
     \/ /\ kept # <<>> /\ c.offset > 0 /\ ~Spent(c, head)
        /\ chunks' = kept
        /\ mem' = [mem EXCEPT ![kept[1]] = MovedDown(@, c.offset)]
        /\ cursor' = IF cur.chunk = 0
                     THEN [cur EXCEPT !.offset = Less(@, c.offset)] ELSE cur
  /\ UNCHANGED <<input, taken, hitEOF, line, col>>

\* clampCursor: the end of the buffered data for a cursor beyond it.
ClampCursor(c) ==
  IF chunks = <<>> THEN Origin
  ELSE IF Beyond(c)
       THEN [chunk |-> Len(chunks) - 1, offset |-> mem[chunks[Len(chunks)]].end]
  ELSE IF c.offset > ChunkAt(c).end THEN [c EXCEPT !.offset = ChunkAt(c).end]
  ELSE c

-----------------------------------------------------------------------------
(* The tokenizer's use of the buffer: skipLeadingBlanks saves its place    *)
(* before each byte it looks at and rewinds after a line that starts with  *)
(* '(' but is not an annotation line; finishRow notes the cursor that      *)
(* Release is called with before anything else is read.                    *)

Save == /\ got # "failed"
        /\ saved' = [cursor |-> cursor, line |-> line, col |-> col]
        /\ UNCHANGED <<input, taken, hitEOF, mem, chunks, pool, cursor, line,
                       col, got>>

Rewind == /\ got # "failed"
          /\ cursor' = saved.cursor /\ line' = saved.line /\ col' = saved.col
          /\ got' = "nothing"
          /\ UNCHANGED <<input, taken, hitEOF, mem, chunks, pool, saved>>

Release == /\ got # "failed"
           /\ ReleaseUpTo(cursor)
           /\ saved' = [cursor |-> cursor', line |-> line, col |-> col]
           /\ UNCHANGED got

BufferNext == \/ FillChunk \/ ReadError \/ ReadByte \/ ReadEOF
              \/ Save \/ Rewind \/ Release

BufferSpec == BufferInit /\ [][BufferNext]_bufferVars

-----------------------------------------------------------------------------
\* Every chunk of the buffer holds bytes: the loop in readByte moves on by
\* one chunk and finds a byte there.
NoEmptyChunk == \A id \in InUse : mem[id].end > 0

\* The types of the buffer's state, and that no chunk in use is empty.
BufferTypeOK ==
  /\ input \in Inputs
  /\ taken \in 0..Len(input)
  /\ hitEOF \in BOOLEAN
  /\ mem \in [ChunkIds -> [data : [Offsets -> 0..Len(input)], end : 0..ChunkSize]]
  /\ chunks \in Seq(ChunkIds)
  /\ pool \subseteq ChunkIds
  /\ cursor \in Cursor
  /\ line \in Nat \ {0} /\ col \in Nat
  /\ saved \in [cursor : Cursor, line : Nat \ {0}, col : Nat]
  /\ got \in Bytes \cup {"nothing", "EOF", "failed"}
  /\ NoEmptyChunk

\* A chunk object has one owner: it is in the buffer once or in the pool,
\* never both.  Otherwise a later fill would overwrite unread input.
ChunkOwnedOnce ==
  /\ \A j, k \in DOMAIN chunks : chunks[j] = chunks[k] => j = k
  /\ InUse \cap pool = {}

\* The unread bytes are consecutive and end where the reader stands: no
\* fill, short read, compaction or drop loses, repeats or reorders a byte.
UnreadIsNext ==
  LET unread == Ahead(Here)
  IN  \A i \in DOMAIN unread : unread[i] = taken - Len(unread) + i

\* After a release the buffer starts at the next byte to read: nothing that
\* was read stays in memory.  Action property about releaseUpTo.
ReleaseKeepsOnlyUnread ==
  [][Release => cursor' = Origin]_bufferVars

\* The buffer implements the plain stream of normalised bytes.
Stream == INSTANCE ByteStream WITH
            pos   <- PositionOf(Here),
            saved <- [pos  |-> PositionOf(Settle(saved.cursor)),
                      line |-> saved.line, col |-> saved.col]
RefinesByteStream == Stream!Spec
=============================================================================
