----------------------------- MODULE RowReaders -----------------------------
(***************************************************************************)
(* The callers of NextRow and what they do with a row's bytes.  Bytes does *)
(* not copy a field that lies in one chunk: the slice it returns looks     *)
(* into the chunk, and Release moves the chunk's bytes.  So it matters     *)
(* whether a caller reads its slices for the last time before or after it  *)
(* releases the row.                                                       *)
(*                                                                         *)
(*   "FileValidator"  validates, or copies a continued row, then releases  *)
(*   "FileDecoder"    decodes into values of its own, then releases        *)
(*   "SdkDecoder"     the same                                             *)
(*   "SdkValidator"   validates, releases, then reads the failing field's  *)
(*                    slice once more for the error's Field                *)
(***************************************************************************)
EXTENDS CsvRows

CONSTANT Caller

ASSUME CallerAssumption ==
  Caller \in {"FileValidator", "FileDecoder", "SdkDecoder", "SdkValidator"}

VARIABLES todo,        \* what the caller still does with the row that is out
          slices,      \* the results of Bytes, one per field
          delivered,   \* history: the fields' bytes when the row was handed over
          seen         \* the bytes the caller read last through its slices

callerVars == <<todo, slices, delivered, seen>>
readerVars == <<csvVars, callerVars>>

\* Mutant: the row is released before its slices are read.
ReleaseFirst == <<"take", "release", "read">>
HandlingOrder == IF Caller = "SdkValidator"
                 THEN <<"take", "read", "release", "read">>
                 ELSE <<"take", "read", "release">>

ReadersInit == /\ RowInit
               /\ todo = <<>> /\ slices = <<>> /\ delivered = <<>> /\ seen = <<>>

\* The caller asks for the next row only when it is done with this one.
AskForRow == /\ todo = <<>>
             /\ ScanStep \/ ReaderFails
             /\ todo' = IF rowInUse' THEN HandlingOrder ELSE <<>>
             /\ UNCHANGED <<slices, delivered, seen>>

Do(what) == todo # <<>> /\ Head(todo) = what /\ todo' = Tail(todo)

\* A slice into a chunk, or the copy materializeSegments made.
SliceOf(f) ==
  IF f.extra = <<>>
  THEN [chunk |-> chunks[f.firstChunk + 1], lo |-> f.firstStart, hi |-> f.firstEnd]
  ELSE [copy |-> FieldCells(f)]

ReadThrough(s) ==
  IF "copy" \in DOMAIN s THEN s.copy
  ELSE [i \in 1..(s.hi - s.lo) |-> mem[s.chunk].data[s.lo + i - 1]]

TakeSlices == /\ Do("take")
              /\ slices' = [k \in DOMAIN fields |-> SliceOf(fields[k])]
              /\ delivered' = [k \in DOMAIN fields |-> FieldCells(fields[k])]
              /\ seen' = <<>>
              /\ UNCHANGED csvVars

ReadSlices == /\ Do("read")
              /\ seen' = [k \in DOMAIN slices |-> ReadThrough(slices[k])]
              /\ UNCHANGED <<csvVars, slices, delivered>>

GiveBack == /\ Do("release")
            /\ ReleaseRow
            /\ UNCHANGED <<slices, delivered, seen>>

ReadersNext == AskForRow \/ TakeSlices \/ ReadSlices \/ GiveBack

\* All of it runs on the caller's thread, and the callers go on until the
\* input ends: fields are handled in a bounded loop, and a row is released on
\* every path.  Nothing makes the reader fail.
ReadersSpec == /\ ReadersInit /\ [][ReadersNext]_readerVars
               /\ WF_readerVars(AskForRow /\ ScanStep)
               /\ WF_readerVars(TakeSlices \/ ReadSlices \/ GiveBack)

-----------------------------------------------------------------------------
\* What bytes the positions hold.
Text(row) == [k \in DOMAIN row |-> [i \in DOMAIN row[k] |-> input[row[k][i]]]]

\* The bytes a caller reads are the bytes of the row it was given.  For the
\* SDK validator this is its promise that ValidationError.Field is the raw
\* value of the failing field (supr/errors.go).
SeenAsDelivered == seen # <<>> => Text(seen) = Text(delivered)
=============================================================================
