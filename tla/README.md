# A verification project for SuperCSV

SuperCSV is a typed, annotated dialect of CSV and a Go library that reads,
validates, decodes and writes it. The modules here model two halves of the
library. One is the part in which state lives: the zero-copy stream that cuts a
file into rows and fields, and the readers on top of it that join physical lines
into logical rows, count annotations, and collect errors. The other is the part
that gives a text its meaning: the validators, decoders and encoders of values,
the header's types and the annotations, which are pure functions written several
times over and meant to agree.

Paths below are relative to `src/`; `stream.go` is
`internal/v1_0/csvstream/stream.go`, and the format's specification is
`internal/v1_0/spec/supercsv-spec-v1.0.md`.

## 1. The system

| component | code | state it keeps | operations | correct means |
|---|---|---|---|---|
| chunk buffer | `csvstream/chunk_buffer.go` | chunks with fill marks, pool, cursor, end and error of the reader | `readByte`, `fillChunk`, `releaseUpTo`, `clampCursor` | delivers the input with CRLF and CR as LF; no chunk is handed out while in use; unread bytes survive a release |
| rows and fields | `csvstream/row.go`, `emitField`, `finishRow` in `stream.go` | the row object, per field a range of chunk offsets, the release cursor | `emitField`, `Bytes`, `Release` | `Bytes` gives the bytes of the field; memory does not grow with the rows |
| record scanner | `NextRow` and its handlers in `stream.go` | parser state, bracket and generic depth, three line-break flags, quote flag, block counts | `NextRow`, `SetHeaderMode` | a comma or line break is structure exactly where the format says so; no state crosses rows |
| line skipping | `skipLeadingBlanks` in `stream.go` | int8 counters of comments and metadata, the attach window | skipping, and the readers that clear the counters | every comment counts once, for the right field |
| stream construction | `NewCSVStream` ... `rejectBOM` in `stream.go` | none after construction | options, BOM, strict version line | a line that passes the strict check is one that the scanner skips |
| annotation functions | `countBlocksOnLine`, `stripMetadataBlocksBytes`, ... | none | pure | agree with each other on where a block ends; leave the value whole |
| header reader | `headerdefreader/header_reader.go` | accumulated fields, continuation flag | `ReadHeaderWithContinuation` | the header is one logical row; its comments reach their fields; nothing leaks to the data rows |
| header definition | `headerdef/*.go`, `validate/header.go` | column definitions | `ParseHeader` | what the encoder writes for a header is read as that header; blanks mean nothing |
| file validator | `validate/file_validator.go` | gathered fields, start line, errors, counts | `ValidateFile` | continuation gathers each field once; limits are exact; no row is lost |
| row validator | `validate/row_validator.go`, `validate/validator.go` | none | `ValidateRow` | field count, annotations, values, in this order |
| containers, automata | `validate/dfa`, `validate/container_stream.go` | parser positions | pure | validator and decoder accept the same values |
| decoders | `decode/*.go` | reused rows | `DecodeFile`, one decoder per type | a decoded value is the one the text means |
| encoders | `encode/encoders.go` | none | pure | what is written reads back |
| SDK | `supr/validator.go`, `decoder.go`, `encoder.go` | iterator flags, error counts, buffered writer | `Next`, `Err`, `WriteRow`, `Close`, ... | the protocol of each iterator; values survive `Next` as documented |
| command line, version router, error tables | `cmd/`, `internal/version`, ... | none | | |

How they interact. A reader (`ValidateFile`, the file decoder, the SDK's
Validator and Decoder) calls `NextRow` until `io.EOF`. `NextRow` returns
pointers to one reused row object whose fields are offsets into chunk memory;
`Bytes` returns slices into that memory. `Release` gives the chunks up to the
row's end back, and moves what is unread to the start of its chunk. The readers
ask the stream for its counters of skipped comment lines, which clears them.
There are no goroutines, no locks and nothing persistent: all calls run on the
caller's thread, one after another.

What is hard here, therefore, is not concurrency but
 * aliasing: slices and offsets that outlive the memory they point into;
 * the reader's freedom to deliver any number of bytes at a time, so that every
   boundary (CR/LF, field end, compaction) can fall between two chunks;
 * long protocols: five pieces of nesting state changed by a dozen actions, and
   counters written by one component and cleared by another;
 * partial results: an error, an end of file or a limit in the middle of a
   logical row;
 * int8 counters, and numbers at the ends of their range;
 * the same rule written by hand in the validator, the decoder, the encoder and the
   SDK, with nothing that keeps the copies together.

The list of hazards in `PROJECT.json` gives each with its line.

## 2. The modules

```
 ByteStream <--implements-- ChunkBuffer
                               ^ EXTENDS
 RowStream  <--implements-- CsvRows <-- RowReaders          (memory of rows)

 RecordScanner <-- ScannerHistory                           (control of NextRow)

                 PhysicalLines                              (a line at a time)
                  ^          ^
          FileValidator   HeaderReader --implement--> LogicalRows

 SdkText <-- Encoder, SdkReaders <-- RoundTrip              (supr/, whole files)

 Chars <-- Scalars <-- Temporals <-- FieldChecks            (validate: a field)
   ^          ^            ^     <-- FieldValues            (decode: a field)
   |          |            |     <-- FieldTexts             (encode: a value)
   |      HeaderTypes <-- Answers <-- Typing                (a text, and what is said of it)
   |                                    ^  ^
   |                                    |  Values           (a field of a row)
 Annotations <----------------------- Headers               (headers, annotations, first line)

 Proofs: ChunkBufferProofs <-- RowReadersProofs,
         PhysicalLinesProofs <-- FileValidatorProofs, HeaderReaderProofs,
         RecordScannerProofs, RoundTripProofs, ValuesProofs

 MCValues = Values + Headers; Answers has instances of FieldChecks and FieldValues,
 Values one of FieldTexts.
```

`NextRow` appears at three levels of detail, each with what the others leave
out: `CsvRows` has the memory and little control, `RecordScanner` the whole
control over classes of bytes and no memory, `PhysicalLines` whole lines and the
counters. The levels are separate because their product is neither checkable
nor readable, and because what one level reads of another is narrow: the scanner
reads bytes and a line's readers read rows and counters.

**ByteStream** (abstract). The normalised input as a reader of it sees it: read
the next byte, see the end, save and rewind, release, fail.

**ChunkBuffer**. `chunk_buffer.go`. `mem` is the memory of the chunk objects,
`chunks` the list in use, `free` the pool, `cursor` the next byte; the reader is
the nondeterministic part: `FillChunk` stores any number of bytes that fit, the
end may arrive with the last bytes or alone, and `ReadError` may come at any
fill. `Settle` is the loop that moves from the end of a chunk to the next,
`TakesCRLF` and `FollowedByLF` the look-ahead behind a CR with the fill it may
need. `Save` and `Rewind` are what `skipLeadingBlanks` does with the cursor.
Each cell of memory holds the position in the input it was filled from, so that
"the right byte" is a question of positions and not of values.

**RowStream** (abstract) and **CsvRows**. `RowStream` says which rows an input
has. `CsvRows` builds them the way `emitField` does: fields are offset ranges
with extra segments, `FieldLength` walks the chunks, `FinishRow` notes the
release cursor, `ReleaseRow` releases and clears. Its scanner knows only commas and
line breaks.

**RowReaders**. The four callers of `NextRow` and the order in which each takes,
reads, and releases. Slices are either a view into a chunk or the copy that
`materializeSegments` makes, as in `Bytes`.

**RecordScanner**. `NextRow` byte class by byte class, with
`skipLeadingBlanks`, `skipAnnotationBlockStream`, all handlers and all errors.
One action per `action...` constant of the code. An annotation block and a
skipped line are one step each. `genericDepth` is not reset between rows,
because the code does not.

**ScannerHistory**. The scanner with history variables from which the rule of the
format for line breaks can be stated without looking at the scanner's flags:
`at` is the last token of a container, `innerRow` whether an inner bracket is an
inner row, `broke` whether the one permitted break has been used, `lastBreak` the break that
was just read, until the byte behind it tells what it stood in front of. `FormatGoesOn` is the
rule of the specification (lines 881 to 887), `EndsEarly` the two places where the code ends a
row that the rule continues.

**PhysicalLines**. `skipLeadingBlanks` and `NextRow` a line at a time, with the
counters, the attach window and int8 arithmetic. A line of prefix annotations whose last block
the line break cuts short is passed over too (`SkipCut`); what it counted in
`fieldCommentBlocks` goes to the first field of the next row.

**FileValidator**, **HeaderReader**, and the abstract **LogicalRows**. The two
loops that join lines on a trailing comma. An action of `FileValidator` is one
turn of the loop, from the return of `NextRow` to the next call, with its reads
of the counters and its release. `LogicalRows` says what joining lines means.

**SdkText**, **Encoder**, **SdkReaders**, **RoundTrip**. The SDK above the level
of bytes. `Encoder` is `supr/encoder.go`: `writer` is the `bufio.Writer` with what
has left it, what it holds, and its sticky error; a write may fail behind any
piece of text and in the middle of a cell. `WriteRow`, `RejectRow` and `RefuseRow`
are the three ways the function `WriteRow` ends. `SdkReaders` is `Next` of
Validator and Decoder, the Decoder's `DecodeFile`, and the loop of the file
decoder, over the rows that `NextRow` makes of a file. `RoundTrip` composes them:
encoder calls in any order, then one reader over what reached the writer; or one
reader over any small file from elsewhere. What the stream makes of a written
text is `Lines` and `Readings`: a string written unchecked may turn into other
fields and rows, and a cell cut by a failing writer into a value, no value, or an
unclosed quote. That the stream reads a checked value as one field is taken over
from `RecordScanner`'s level, and that it then has its type is the question
`RewrittenReadsBack` and `StringsReadBack` of Values answer.

**RecordScannerProofs**, **ChunkBufferProofs**, **RowReadersProofs**, **FileValidatorProofs**,
**HeaderReaderProofs**, **RoundTripProofs**, **ValuesProofs**. The theorems of section 4, each about
the module of its name (RecordScannerProofs also about ScannerHistory, RowReadersProofs about the CsvRows
below it, RoundTripProofs about the Encoder and the SdkReaders that RoundTrip composes).
**PhysicalLinesProofs** has the lemmas the two line readers share.

**Typing**. The environment of the pure functions: a text that starts from one of a
few seeds and is edited, one character at a time, by insertion, deletion or
replacement (the action `Edit`). Each edit is what a person does to a file between two runs
of the validator, and it reaches the texts around a right one, where automata go
wrong, without enumerating all texts of a length. `column` is what the text is for: a
column of a header, a header field, a line, a first line. `said` is what the program says
of the text. Every property of Values and Headers is an invariant over all texts so reached.

**Answers**. What the program says: for a field of a row the verdict of `validateCol` and the value
of the row decoder (`AskOfField`), for a field of a header the columns that `ParseHeader` makes of
it. It also has the decoder's shallow mode, which checks a container with the validator's code.

**Chars**, **Scalars**, **Temporals**. A text is a sequence of one-character strings.
`Chars` has the byte classes and the small scanners, as sets and quantifiers;
`Scalars` the integer, float, decimal, boolean, uuid, byte and enum types, `Temporals` dates,
times, timestamps and durations, each once as in `validate/dfa` (`Validate...`), once as in
`decode` (`decode...`), and the encoder's formatters (`Append...`). Integers keep a
width: `decodeInt` rejects by the rule of the code on digits, and an accumulation the code
does not limit (a duration, a prefix) wraps at `MaxInt`. Limits on lengths are
constants. A float is accepted and kept as text: `strconv` is external.

**FieldChecks**, **FieldValues**, **FieldTexts**. The row validator's judgement of a field,
the row decoder's value, the encoder's text. The streaming parsers of lists and arrays
are recursive functions of the position, as the code's loops are. A container is read in two
steps, first cut into the texts of its elements, then each element judged or decoded; the code
does both in one loop, which makes a difference only for which of several errors is reported. The
decoder makes room for a container by its prefix or, without one, by the header; beyond the
length a slice can have, `make` panics (`Panicked`), which is not the same answer as `Rejected`. The
two copies of the container helpers are two sets of operators, so that the differences between
them are in the model and not smoothed away.

**Values**. The three asked about one text, after every edit. Where the code's copies are
known to differ, the difference is an operator with a name (`OnlyValid`,
`UnknownElement`, `LostScalar`, ...) and the property says there is no other;
section 5 lists them. An exception says which texts it is about, in terms of the text and
not of what the code did with it. Reference definitions are not derived from the code: `DecimalText`,
`DateIsReal` (by counting days), `HexText`, `Means`.

**HeaderTypes**, **Annotations**, **Headers**. `HeaderTypes` is `ParseHeader` with its type
expressions, the alias tables, the SDK's own types with the conversions to
and from them, and the text the encoder writes for a type. A header is made of words and
marks, not of letters. `Annotations` holds the two scans for blocks, that of whole lines and
that of fields, and the check of the first line. `Headers` says what they have to do
with each other.

## 3. What is checked

All runs are exhaustive for their bounds. Bounds are constants; every guard that
uses one is marked as such in the module that declares it.

| run | states | shows |
|---|---|---|
| `chunk_buffer` | 426 k | `ChunkOwnedOnce`: no chunk is both in use and in the pool or twice in either; `BufferTypeOK`: types, and no chunk without bytes stays in use, so that loops over chunks advance; `UnreadIsNext`: from the cursor on, memory holds exactly the unread input in order, through compactions; `ReleaseKeepsOnlyUnread`: a release leaves nothing consumed; `RefinesByteStream`: refinement of ByteStream |
| `rows` | 86 k | `FieldsInBounds`: no field reaches beyond what its chunks hold; `SeenAsDelivered`: a caller that reads before it releases reads its own row; `ReleasedMemoryBounded`: one chunk of read-ahead is all that survives a release; `RefinesRowStream`: rows are those of the input, the limit on field sizes included; `EveryRowDelivered`: the end of the input is reached |
| `scanner` | 1.6 M | `NestingOK`: the five pieces of nesting state agree; `FlagsFollowTokens`, `LineBreakRule`: outside quotes, no break is taken for text where the format ends the row, and none ends the row where the format goes on, but at the two places of `EndsEarly` |
| `file_validator` | 3.9 M | `CommentsOfTheirField`: each judged field carries the comments of its own line and of the `( )` lines right above a continuation, and at most those of lines cut short above it (`LeftOver`); `CommentFatalOnlyInside`: '#' lines stop a file only inside a row; `LimitIsExact`; `RowsAccountedFor`: every row is judged and counted, and none that '#' lines interrupt; `ErrorsNameTheirRow`: an error carries the line on which its logical row began, the limit on errors in a row of one line excepted (`LineReleased`); `RefinesLogicalRows` |
| `header_reader` | 2.7 M | `ContinuationComments`, `CleanHandOver` (the state FileValidator starts from, and no type split by a line break), `HeaderIsALogicalRow` |
| `sdk` | 96 k | `OutputIsAccepted`: the output is the rows `WriteRow` took, whole and in order, and at most a part of one call behind them when the writer fails; `CloseMeansWritten`; `WrittenReadsBack`: those rows, and no others, are read back without an error; `VerdictIsRight`: `Valid` behind the last `Next`, and the limit on errors is exact; `DecodedRowsAreTheFiles`: no kept row shares the reused buffer |
| `values` | 600 k | validator, decoder, encoder and header parser agree on every text, but for named differences; see below |

Five runs show a property violated; section 5 says what they mean.

The run `values` asks of every text it reaches (the names in parentheses are the conjuncts):
 * `ScalarsAgree`, `ContainersAgree` (`ValidatorAndDecoderAgree`, `ShallowReadsValid`): validator,
   decoder and the decoder's shallow mode take the same texts.
 * `ScalarsAreExact` (`IntsAreExact`, `DecimalsAreExact`, `BytesAreExact`, `EnumsAreFirst`) and
   `CalendarIsReal` (`DatesAreReal`, `ClocksAreReal`, `TimestampsAgree`): what is taken has the form of its
   type, and its value is the one the text means: no wrap at either end of an int, no 29 February
   1900, the first enum member that fits, the same texts for the three types of timestamps.
 * `ShapesHold` (`FixedShapesHold`, `PrefixesCount`, `CommasSeparate`): the lengths in the header, in the
   prefix and in the value; one comma between two elements.
 * `RewrittenReadsBack` (by `AppendValue` or by `String`): what was
   read and is written again by the encoder or by `String` is read as the same value, alone, in a
   list and in an array. `StringsReadBack` (`AnyStringReadsBack`, `EncodersAgree`): any string is.
 * `HeadersSurvive` (`HeaderReadsBack`, `EncoderKeepsTypes`, `BlanksDoNotMatter`,
   `EnumMembersMeanThemselves`): a header survives the SDK in each of its modes; the types of
   the encoder's columns are those of the header, but for the fixed length of a list; a
   member's text means that member.
 * `AnnotationsAgree` (`LinesAndFieldsAgree`, `ValueUntouched`, `StrictLineIsSkipped`): a line of blocks
   has as many for the scan of lines as for that of fields; taking the blocks off leaves
   the value; the line that passes the strict check never reaches the header.

The conjuncts are invariants in their own right; a property with several of them has a mutant of
the code for each.

Why the bounds are enough.
 * `chunk_buffer`: chunks of 2 bytes and 4 bytes of input make CRLF fall inside a
   chunk, across two, and at the end; compaction of a partly read chunk, an
   exhausted one, and none; five chunk objects so that the pool never forces
   reuse of one in use. Chunk objects are interchangeable and only safety is
   checked, so symmetry is sound.
 * `rows`: short fills let a field span up to three chunks; a limit of 2 bytes on
   fields is met exactly and passed. One caller stands for the three that read
   and then release. No symmetry, as liveness is checked.
 * `scanner`: depth 3 is beyond every depth the code compares with (0, 1, 2); one
   block and two fields, as nothing compares more than "none". The generic depth
   is compared with 0 only.
 * `file_validator`: two columns and two data rows are needed for a continued row,
   the third for what it leaves behind; the limit of 2 is met by one error or two
   at once. The largest int8 is 2 here (`MaxInt8`), so that three '#' lines wrap
   a counter. One line cut short, in any place, shows what it leaves to a row and that
   it leaves nothing to the row after. A file has up to seven lines; the count of rows
   includes the header's. Blank lines change no counter in data mode and are left to
   the header's run.
 * `header_reader`: two lines show a continuation; one line of each skipped kind, one cut
   short among them, in every order, two of '#', shows the attach window open, close, and reset. With
   `MaxInt8 = 2` the comments of one field can be more than its counter holds.
 * `sdk`: two rows of two columns are needed for what one row leaves to the next; the
   buffered writer holds four pieces, so that it empties in the header, between
   rows, and inside one; three rows from elsewhere pass the limit of two errors.
   The file is read only when `Close` has returned nil or the writer has failed,
   as a reader of a file that is still being written proves nothing.

 * `values`: 34 columns and other things to type a text for, with 199 seeds: a column for each scalar kind, lists and arrays of every
   rank, with and without fixed dimensions, header fields for each alias and each generic type, enum
   types, annotations, first lines. Types of few characters grow from the empty text (decimals
   up to six characters, annotations up to six), the long ones are edited once or twice around
   texts of every accepted form. Widths shrink with the texts: `MaxInt` is 127, of three digits as int64 has 19,
   so that both ends of the range and the first number behind each are a few edits
   away (`WidthAssumption` says what the rule on digits needs of the width, which int64
   fulfils); `MaxDecimal` 6, `MaxFraction` 1, `MaxExponent` 3, `NanoDigits` 2, `MaxTimezone` 4,
   `maxFieldSize` 36, `MaxElements` 60 and `MaxRows` 40 are each met and passed. `FloatLimit` 1800 stands for
   the greatest float64: "1799" and "0.18e4" are on its two sides with the same power of ten, which `MaxExponent`
   alone would not tell apart. A string may hold a tab, a line feed, a vertical tab, a NUL and DEL, one
   for each way the encoders treat a control character. Deadlock is not checked: when the edits are used up, nothing
   more happens.

Fairness. Only `rows` needs it, for `EveryRowDelivered` and the liveness of
RowStream. `WF` of the scanner's step and of the caller's handling of a row says
that the caller's loop goes on, which every caller does: the loops return only at
the end or an error, and what they do with a row is bounded. It includes
`Fill`, that is, that the reader delivers at least one byte or the end at
some time. Nothing assumes that the reader fails, or does not.

## 4. What is proved

Each theorem holds for all values of the constants that the named assumptions admit:
any depth, number of fields, chunk size, input, file, number of columns, size of the buffered writer, limit
on errors. Those assumptions say no more than that a bound is a natural number, that
sizes and `Columns` are not zero, that CR and LF are two different bytes, and, for
`ChunkBuffer`, that there are more chunk objects than input bytes, which stands for an
allocator that does not run out. An invariant that TLC checks is seldom inductive; what each proof had
to add is the knowledge of the component that the code relies on without saying it.

**Record scanner** (`RecordScannerProofs`). `TypeCorrect` is `Spec => []TypeOK`. Beside types it
says that `containerDepth` never is negative whatever the input, which rests on the guard in
`actionDecrementBracket` (`Closed`). `NestingCorrect` is `Spec => []NestingOK`. `NestingOK`
consists of five parts that hold each other up: between fields nothing is open (the reason why
`handleOutside` and `handleQuote` may end a field without looking at the depth), which needs that a
splitting comma is seen only at depth 0 with no line break welcome, which needs
`NewlineOnlyAtDepthOne`, which `CloseBracket` preserves only because an inner row is remembered at
depth 2 or more (`InnerRowIsInside`). The reset in `StartRow` is what lets a row that ended inside a
container be followed by one that starts clean; without its part for `containerNewlineOK` the run
`scanner` finds `NestingOK` violated.

**Line breaks in containers** (`RecordScannerProofs`). `FlagsCorrect`: the flags say what the tokens
read so far say (`FlagsFollowTokens`), inductive with `TypeOK /\ NestingOK`, which
`HistNestingCorrect` carries over to the scanner with its history. `LineBreaksWherePermitted`: the
action property `LineBreakRule` follows from it, as the code decides by the flags and the rule by
the tokens and the byte behind the break: what the flags permit, the format does, and where the format goes on
and the code does not, the break stands before the closing bracket or in an inner row (`EndsEarly`). Nothing is claimed of the flags inside a quoted element: there they are wrong, which is
the run `quoted_break`.

**Chunk buffer** (`ChunkBufferProofs`). `IInv` (theorem `BufferInvariant`) adds to
`BufferTypeOK` and `ChunkOwnedOnce` that a chunk holds consecutive positions, the next one goes on
where it ends and the last ends where the reader stands (`Consecutive`), and that the cursor and
the saved cursor are `Within` the chunks: on a byte, right behind one, or at the start of the chunk
to be filled next. `Within` is what `clampCursor` is for, and what makes the compaction by
`releaseUpTo` leave the right bytes. The argument runs over the *place* of a cursor, the number of
input bytes before it: a fill leaves both places alone, a read moves one by the bytes it takes, a release
keeps that of the cursor. `ChunksAreOwnedOnce`, `BufferTypeCorrect` (no empty chunk stays in use) and
`ReleaseKeepsUnread` follow at once. For `UnreadStaysNext` the recursive function `Ahead` is unfolded chunk
by chunk, from the last one down. `BufferRefinesStream` maps every step to one of
ByteStream: a fill is a stutter, `ReadByte` with its look-ahead a read of the normalised byte, a
release the client saving its place.

**Rows and fields** (`RowReadersProofs`, over the buffer's `IInv`). A field is kept as offsets into chunks, and
chunks move; what stays is the run of input positions between its two ends, which are cursors. `RowInv` (theorem
`RowInvariant`) says that each field is `Held` as such a run, in whole chunks but for the first and the last,
that the field being read is one too up to the cursor, and that the fields so far and the open
one are the line so far cut at its commas (`RowSoFar`). `FieldIsRun` and `LengthIsDistance` unfold
`materializeSegments` and `fieldLength` chunk by chunk into that run and its length. `FieldsLieInBounds` and
`CallersSeeTheirRow` follow; the SDK validator is left out of the second by hypothesis, as it
is false of it (the run `sdk_validator_slices`). `ReleaseBoundsMemory` needs a
fact of its own, `OneAhead`: the buffer is filled one chunk ahead at most, and that only by a look
behind a CR. `RowsAreLines` is the safety part of `RefinesRowStream`: a fill or a byte inside a row
is a stutter, the end of a row or of the input the next row, a blank line is
skipped, and a release gives the row back.

**Line skipping** (`PhysicalLinesProofs`). `Counted`, which both readers need: between two rows
the int8 counters hold, wrapped, the comments passed over since the last row or, in the header, the
last blank line; `fieldCommentBlocks` holds those of the lines cut short since the last row, and so never
anything between two files or behind a row. The lemmas on `Int8` say that counters wrapped one by one and added
have the value of the wrapped sum.

**File validator** (`FileValidatorProofs`). `IInv` (theorem `ValidatorInvariant`) adds to
`Counted` that rows stand on lines of their own and in order (`PositionInv`), so that a field's
line names its row; that the loop is within a row exactly if fields are gathered and the last row handled
had a trailing comma (`ContInv`); from which row each gathered or judged field came, with which comments
(`FieldInv`); for each error the row it is about (`ErrorInv`, `ResultInv`); and that the limit was
not passed (`LimitIsExact`). Six theorems draw the checked properties from it. `ValidatorRefinesRows`
maps an action to a row of LogicalRows taken or judged and the reading of skipped lines to a stutter; its
heart is that appending `FieldsOf` to the gathered fields appends the row's identities.

**Header reader** (`HeaderReaderProofs`). The same for `ReadHeaderWithContinuation`, with
`HandedOver` for the state in which the loop over the data rows starts. `HandOverIsClean` is the
`Init` of FileValidator, so the two proofs meet there.

**SDK end to end** (`RoundTripProofs`). `IInv` (theorem `SdkInvariant`) is `EncoderInv /\ ReaderInv`. In
`EncoderInv` the accepted text is the header and as many whole rows as were counted
(`AcceptedInv`), and what left the writer and what it holds make up that text or, once the writer has failed,
what left it is a `Torso` of it and one more call: all but its last piece is unchanged, and the last is
whole or cut. `ReaderInv` ties counts, sticky errors and kept rows to the rows read.
`OutputFollowsCalls`, `CloseWritesAll`, `VerdictCorrect` (with the exact limit of `WithMaxErrors`) and
`DecodedRowsCorrect` follow. `RoundTripCorrect` needs two facts more: a text of checked values has
one reading, and how the stream splits a text up to a piece does not depend on what comes
behind it, so that the rows of a torso are those of the whole text but for the last. `TextsRead` and `Splits` are
recursive functions of the position; they are shown to exist and unfolded by `SetInduction`.

**Values** (`ValuesProofs`). `ValidatorAndDecoderAgreeOnScalars` is `Spec => []ScalarsAgree`, for texts of any
length and whatever the widths. What is said is said of the text as it is (`Asked`, the inductive part), so the rest
is about texts: for each scalar type a lemma that its automaton and its decoder, written apart, take the
same ones (`BoolsAgree`, ..., `DurationsAgree`), and that what they take has no blank inside and no quote in front,
so that the checks of `validateCol` around the automaton refuse nothing more (`FieldAgrees`). Those with one pass over
the text rest on the place where a run of digits ends (`AfterIsUnique`). `IntsAgree` is by
induction over the digits: the decoder's accumulated value is, with its sign, the number of the digits
read, so that its test before each digit is the automaton's test on prefixes, at both ends of the range
(`WidthAssumption` says what an int64 has of it). `DurationsAgree` is by induction from the end of the text: the two
loops over the parts of a time agree on every rest, but for a fraction that is too long (`PartsAgree`, `Short`).
The assumptions are about the environment: a character is a string and none is the one that stands for the end
of a text (`TextsAssumption`); the columns are ones that `ParseHeader` makes (`TypesAssumption`), which for an enum means that
names and values are identifiers, and that its members have numbers for places.

`DecodedCalendarIsReal` is `Spec => []CalendarIsReal`, from the same `Asked`. A decoded date has passed the test on
its day, and 28, 29, 30 or 31 is what `daysInMonth` computes for the month (`MonthLengths`, with the three
divisions of a leap year in `LeapYears`). The digits of a fraction make a number below the power of ten of
their count (`NumberIsSmall`, by induction over the digits), so that the padding of a short
fraction ends below the next whole second (`NanosInRange`). An offset that passed both range tests is less
than a day either way (`OffsetsAreChecked`). For a duration the claim is about the wrapping arithmetic of the code: if
no run of its digits goes beyond an int64, no accumulated part is negative; it goes by induction from the end of the text,
as for the agreement (`PartIsWhole`, `AllPartsAreWhole`). That a timestamp is a datetime with or without
a zone, for a fraction no longer than the digits that are kept, compares three
automata written apart (`TimestampIsEither`).

`DecodedScalarsAreExact` is `Spec => []ScalarsAreExact`: the int is compared with the set of texts that
`strconv.AppendInt` writes for the numbers of the width. Those are the *canonical* digits, no zero before another
digit; two of them with the same number are equal (`CanonicalIsUnique`, by induction over their length: a leading
digit other than 0 bounds the number from below, `LeadingDigit`), and `NatText` is shown to exist, by
uniqueness, and to write them (`NatTexts`). The test before each digit is then a test of the number read
with that digit (`LimitOfDigit`), numbers grow with every digit, and a text too short to be tested cannot
reach the limit (`WidthIsKept`); so no text wraps, at either end, and none within the range is refused. A decimal is
compared with a definition by its parts: `DecimalShape` says both by places, `DecimalForm` what the code takes,
and `FormsAreTexts` that this is a decimal within the limits or one between -1 and 0 whose fraction
is too long (`OverlongFraction`). A hexadecimal
text is written again from its bytes, nibble by nibble (`HexReadsBack`), and the member an enum text
stands for is the least index that fits (`FirstMember`).

The validator and the decoder are instances of FieldChecks and
FieldValues, with copies of all definitions; `CheckIsTheSame` and `ValueIsTheSame` identify them.

**Induction**. The library's induction theorems take an operator as a parameter, which the provers
cannot instantiate. `SetInduction` says the same of a *set* of numbers that has 0 and each successor; it follows
from the theorem on minimal elements of well-founded relations. This puts inductions over the length of a text, or
over the chunks, within reach where the statement can be written as a set. (It is stated where it is
used, in ChunkBufferProofs, RoundTripProofs and ValuesProofs.)

What the proofs changed in the models. `Token` (ScannerHistory) and `Leaving` (Encoder) had CASEs whose
guards overlapped, which leaves the choice open; they are exclusive now. `CommentsOfTheirField` and
`ContinuationComments` compared a wrapped counter with a sum that was not wrapped, which
holds only while the bounds keep the sum small: it is `Int8` of the sum now, and the run `header_reader` has
a counter that wraps. `TooManyComments` is the set of the fields it stands for. `Cut`, `Lines` and
`TextsRead` were split into the step for one piece (`Torn`, `Feed`, `ReadOn`) and its repetition. `FieldLength` was
applied to chunks that are not there. `ScalarsAgree` did not know of the limit on a field's size, which the validator
has and the decoder leaves to the stream; no text of the run was long enough to show it. Working out a proof of `ContainersAgree` showed
five differences that its run had no text for, from a prefix that wraps to zero to an element too large for a float64; they are
named in the property and seeds of the run reach each of them. The seeds for time zones in a list showed a sixth,
of `RewrittenReadsBack`, which section 5 describes. The loops over the parts of a duration
reached a position they were not defined at, and the end of a text and the quote are named characters now, which
no character of a text is by accident (`TextsAssumption`). A power of ten is the decoders' own
loop (`TenTo`) and no longer `^`, of which the provers know nothing, and seconds are counted in `Hour` and
`Minute`. `HexText` says which nibble stands at each place, in place of a concatenation, and the digits of an
int are at least one (`WidthAssumption`). RowStream's `Cut` is a recursive function, and `SafeSpec` its
specification without fairness.

Model-checked only:

 * `EveryRowDelivered` and the liveness of RowStream: liveness under fairness is beyond the prover.
 * The invariants of Values other than `ScalarsAgree`, `ScalarsAreExact` and `CalendarIsReal`, and those of Headers: the
   containers, what the encoder writes and reads back, and the headers. Their operators parse texts by recursion
   several functions deep; the properties compare two or three such parsers, so that an
   induction would run over all of them at once.
 * The properties of the five runs that end in a violation, which are false.

## 5. Where the code and its documents differ

Each of these has a run that ends in a violation of what the document says:

 * `sdk_validator_slices`. `supr/validator.go:252` releases the row, line 261
   then reads the failing field for `ValidationError.Field`. The slice
   points into a chunk whose bytes `releaseUpTo` has just moved.
   `supr/errors.go:45`: "Field  string // Raw field value".
 * `quoted_break`. A comma inside a quoted element sets `containerNewlineOK`
   (`stream.go:879`); then the second line break in that quoted string ends the
   row. Specification, line 749: a newline inside a quoted string "is always
   part of that string and allowed and preserved".
 * `header_angles`. `<` or `>` in an annotation behind an unquoted header field
   changes `genericDepth`, which no row resets (`stream.go:596`); commas of data
   rows then do not split fields. `stream.go:826`: "Track angle brackets for type
   parameters in header mode only".
 * `comment_wraps`. After 128 '#' lines inside a continued row
   `skippedCommentLines` is negative, and the row is accepted.
   `file_validator.go:214`: "Reject # comments mid-data-continuation".
 * `sdk_continuation`. `Validator.Next` judges each physical row (`supr/validator.go:226`),
   and so do the two decoders; a valid row continued behind a trailing comma is found
   invalid. Specification, line 757: "A newline **after a comma** and before the next
   value continues the same logical row".

Others are plain in one line of code, so that a run would only repeat the line; the
models follow the code:

 * The input ends right behind a closing quote: `errUnclosedQuotedField`
   (`stream.go:661`), though the quote is closed (`EndOfInput`).
 * A line break between the last element and `]` ends the row (`stream.go:868`), and so does
   one in an inner row, wherever it stands in it; the specification, lines 881 to 883, continues the
   row. `LineBreakRule` states the rule of the specification, and `EndsEarly` names these places.
 * `fatalError` returns no error collected before it (`file_validator.go:74`; line
   87 promises "all validation errors found").
 * The error for the limit on errors names line 0 on the common path
   (`file_validator.go:204`): `Release` has cleared the row's line (`SingleRow`). A row number is
   "1-based" by the specification (line 931) and "the physical line number" by
   `validate/errors/errors.go:513`. `ErrorsNameTheirRow` asks for no line on that path
   (`LineReleased`) and for the right one on the others.
 * '#' lines at the top of a file, or above an annotation line, are not counted
   for the first header field though they stand right above it
   (`stream.go:335`; specification, line 372). `ContinuationComments` is
   therefore about the lines behind the first.
 * A prefix annotation cut short by a line break leaves its count for the next
   row (`stream.go:403`, `PrefixBlock`, `SkipCut`): in `(x`, line break, `(y) 1,2` the first field
   has two comments. `LeftOver` names this in `CommentsOfTheirField` and `ContinuationComments`. A line break, '#', or NUL behind a
   complete annotation is taken as data (`StartsData`).
 * `WriteRow` writes any string for an enum, a date and the other typed columns that
   take strings, unquoted (`encode/encoders.go:92` to 148); `supr/encoder.go:163` says
   "Type validation is always enabled". `WrittenReadsBack` is about values that fit.
 * `WriteHeader` works behind `Close` (`supr/encoder.go:132`), and its text is then never
   flushed, as a second `Close` returns at once.
 * A list or array of enums, which the guide has (`supercsv-usage-guide-v1.0.md:191`), makes
   `NewValidator`, `NewDecoder` and the conversion of headers panic: `convertColumnType` converts the
   element's kind before it asks whether it is an enum (`supr/header.go:137`). `IsSdkHeader` leaves such
   headers out, and `ConversionPanics` says which they are.

Differences between two parts of the code that are to agree. Each is a named exception in
a property of `values`, which holds with it and fails without it:

 * Validator against decoder, scalars: a float too large for a float64, from about 1.797e308, is
   valid and does not decode (`decode_float.go:121`, `OnlyValid`, `OutOfRange`); a duration with more than nine digits behind the point decodes and is
   not valid, and neither is a text above the limit on a field, which the row decoder
   leaves to the stream (`OnlyDecoded`); a time zone has a greatest length in the validator only (zones are strings, which
   `ScalarsAgree` leaves to `StringsReadBack`).
 * Validator against decoder, containers: no `datetime` or `datetimetz` element is ever valid
   (`validate/validator.go:134`, `UnknownElement`); a quoted enum element decodes only
   (`QuotedEnum`); `[[],[1]]` decodes only (`RowsBehindEmptyOne`), and so does an array whose prefix
   has a number of columns that wraps to zero, as `[2,18446744073709551616][[1],[1,1]]`: the decoder
   takes a width of zero for none (`decode/containers.go:364`) and lets the rows differ, the validator wants them
   empty (`validate/container_stream.go:429`, `ColumnsWrapToZero`). A blank line behind `[` is valid
   only (`BlankLineInside`). The differences between scalars return in elements (`FloatTooLarge`,
   `FractionTooLong`, `ZoneTooLong`) and for the whole field (`TooLong`).
 * Numbers: the digits of a duration, and those of a prefix `[N]`, are multiplied up in an int
   and wrap (`NumberWraps`, the last disjunct of `PrefixesCount`); the decoder takes the
   capacity of its slice from that prefix or the header's length before it counts an element, so that a length beyond
   what a slice can have makes it panic (`decode/containers.go:50`, 311) on a text that the validator
   rejects (`PanicsOnInvalid`, `LengthTooGreat`). Digits at the end of a duration with no letter behind them and
   before `T` are dropped ("P5T1H"). A decimal between -1 and 0 has no limit on its
   fraction in either copy (`OverlongFraction`), though `decode_decimal.go:14` and `dfa/decimal.go:14` say
   "Maximum fractional digits: 64". A timestamp or `datetimetz` takes a longer fraction than nine digits as long as the
   whole text is short enough.
 * Shapes: a column of rank 1 takes a literal of rank 2 without a look at its dimensions, and the
   other way round (`ShapeIgnored`). No comma is needed behind a closing quote
   (`QuoteMeetsElement`); `docs/validator/error-codes.md:314` lists `missing_comma`, and line 346
   `empty_row_in_2d_array`, which nothing raises.
 * Encoder against readers (`LostScalar`, `RowBreaks`): the string "_" is written unquoted and reads as null; so is
   a string with a Unicode blank at an end, which the validator refuses (`EncodeString` quotes it,
   `appendString` does not; a string with DEL, the other way round: `encode/encoders.go:431` against
   758, both in `EncodersAgree`); a duration of zero is written as "P", which no reader
   takes, while its `String` gives "PT0S"; a "]" in a string breaks the search for the end
   of a row of rank 2. A list or an array of time zones does not survive: `AppendTimezone` puts
   quotes around a name with a "/" (`encode/encoders.go:638`), and neither reader takes a quoted element of
   any type but a string or, in the decoder, an enum
   (`validate/container_stream.go:263`, `decode/containers.go:155`), so that
   `[Europe/Paris]` is valid and what is written for it is not. Decoded decimals, bytes and enums are refused by the encoder, which
   wants strings for them (`RefusedKinds`).
 * SDK against header: `toInternalType` drops the fixed length of a list
   (`supr/encoder.go:366`, `EncoderKeepsTypes`); the length "[+5]" is taken as 5
   (`strconv.Atoi`).
 * Annotations: a block with a tab or a lone parenthesis is one for the scan of lines and is data for the scan of
   fields (`TabInBlock`, `LooseParen`); the strict check folds case by setting a bit, which makes a
   space and a parenthesis of the bytes 0 and 8 (`ControlsFold`). A `((` never closed behind a quoted field
   swallows the fields behind it up to the line break (`stream.go:1422`).

## 6. What is not modelled, and what comes next

Left out of the modules above: metadata counters (they mirror the comment
counters), the values inside fields, the texts of errors, and the fast paths that only
avoid copying. `RecordScanner` has no memory and `CsvRows` no quotes, so that a
quoted field across chunks is covered by the two together, not by one run.

Not modelled, and why:

 * The counts of annotations on header fields and the limit of 255 bytes on identifiers
   (`headerdef.go`): plain comparisons with a table; the counting itself is `HeaderReader`'s and
   `Annotations`'. `ToTime` and `ToDuration`: conversions into another library's types, the second
   of which multiplies without a look at the range.
 * `errors.go` and the tables of codes, messages and hints: data. Which of several errors a rejected
   text gets is left out with them, so the models know accepted and rejected only.
 * `validate/containers/containers.go`, an older copy of the container validators: nothing
   imports it. The exported `Encode...` functions other than `EncodeString`: nothing in the repository calls
   them.
 * How a float is read and written: `strconv`. `RewrittenReadsBack` leaves floats out.
 * The command line and the version router: argument parsing around one call, one version.
 * The raw mode of the row decoder, which copies bytes.
 * A whole file of typed values end to end: the composition of `RecordScanner` with Values is by
   their common interface, a field's text, and not by one run; its states would be
   the product of both.

What could come next:

 1. The remaining invariants of Values on top of the lemmas of ValuesProofs: the containers
    are read by one scanner of elements in each copy, so that the induction of `DurationsAgree`
    would carry over to `parseNextElement`.
 2. A refinement of ByteStream's and RowStream's levels into one another for quoted fields, if the
    state space allows it.

Liveness under fairness stays with TLC, and so does what the parsers of containers and headers
compute for all inputs: the first is beyond the prover, the second needs an induction over data that only a
statement about a set of numbers, as those in section 4, can stand in for.
