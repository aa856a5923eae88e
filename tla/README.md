# Verification of the columnar library

This directory models `manticoresoftware/columnar` in TLA+: the secondary
index, from the builder that writes it to the iterators, readers and the shared
cache that answer queries from it; the columnar storage, from the packers of
every column type to the accessors, analyzers and min-max trees that search it;
the vector index, around the library that holds its graph; and the readers of
files below them. TLC checks each model on small instances;
TLAPS proves the invariants and refinements of the row iterator, the bitmap
iterator, the cache, the file of the index and the file reader, and invariants
of the builder and the readers of the index and of the vector index, for every
value of their constants.

Paths below are relative to the root of the repository.

## Inventory

### What the library consists of

| Part | Source | State | Operations |
|---|---|---|---|
| Row iterator | `secondary/iterator.cpp` | position in the blocks of a value, match bits, flags | `Setup`, `HintRowID`, `GetNextRowIdBlock` |
| Bitmap iterator | `secondary/blockreader.cpp` 105-340, `util/bitvec.h` | bitmap, rows left to the cutoff, position | `Add`, `Invert`, `HintRowID`, `GetNextRowIdBlock` |
| Query block cache | `secondary/blockreader.cpp` 621-741 | slots, size, reuse counter, stop flag (all atomic) | `Get…`, `Add…`, `CountReuse`, `IsCacheFull`, `Clear` |
| Values reader | `secondary/blockreader.cpp` 745-1076 | loaded blocks and their ids, pointers into cache or own buffers, offsets | `CreateBlocksIterator`, `BlockLoadCreateIterator` |
| Range reader | `secondary/blockreader.cpp` 1080-1408, `common/filter.cpp`, `common/interval.h` | block and value cursors, iterator context, position of the file reader | warm-up, `AddBlockIterators`, `CreateBlocksIterator` |
| Index life cycle | `secondary/secondary.cpp` | attributes, enabled bits, caches | `Setup`, `ColumnUpdated`, `SaveMeta`, `CreateIterators`, `CalcCount`, `Check` |
| Index builder | `secondary/builder.cpp` | runs in a temporary file, merge queue, row writer, meta | `SetRowID`, `SetAttr`, `Done` |
| Approximate index | `secondary/pgm.h` over an external library | learned segments | `Search` |
| Columnar storage: file and queries | `columnar/columnar.cpp`, `columnar/builder.cpp`, `builder/builderminmax.h`, `accessor/attributeheader.cpp` | headers of the columns, min-max trees, bodies; the iterator of a prefilter | build, `Setup`, `CreateAnalyzerOrPrefilter`, `EstimateMinMax`, `EarlyReject`, `IsFilterDegenerate` |
| Columns | `columnar/builder/`, `columnar/accessor/` | values of the block being built and what is known of them; stored blocks of each packing; walk of an analyzer | `AddDoc`, `Flush`, `Get`, `GetLength`, `GetNextRowIdBlock`, `HintRowID` |
| Storage check | `columnar/accessor/check.cpp` | - | one pass over a file |
| File readers | `util/reader.h`, `util/reader.cpp` | window of the file, position, error flag | `Read`, `Read_uint8`, `ReadFromBuffer`, `Seek` |
| Writers, codecs, bit vectors | `util/` | buffers, a pool of codecs per thread | write, encode, decode |
| Vector index | `knn/` over hnswlib | counts and first ids of the vectors of each row, quantizer and its pool, graph; documents found and position in them | `Train`, `FinalizeTraining`, `SetAttr`, `Save`, `Load`, `CreateIterator`, `GetNextRowIdBlock`, `HintRowID` |
| Embeddings | `embeddings/` (Rust) | models, sessions, download locks | load, embed |

### How they interact

A caller builds an index by handing documents to `Builder_c`, then opens it as
`SecondaryIndex_c`. A query calls `CreateIterators` (const, so any number of
queries at once). For each filter it asks the PGM index for the approximate
blocks of the filter's values, makes a reader over them, and the reader makes
one row iterator per matching value, or adds their rows to one bitmap when
there are many. The readers of all queries share one `BlockCache_T` per
attribute. What comes out implements `BlockIterator_i`: blocks of ascending row
ids, with hints from the caller that skip ahead.

The columnar storage holds whole columns. `Builder_c` hands every attribute of a
row to the packer of its column, which writes a block when the next document
finds it full, in the packing that suits what it saw. `Columnar_c` loads the
headers; a query first asks the min-max trees of all filters which sub-blocks
can match, then runs one analyzer per filter over those sub-blocks, or, if no
filter has an analyzer, iterates over them. Analyzers implement `BlockIterator_i`
as well. A caller may split a query into slices of rows by a filter on
`@rowid`, one per thread; slices share nothing. Values of the rows found are read
by an `Iterator_i` per column.

A vector index is built in two passes over the documents: one thread shows all
of them to `Train`, then several threads add them, each with a `BuildContext_t` of
its own, to one graph and one pool of quantized forms. A loaded index answers a
search with an iterator over the documents found, which also is a
`BlockIterator_i`.

### What is hard about it

* Queries run concurrently and share the cache without a lock: check and
  addition are separate atomic steps.
* Hints come in any order with reads, and an iterator is set up again for the
  next value, so that what one value left behind can be seen by the next.
* A reader keeps blocks loaded between values. Whether a block comes from the
  cache, from its own buffer or from the file depends on the past.
* The row data of a block can only be read right after its values, with a file
  reader that others move.
* Positions are approximate; blocks are looked into in an order that depends on
  what is loaded; a search stops early on a direction.
* Words of a bitmap, blocks of rows and blocks of values have boundaries, and
  cutoffs, bounds and inversions meet them.
* The builder encodes rows in the buffer it collects them in.
* The file is written, closed, patched in place and appended to, and may be cut
  at any of these steps.
* Each block of a column has its own packing, and the object that decodes a
  packing outlives the block: what it decoded last must not be taken for data of
  the next one. Values and lengths are read in any order.
* An analyzer skips sub-blocks and blocks, is hinted in the middle of its walk,
  and collects rows in a buffer whose end it does not check.
* Trees of least and greatest values are not full, the last node of a level may
  be alone, and the rows below it wrap past the last row id; slices are cut by
  floating-point products.
* A read may cross a buffer, exceed it, fail or be cut short.
* Threads that build a vector index write and read one pool without a lock, while
  ids, pool and graph were sized by an earlier pass.

Apart from these and the cache the C++ code is sequential per query; the embeddings library
guards its sessions and downloads by mutexes. `PROJECT.json` lists the hazards,
each with its line and the properties that cover it, or why none does; what
else turned up is under *Divergences*.

### What makes each part correct

* Row iterator: every row of the value that is not below a hint and lies in the
  bounds is returned, once, in order; a caller that keeps asking reaches the end.
* Bitmap iterator: what comes out is the union of the values, or its complement,
  within bounds and cutoff.
* Cache: what a query holds stays as it was; the size stays near the limit and
  equals what was published.
* Values reader: every stored value of the filter gets one iterator, over its
  own rows.
* Range reader: exactly the values of the range, then nothing after a cutoff.
* Builder: the index is the inverse of the documents, in the shape that the
  readers assume.
* Index file: `Setup` takes whole files only; what was updated stays disabled,
  and stays so on disk after a save.
* Storage: every block and every tree is found where it was written; no row of
  an answer is lost by the trees, by slicing, or by the advice given before.
* Columns: a value comes back as it was added; an analyzer is a stream of the
  rows that pass, of the sub-blocks it was given.
* Vector index: a thread compares only with forms that are there; a vector leads to
  its document; a search gives documents the filter allows, as a stream.
* File readers: to their callers a position and an error flag, whatever the
  window.

## Modules

| Module | Models | Instance |
|---|---|---|
| `RowStream` | what a `BlockIterator_i` promises: the abstract specification | - |
| `RowidIterator` | `RowidIterator_T` and the layout of the rows of one value | `MCRowidIterator` |
| `BitmapIterator` | `BitmapIterator_T` over `BitVec_T` and `SplitBitmap_c` | `MCBitmapIterator` |
| `BitmapIteratorProofs` | its theorems | - |
| `BlockCache` | `BlockCache_T`, its use by queries and the warning | `MCBlockCache` |
| `QueryProofs` | the theorems of `RowidIterator` and `BlockCache` | - |
| `ValueBlocks` | the value blocks of an attribute and the positions the PGM index gives | - |
| `Filters` | what a filter asks for and what `FixupFilter` makes of it | - |
| `BlockReader` | `BlockReader_T` on a VALUES filter | in `MCIndexQuery` |
| `RangeReader` | `RangeReader_T` on a RANGE filter | in `MCIndexQuery`, `MCRangeReader` |
| `IndexQuery` | `CreateIterators`: a filter, fixed up and given to its reader | `MCIndexQuery` |
| `IndexQueryProofs` | its theorems, about both readers | - |
| `SIBuilder` | `RawWriter_T`, `SIWriter_T`, `RowWriter_T` for one attribute | `MCSIBuilder` |
| `SIBuilderProofs` | its theorems | - |
| `IndexLife` | what the owner of an index relies on: the abstract specification | - |
| `SIFile` | the file of the index: `Builder_c::Done`, `WriteMeta`, `FileWriter_c`, `CopySingleFile`; `Setup`, `ColumnUpdated`, `SaveMeta` | `MCSIFile` |
| `SIFileProofs` | its theorems | - |
| `ColumnGeometry` | rows, sub-blocks and blocks | - |
| `IntBlocks`, `VarBlocks` | a block of numbers, or of sets and strings, in every packing, and how a sub-block is read back; deltas | - |
| `ColumnScan` | `Analyzer_T`: the walk of an analyzer | - |
| `ColumnBase`, `ColumnInt`, `ColumnVar` | packers, accessors and analyzers by type | - |
| `Column` | a column: built, then read or searched | `MCColumn` |
| `ColumnProofs` | its theorems, about columns of integers, hashes and booleans | - |
| `MinMaxTree` | `MinMaxBuilder_T` and `MinMax_T` | - |
| `ColumnFile` | `columnar::Builder_c` and the headers of the file | - |
| `Columnar` | `Columnar_c`: load, trees, slices, prefilter, advice | `MCColumnar` |
| `ByteReader` | what parsers rely on in a reader: the abstract specification | - |
| `FileReader` | `FileReader_c` and `MappedReader_c` | `MCFileReader` |
| `FileReaderProofs` | its theorems | - |
| `KnnBuilder` | `HNSWIndexBuilder_c` and its quantizer, filled by several threads | in `MCKnn` |
| `Knn` | its `Save`, `KNN_c::Load`, a search, `RowidIteratorKNN_c` | `MCKnn` |
| `KnnProofs` | its theorems, and those of `KnnBuilder` | - |

`RowStream` is the contract of every `BlockIterator_i`: `owed` is the set of rows
still to be returned, and every step must be a step of the stream or a stutter.
Five detailed modules implement it by `INSTANCE RowStream WITH` a refinement
mapping: `RowidIterator`, `BitmapIterator`, `Column` (its analyzers),
`Columnar` (its prefilter) and `Knn`. `SIFile` implements `IndexLife`, and `FileReader`
implements `ByteReader`. `BlockReader` and `RangeReader` extend `Filters`, which
extends `ValueBlocks`, and `IndexQuery` composes them.
What `ValueBlocks` and `RowidIterator` assume of a stored index
(`ValuesAssumption`, `RowidsAssumption`) is what `SIBuilder` checks of the one it
builds (`BlocksSearchable`, `IndexIsInverse`, `DescribesItsRows`). `Column` and
`Columnar` meet in the list of matching sub-blocks: `Columnar` makes it, and
`Column` takes any such list (`Matchings`).

Variables carry the names of the members they model, or name them in a comment;
actions carry the names of the functions, one action per branch that ends a
function differently. History variables (`returned`, `hint`, `made`, `docs`,
...) are marked as such and guard nothing. Definitions headed *Mutant* are
plausible wrong versions of the one they precede, to show that the properties
can fail; nothing uses them.

### RowidIterator

`Setup` points the iterator at another value and keeps the words of
`m_dMatchingBlocks`, as `BitVec_T::Resize` does. `GetNextRowIdBlock` splits into
the first call (`StartWhole`, `StartList`), a rewind to the next matching block,
a read after a hint, and the answers of a stopped iterator. `HintRowID` splits
into a hint that is ignored, one that stops, one past the end, and a move.
Left out: the codec, the statistics and the description. The position past the
last block is kept as one number, since a stopped iterator never reads it.

### BitmapIterator

One `AddBlock` is one pass of the loop in `Add`; the cutoff may cut the block,
and the bitmap is then resized. The blocks of a value that are still to come are a
set of sets of rows, of which the lowest is next, as the iterator that is added
gives them. `Invert` flips whole words and masks
the first and last: where the mask shifts by the width of the word, the model
takes either of the two masks a build can produce. A bitmap is split when its
length exceeds the limit (a scaled constant) and remembers calls of the
operations that a split bitmap does not support.

### BlockCache

Each thread runs queries: look up a slot, load, count reuse, check the size,
publish by compare-exchange, add the size. Each of these is a step, so other
threads run in between. The counters start with values of `SizeAtStart` and so
on: the constructor does not set them (`secondary/blockreader.cpp:641`), so the
proofs allow any. The run starts from an empty and from a full-looking counter.
`SizeBounded` and `SizeAccounts` hold for whatever the size counter starts
with. The memory of `SizeAccounts` is counted byte by byte, as the number of
elements of a set, so that nothing has to be summed over slots. `Clear` requires that no query runs, since `ClearCache` is not const and the caller excludes queries.

### ValueBlocks, Filters, BlockReader, RangeReader, IndexQuery

The PGM index is external. `Search` allows every position within `Epsilon` of
the true one whose interval holds it: what the library promises. `BlockReader`
then visits the values in the order of their first blocks, as the code sorts
them; every load may or may not find the block in the cache, and every insertion
may or may not succeed, so the model covers every behaviour of the cache.
`RangeReader` estimates the blocks of a range and enumerates. The position of the
file reader is modelled as the block whose values were read last, or elsewhere,
which a bitmap causes.

The caller's values and ends are of 64 bits, those of the attribute of 32; both
readers cut them (`Narrow`). `Filters` removes values outside the column and opens
ends outside the type before, and `IndexQuery` says of the iterators what the
caller asked for, so that a value or an end that is cut to a stored one would show.
A filter that excludes (`m_bExclude`) is answered with the same iterators, whose rows
a bitmap collects and inverts at the end; collecting and inverting are in
`BitmapIterator`. Its values are not removed, whatever they are.
It starts with any filter and its reader; the other reader idles. `NOTNULL` is the
range without ends.

### SIBuilder

Documents are collected, flushed as sorted runs every `MaxRows` rows, merged and
written. `EncodeRowsBlock` moves rows to the start of the buffer when they are
not aligned and then leaves deltas in their place; the model marks those cells
so that any later use of them would show.

### SIFile, IndexLife

A file is a sequence of items, one for each thing the builder writes, and every
`FileWriter_c` holds its file, its buffer and its position. The builder's steps
are one write to a buffer, one `Seek` or one `Close` each, so that at most one
write of the operating system happens in a step, and `Crash` may come between
any two; `Fail` is each `return false` for a file that cannot be opened or
copied, after which the destructor of the writer still flushes it. `Setup`
(`Accepts`) goes over whatever is there as the code does: the header, the bounds
of the meta, every item of it, the PGM indexes, and tables of offsets that must
follow one another inside the file. `m_hAttrs` maps a name to its attribute and
the name of a JSON column to its first field. A `SaveMeta` that cannot open the
file, or has nothing to save, changes nothing and is no step.

`IndexLife` has four variables: whether there is a whole file, whether an index
is open, and the attributes disabled on disk and in memory. `SIFile` implements
it with `whole` mapped to `Accepts`: the one step that makes `Accepts` true is
the copy of the last item.

Left out: writes that fail or are short. `FileWriter_c::Flush` records the first
and does not see the second, nobody asks, and `Done` returns true over a file
that `Setup` may take; nothing in the repository says otherwise.

### ColumnGeometry, IntBlocks, VarBlocks, ColumnScan, ColumnBase, ColumnInt, ColumnVar, Column

A column of one type and a filter are fixed by `Init` out of small sets of
`[kind, docs, filter, uses]`. `AddDoc` collects documents with what the packer
learns of them; `Flush` chooses the packing and writes a block as a record of a
header and a body of words. The packings are `CONST`, `TABLE`, `DELTA`
and `GENERIC` of integers, `CONST` and `BITMAP` of booleans, `CONST`, `CONSTLEN`,
`TABLE` and `DELTA_PFOR` of sets, `CONST`, `CONSTLEN`, `TABLE` and
`GENERIC` of strings. The codecs are external and keep what they are given; deltas
are computed modulo `Word`.

`acc` is the accessor: the header of its block, and the sub-block it decoded last
(`sized`, `fixed`, `lens`, with its number). `Get` and `GetLength` move it
and read; strings are read on from where the reader is, or after a seek.

An analyzer is `ColumnScan`: `GetNextRowIdBlock` takes one step per sub-block
(`ProcessSubblock`), one to move on and one to enter a block (`EnterBlock`), as
what a type does there changes its own state. The processing functions that
`CreateAnalyzer` chooses among differ by packing, filter and the number of
values; `Accepts`, `PassesInt` and `PassesVar` say what each of them tests,
including the rows past the end of a partial sub-block of strings of one length
that are tested although there are none (with garbage for the value).

### MinMaxTree, ColumnFile, Columnar

The file is a sequence of cells, one for each number written; `HeaderCells` and
`LoadHeader` are the two sides of a header, `SaveMinMax` and `LoadMinMax` those
of a tree. `Typed` maps a stored number to the order the tree compares it in:
signed, unsigned, boolean, float. `Eval` is `MinMaxEval_T::DoEval` as the set of
nodes it reaches at a level. `FetchRowIdLimits` multiplies in floating point:
`Bounds` lets every product that should be whole also come out one less.
`CreateAnalyzerOrPrefilter` takes the rows an analyzer finds to be its answer in
the matching sub-blocks, which is what `Column` checks; `BlockIterator_c` is
modelled row by row, with its buffer. `BlockTester_i` is the caller's: a range
passes if it may hold an accepted value. `Done` may fail while bodies are
copied, which leaves a file nobody loads.

### ByteReader, FileReader

A file reader keeps a window of the file. Each `pread` may fail, return
nothing, or return less than is there; `ReadLong`, `ReadAcross`, `ReadEnds` and
`ReadFails` are the turns of the loop of `Read`, so that such a fault may hit any
refill. A mapped reader has the file as its window. `ByteReader` has a
position, a sticky error flag and one action each for a read that succeeds, one
that fails, and a seek; a read may only fail at the end of the file, or if
the system disturbed it. What a failed read leaves in its destination is `Lost`.

### KnnBuilder, Knn

A vector stands for its codes, so that the pool and the graph say whose code is
where. `Train` goes over the rows in order; `FinalizeTraining` splits into the
build that is refused, the pool that cannot be made (the caller may try again) and
success. The vectors of a document are added by its thread in three steps: the
form for comparison into the pool, the stored form into the context of the thread,
`addPoint`; other threads step in between. `VecID` is the id under which the
vector lies in both. A `Save` follows when no thread is busy, as the caller must
see to. hnswlib is external: a search finds any documents of at most the number
asked for that the filter allows, in any order, each once. `SortByRowID` is
modelled by its two sorts, the radix sort pass by pass.

## Runs

| Run | Shows |
|---|---|
| `rowid_iterator` | safety and termination of the iterator, and that it implements `RowStream`, over a single row, a block and lists with a full and a partial last block |
| `bitmap_iterator` | the answer in the bitmap and the stream out of it, with overlapping values, bounds, cutoffs, exclusion, and plain and split bitmaps |
| `block_cache` | two queries on two blocks in every interleaving, from counters that start right or wrong |
| `index_query` | seven filters of values, including or excluding, over three blocks, every estimate, every cache behaviour; ranges with every pair of ends at, between and outside the values, open, closed, unbounded, with and without a cutoff; values and ends outside the type |
| `knn` | builds of documents with no, one or several vectors by two threads, for every quantization, with more vectors than ids, with files of every version; searches with every filter, read under hints |
| `si_builder` | every sequence of up to five documents of seven kinds, for exact and for float attributes |
| `si_file` | two builds of three attributes, failed or cut anywhere, opened, updated by any name, saved or not, and opened again |
| `column` | columns of every type, each with blocks of every packing next to one another, read in any order or searched with hints, lists of sub-blocks and cutoffs |
| `columnar` | storages of up to three columns, loaded; queries of one or two filters, whole and in slices; the prefilter under hints; the advice |
| `file_reader` | reads, seeks and faults in any order, over files shorter and longer than the buffer |

Two runs are expected to find a violation. Each checks one claim that a
comment makes and the code does not keep; `PROJECT.json` quotes the claim and the
cause.

| Run | Claim that fails |
|---|---|
| `range_wide` | wide ends are clamped: an end beyond the far limit of the type is not and wraps |
| `index_exclude` | the bitmap of an excluding filter collects the rows that must be excluded: a value outside the type also collects those of the stored value it narrows to |

Each property of a passing run has a mutant in `PROJECT.json` that breaks it.
No run checks a type invariant: those of five modules are proved, the others are
kept in their modules for the proofs to come.

### Bounds, and why they are enough

* `MCRowidIterator`: blocks of two rows, words of two bits, up to three blocks,
  so that a list spans words; hints below, on, between and past the rows.
* `MCBitmapIterator`: seven rows in words of two bits (so that the last word is
  partial), pieces of two words when split, a buffer of four results.
* `MCBlockCache`: two threads, two blocks with two slots each, costs 1 and 2
  and a limit of 2. A third thread adds no new pair of steps; the bound for any
  number of threads is proved.
* `MCIndexQuery`: two full blocks of four values and a short one with an error of
  one: the smallest with a middle block that satisfies
  `2 * Epsilon + 2 <= ValuesPerBlock` (the code has 8 and 128); a type of sixteen
  values within wide limits. A filter of `MCAsked` that excludes values outside the type
  is run, but the property says nothing of such values; `MCOutside`, of `index_exclude`,
  has them. `MCRangeReader` has ranges outside the type.
* `MCKnn`: two threads, up to six vectors, eight ids (which two builds exceed, in
  one document or in sum), up to three results in chunks of two; row ids of two
  digits of three, sorted by digits from three results on.
* `MCSIBuilder`: five documents in runs of two, blocks of two values and of two
  rows, alignment two, so that lists of blocks start on both alignments and a
  value block is followed by another.
* `MCColumn`: blocks of four rows in sub-blocks of two, tables of two values,
  lists of two values compared in turn; columns of up to four blocks, so that
  every packing follows every other, and short last blocks and sub-blocks.
* `MCColumnar`: up to seven sub-blocks, so that a tree has four levels with a
  lone last node on two of them, and the reduction of estimates (here from three
  levels on, by one) applies; 32 row ids, which the rows below the right-most
  nodes exceed; slices in twos, threes and fours, some with bounds that should be
  whole; no rows at all, and fewer rows than slices; a filter on hashes, which have no
  tree, so that the sub-blocks are those of the slice.
* `MCFileReader`: a buffer of two bytes, files of zero to seven, reads of up to
  three buffers; all bytes of a file differ.
* `MCSIFile`: three attributes, two of them fields of one JSON column with the
  other between them, each with no value or a partial, a full or two blocks; a
  buffer of three items and copies of two, so that writes fall in and between
  buffers; two builds, so that one overwrites what another left.

### Fairness

Weak fairness is assumed of the caller's request for more rows (`RowidIterator`,
and `Column`, whose analyzer is asked until it ends), since a caller that stops
asking gets nothing, and of the steps of the two index readers, each of
which is a loop of one thread. The cache, whose callers come and go, the builders, whose caller may never
finish, the file, whose builder may die, and the readers, have none; for the
builder of the index TLC checks that it deadlocks nowhere short of a finished
index. Runs with `CHECK_DEADLOCK FALSE` are those of readers, which end.

## Proofs

TLAPS checks the following for every value of the constants that satisfies the
assumptions of the module.

`QueryProofs` assumes of the rows stored for a value (`RowidIterator`) that they are not empty and
ascend, and that blocks and words have at least one element.

* `TypeCorrect`: `TypeOK`.
* `NoRowLost`: `NothingLost`.
* `RowsInOrder`: `InOrder`.
* `StreamRefinement`: the iterator implements `RowStream`.

They share one inductive invariant, `IInv`. `NothingLost` is not inductive: a
read moves to the next matching block, so one must know that the bit of every
overlapping block is set (bits left over from before do no harm to this
direction), that a stopped iterator owes nothing, and that the rows of the
blocks before the current one have been returned or are below the hint.
`InOrder` needs that whatever was returned lies before the current block.
Lemmas state how blocks partition the ascending rows of a value; one lemma per
action shows that it keeps the invariant and maps to a step of the stream.

`BitmapIteratorProofs` assumes of the values that their rows ascend and are those
of the index, that bounds are intervals of rows, and that a block, a word, a piece
and a buffer have at least one element.

* `TypeCorrect`: `TypeOK`.
* `BitmapIsAnswer`: `ExactAnswer`; `OnlyAnswerRows`: `NoForeignRow`. Both need
  `RowsFit`, the hypothesis that there are at most `IntMax` pairs of a value and a
  row of it. TLC violates both when `IntMax` is 2: see *Divergences*.
* `CutoffIsRespected`: `CutoffRespected`, with no such hypothesis.
* `StreamRefinement`: the bitmap implements `RowStream`.

The invariant `IInv` says of a bitmap being filled that every row wanted is in it
or still to come, in a block of the value at hand or in a value not begun, until the
cutoff is hit; that the blocks to come are disjoint, so that a row is counted once for
each value; and that the rows left suffice for all pairs still to come, or, with a
cutoff, are what the bits leave of it. Of a bitmap being read it says that whatever is
owed lies in the word that comes next or later, and whatever was returned before it.
The words are what the proof spends most on: that
the rows of a word lie between its ends (`WordIs`), that words ascend with their
rows (`WordsAscend`), and what the first and last mask of `Invert` leave
(`Inverted`). `Lowest(n, set)` counts by cardinality, so that taking the lowest rows
of a block needs a lemma of its own (`LowestCounts`), by a least counterexample.

For `BlockCache`, `QueryProofs` assumes finite sets of threads and blocks and costs between 1 and
`CostMax`; the counters may start with anything.

* `CacheTypes`: `CacheTypeOK`.
* `HeldCopiesStay`: `HeldStaysPublished`.
* `SizeWithinBound`: `SizeBounded`.
* `SizeIsMemory`: `SizeAccounts`.
* `ReuseNeverWraps`: `ReuseStops`, if `ReuseRoom` holds: the counter starts either
  so that it stops, or far enough from the end of its word, for every thread to count
  once more. The code's counter has 64 bits and stops in their middle; garbage at
  the very end of the word would wrap.

The invariant `CacheInv` adds that an idle thread holds nothing, which a `Clear`
needs, and `RoomForAdding`: the size and what threads past the check may still
add stay within the bound together. The cardinality of the set of such threads
changes by one with each check and each addition. `ReuseNeverWraps` rests on
`RoomForCounting`, the same argument for the threads past the check of
`m_bStopCounting`.

`IndexQueryProofs` assumes of the stored values that they are not empty, ascend and are
of the attribute's type, that a prediction spans two blocks at most
(`2 * Epsilon + 2 <= ValuesPerBlock`, where the code has 8 and 128) with an error of at
least one, so that a value past all that are stored still has a block to look at, and that
filters keep within the wide type. `Search` may return any position the library allows, and
the cache may gain any block at any time.

* `EachValueFound`: `FindsEachValueOnce`.
* `RangeIsExact`: `ExactRange`.
* `RowsAreOfTheBlock`: `RowsOfTheBlock`.

`IInv` has a part for each reader. `ValueInv` says of every value that its window, of at
most two blocks, has the block of the value if there is one (`IterFits`), and of the
value being looked up that the checks still to make include that block (`ChecksFit`).
Checks that were made are dropped, so one must know that a block which tells the reader
to stop leaves no other to find the value in: the scan comes last and has one
block, or the value was in the block just checked. It needs as well that offsets are
consecutive, because `LoadBlockOffsets` keeps what it has when the first one and
their number are those of the next window, and that what the reader takes for loaded is
what its pointers show, wherever the cache put it (`SeenIsLoaded`). `RangeInv` says that
what was made are exactly the admitted positions before the one the reader is at
(`Covered`), and that nothing admitted lies after the last block. A block of which the
first and the last value are admitted is added whole, which is right as a range has
no gaps. `DataFits` relates the position of the file reader to the block: it stands at
the block's rows until the first iterator of the block loads them, and the data is the
block's afterwards. `ExactRange` speaks of ranges that meet the type (`FixupIs`: what the
fixed-up range admits of it is what the caller means), the other two of any filter. What is proved of the blocks
themselves are lemmas over quotients (`Quotient`, `QuotientIs`, `BlockSpans`).

`SIBuilderProofs` assumes that documents are sequences of numbers, that those which are
no float vectors have no value twice, that runs, blocks, pieces and the codec's
boundary have at least one element, that the tolerance for floats is not negative, and
that the mark of a spoilt cell is no row.

* `TypeCorrect`: `TypeOK`.
* `NothingIsLost`: `NothingLost`.
* `IndexInverse`: `IndexIsInverse`.
* `RowsDescribed`: `DescribesItsRows`.
* `Searchable`: `BlocksSearchable`.

`IndexIsInverse` speaks of a finished index, so `IInv` says where every pair of a value
and a row is before that: the pairs of the documents are those in memory, those of the
runs that no reader has taken, those in the writer and those in the index, together
(`PairsKept`). `CollectedFit` has the runs sorted and, unless values are floats, without
a pair twice. `MergeFits` has whatever is left of any run after the pair taken last,
which holds because the reader at the top of the queue has the least pair of all that is
left (`TopIsLeast`); from it rows of a value ascend and values do. `WriterFits` lays the
rows of the values one after the other. `IndexFits` describes the items written, and has
the values of the writer after all of them, so that a flush keeps the order over blocks.
The rows of a block are encoded in the buffer that holds them: `EncodeRowsBlock` moves a
piece to the start of the buffer when it is not aligned, and spoils what it has read.
`PieceEncoded`, `RowsEncoded` and `ItemEncoded` prove that this never reaches a row that
has yet to be encoded (`Keeps`), since a piece ends where the next one begins. That
`std::sort` yields a sorted sequence of the same pairs is proved of its definition
(`OrderExists`, `SortedIs`): an order exists for any sequence, whatever its length.

`PairsKept` says nothing of how often a pair occurs, and nothing of floats: a vector may
hold a value twice, and a float that counts as equal to the last one is stored as it.
`NothingLost` does, and is inductive only for more than the pairs it counts: `Conserved`
counts, for any set of pairs (`CountIn`), those in memory and in the runs (`Waiting`) and
those in the writer and in the index (`Placed`), and has them as many as were collected; of
floats this is asked for the sets that do not tell pairs of a row apart (`Whole`).
`KeptNear` adds that every float collected waits or has become one near it, which `Conserved`
cannot tell. Every action is a `Grown` step, which collects pairs or none, or a `Moved` step,
which takes the pair on top and places it or one near it; what each of them does to the
numbers needs that counts add up over joined sequences (`CountJoined`, `FlattenJoined`), that
sorting keeps them (`CountSorted`), and that a block has the pairs of the writer it is
made of (`BlockLists`), in whatever pieces they were encoded.

`SIFileProofs` assumes that the schema is a sequence of attributes with different
names, none of which is the name of a JSON column, sizes of at least one, and that no
attribute has as many distinct values as the largest number their count can be
(`CountAssumption`, which `NamesAgree` needs: see *Divergences*).

* `TypeCorrect`: `TypeOK`.
* `AcceptedAreWhole`: `AcceptedIsWhole`; `BuiltAreAccepted`: `BuiltIsAccepted`.
* `NoUpdateLost`: `NoLostUpdate`; `AllNamesAgree`: `NamesAgree`.
* `LifeRefinement`: builder, file and index implement `IndexLife`.

Neither of the first two invariants is inductive, since they say nothing of a file
that is not accepted. `IInv` states, phase by phase, what a writer's file and its buffer are
together (`Content`): which blocks and offsets are out while blocks are written, where
the tables of the attributes start, what of the meta is there, and which part of the
temporary files has been copied (`Laid`). `AtRest` says that whatever a builder left
behind, and whatever index was saved over it, a file that `Setup` takes is laid out to
the end; that a file cut short is not taken follows from the bounds `Setup` checks.
The one step that makes the file acceptable is the last of the copy, which is the step
of `IndexLife` in which a file becomes whole. That the reader gets back the offsets
the builder had is the lemma `DeltasInverted`.

`FileReaderProofs` assumes that files are sequences of bytes, that the buffer
holds at least one byte and that reads are of up to `MaxLen >= 1` bytes.

* `TypeCorrect`: `TypeOK`.
* `BufferStaysWindow`: `BufferIsWindow`.
* `ReaderRefinement`: both readers implement `ByteReader`.

The invariant `IInv` states the window with `Piece` (a sequence is what the file
has from a position on), which joins and splits without arithmetic on
`SubSeq`. The refinement needs more than the window: what a read has copied is
the piece just before its position (`CopiedInOrder`), else the bytes it returns
in the end could be the wrong ones; and after the last refill the rest is in the
window unless the file ends there or the system disturbed the call
(`RestIsThere`), else a read could fail in the middle of a file for no reason.
That last part holds because the rest is never longer than the buffer when the
loop over long reads ends.

`KnnProofs` assumes that the counts of vectors are naturals, all 1 if the attribute is
not multi, that only files from version 4 on are multi, and that there is at least one id;
threads, documents and their number are any.

* `FormsAreThere`: `FetchesOwnCode`.
* `DocsAreFound`: `FindsItsDocs`.

`IInv` follows a vector from its document through the hands of a thread into the graph:
no vector is in none of them (`NoneForgotten`), a thread that is to quantize or to add has
put the form into the pool before (`ThreadOK`), and an entry of the pool or of the graph
holds only the vector whose id it is (`PoolOK`, `GraphOK`), so that threads never overwrite
one another. This needs that ids are different and within the pool (`IdsAre`), which rests
on `FirstIs` and `FirstAscends`, about the sums that `FinalizeTraining` computes, and on
training: unless it is refused, no count has wrapped (`InTraining`). `FindsItsDocs` needs
that the map written by `Save` leads back from the same sums (`MapLeads`).

`ColumnProofs` assumes that a block is a whole number of sub-blocks, neither of them
empty, that a table may have two values and a word hold the sizes of a block's parts, that
the values of a filter differ, that hashes have no range, and that the lists of matching
sub-blocks ascend. Documents, filters, hints and cutoffs are any. Its theorems speak of columns of integers, hashes and booleans (`Numeric`); in the same
specification the other columns stay with TLC.

* `NumbersReadBack`: `GetsWhatWasAdded`.
* `NumbersFound`: `NoForeignRow`; `NumbersStream`: the analyzer implements `RowStream`.
* `NumbersFitBuffer`: `BufferHolds`; `NumbersKeepCutoff`: `CutoffRespected`.

What an analyzer finds is proved of filters that are `Sound`: all but lists of 2 to
`LinearLimit` values to be excluded from numbers, which the code takes wrong (see
*Divergences*). `NumbersStream` needs as well that the column has fewer rows than
the count that stands for no cutoff (`Short`): the code counts down from `INT_MAX` either way.

`FileInv` is the invariant of what is written and read. `PackerFits` says that each block
is `WellWritten` for the documents it has, in the packing the packer chose: a constant is
every value, a table has no value twice and the codes of a sub-block name its values, and
what is decoded of any other sub-block are its values. Deltas are the hard case: their
differences and their sums both wrap at `Word`, ascending or not, and the sizes of the
parts are deltas as well. What is known of the block being built (`PendingFits`) decides
the packing, so a table must have every value and a constant must be one. `ReaderFits` says
that whatever the accessor has kept is that of the block it stands on, and the sub-block it
holds is the one of its number. Either could be stale: `SetCurBlock` forgets the sub-block
for some packings only, and keeps what other packings left.

`WalkInv` follows an analyzer. `RowsFit` says of the rows that pass where each is: what is
owed is found, or lies in a sub-block from the current one on; what was given lies before.
`CountFits` relates the cutoff to the number of rows given. `Ready` says that a block is
scanned only after its constant was accepted, or its table searched for the filter's
values. A block that is not accepted has no row that passes (`RejectedIs`), so it may be
skipped, and what a skip leaves out of the list of sub-blocks is all of that block
(`RewoundIs`). `ScanIs` has what the scan of one sub-block adds: its rows that pass, in order,
whichever processing function was chosen.

The library's induction theorems cannot be instantiated here. Where an
argument is by induction, over a recursive function, over the number of elements of a
set or over lengths, the proofs take a least counterexample instead (`LeastNatural`),
which they get from the set of counterexamples being a set of naturals.

Every inductive invariant named here was an invariant of a TLC run on the instance
of its module before it was proved.

Only model-checked: liveness (`Drains`, `LooksUpAll`), which is out of the prover's
reach; that the iterator over what a vector search found implements `RowStream`, since
it sorts with recursive definitions; the violation runs; columns of sets, vectors and
strings, whose packings share the walk and little else with numbers; and the storage
(`Columnar`), whose answers rest on a file read cell by cell, on trees, and on rounding.

## Divergences

What the code does differently from what its callers, its comments or its other
half expect. The two of which a comment in the code says otherwise are violation
runs. The others are left out of the inputs of the passing runs, or out of a
property, each by name, and everything else is checked.

Secondary index:

* The inversion of a row range that starts or ends on the edge of a word shifts
  by the word's width (`util/bitvec.h:72`); `ShiftUndefined` names the case, and
  `ExactAnswer` leaves it out.
* The range reader hands its cutoff to an excluding bitmap, which is then
  inverted without the rows that were not added (`secondary/blockreader.cpp:1316`;
  the values reader avoids this at 932); `NoForeignRow` leaves it out.
* The rows left to the cutoff count down from `INT_MAX` also when there is no cutoff
  (`secondary/blockreader.cpp:246`), by a row once for every value that has it: past
  `INT_MAX` such pairs, which sets of many values reach with fewer rows, rows would be
  left out. `RowsFit` excludes it.
* The cutoff resizes a split bitmap, whose `Resize` asserts that nobody does
  (`secondary/blockreader.cpp:312`); without assertions nothing is lost. It also
  hides rows of earlier values in later words (313).
* The counters of the cache are uninitialised (`secondary/blockreader.cpp:641`),
  so its warning may say that an empty cache is full.
* With bounds, "per-block filtering is performed inside the iterator"
  (`secondary/blockreader.cpp:277`), but match bits of the previous value survive
  `Setup`, so blocks outside the bounds are returned as well; the contract of
  `BlockIterator_i` allows them, and `NothingLost` and `InOrder` hold. And the
  loaded block is tried first "in case it fits the range"
  (`secondary/blockreader.cpp:894`), but the condition accepts any loaded block
  at or before the start; `FindsEachValueOnce` holds with it.
* A filter that excludes keeps values outside the type (`secondary/secondary.cpp:694`),
  each of which is looked up as the value it narrows to and leaves its rows out, when it is
  stored; `FindsEachValueOnce` leaves such values out, and `index_exclude` shows the case.
* `GetCountDistinct` of a disabled attribute is not the -1 of a name that does not exist:
  -1 is converted to the unsigned type of the count (`secondary/secondary.cpp:398`) and
  comes out as 4294967295. Nothing in the repository says what it should be; `NamesAgree` says
  that it is not the count the attribute was built with.
* The count of an excluding filter counts a row once per value
  (`secondary/secondary.cpp:805`); counts of rows come from vectors that a file of
  version 6 does not fill (`secondary/blockreader.cpp:989`); a full scan of a float
  column starts at the smallest positive float (`secondary/secondary.cpp:45`).

Columns:

* An excluding list of 2 to 128 numbers, outside a table, is compared in turn, and a row
  passes at the first value it differs from (`columnar/accessor/accessorint.cpp:792`), so
  every row does. `MCIntCases` has no such list, and `Sound` leaves it out of the proofs.
* The stored block of strings of different lengths forgets neither the sub-block
  nor the string it read last when it moves to another block
  (`columnar/accessor/accessorstr.cpp:313`). Columns read in any order have at
  most one such block, those searched by an analyzer may have it among others.
* The length of a string of a block of strings of one length is the offset of the
  values (`columnar/accessor/accessorstr.cpp:76`); `GetsWhatWasAdded` leaves it out.
* An analyzer of such a block tests a whole sub-block of rows when the last one
  is partial, with garbage for values (`PassesNoValue`), and may return rows that
  do not exist; columns of the instance end in other packings or in a whole
  sub-block.
* Blocks of signed 64-bit tables compare a range as unsigned numbers; columns
  hold non-negative numbers.
* The hashes of a string filter are not sorted, and more than 128 are searched by
  bisection (`common/filter.cpp:86`); filters list values in order.
* A range open at a value that a set holds as its least ignores its maximum
  (`columnar/accessor/accessormva.cpp:127`); `ALL` with one value passes an empty
  set. `MCSetFilters` has neither.
* Vectors that each start with their least component are flagged sorted but not
  written as deltas (`columnar/builder/buildermva.cpp:237`), and the reader undoes
  deltas that are not there; each block of `MCVectors` has a vector that does not.
* Vectors are read past the buffer by a `pread` whose result nobody looks at
  (`columnar/accessor/accessormva.cpp:352`); a constant-length block that is
  compressed and not buffered is read without a seek.

Storage:

* When too many sub-blocks match, the vector that `TryToCreatePrefilter` returns
  holds a null pointer (`columnar/columnar.cpp:782`), and of up to a hundred
  sub-blocks all but one are too many; in the model the caller looks at all rows.
* `PopulateMatchingBlocks` may list sub-blocks past the end
  (`columnar/columnar.cpp:608`): one for the last slice, and all of them for the first
  slices when there are more slices than rows. `Columnar` makes these lists; `Column` takes
  lists inside the column only.
* `IsFilterDegenerate` (`columnar/columnar.cpp:731`) does not ask whether a filter excludes;
  the instances have no filter that excludes both booleans.
* A packer that ends ignores whether its body was written
  (`columnar/builder/buildertraits.h:130`); a builder that fails leaves a file
  under its final name.
* The check reads two numbers for each node of a tree of booleans, which has one
  byte a node (`columnar/accessor/attributeheader.cpp:113`), and rejects blocks of
  float vectors (`columnar/accessor/accessormva.cpp:1287`).

Files: a write that fails is remembered in a flag that nobody reads, one that is
short is not noticed (`util/util_private.cpp:280`).

## Not modelled

* `CalcCount` and `GetNumIterators` (`secondary/secondary.cpp`), sums of what the
  readers find.
* `Check` of an index and of the storage: passes over a file that only report.
* `knn/`: distances, codes, quantiles and the graph of hnswlib, numeric or external
  and approximate by design; `ShouldUseFullscan`, an estimate of costs; several
  attributes in one file; documents of a wrong size, which are refused; what a
  failed write of the file leaves. `embeddings/`: inference and
  downloads behind an FFI, one lock per model.
* Codecs, PGM segments: external; the models use what they promise.
* Writes that fail or are short, in both builders.
* Versions of the formats before the current one; floats and 64-bit values in the
  readers of the index; the number of rows under a cutoff, which nothing promises
  from below. Floats closer than the tolerance are merged by the builder of the
  index into a value whose rows no longer ascend; `IndexIsInverse` speaks of the
  other types.
* Names and types that do not exist, expressions, and the settings of columns
  other than sizes and hashes.

## Plan

Done: all modules above, and the proofs about the row iterator, the bitmap
iterator, the cache, the builder of the index, both its readers, its file, the file
reader, the vector index and columns of numbers.

Next, proofs, in this order:

1. `Column` for sets and strings: the walk of the analyzer is proved from what a type
   says of its sub-blocks (`ScanIs`, `RejectedIs`, `Ready`); these and `WellWritten` are to be
   proved of their packings.
2. `Columnar`: that its slices cover the answer, from a lemma on the trees.
