----------------------------- MODULE SIBuilder -----------------------------
(***************************************************************************)
(* The builder of a secondary index (secondary/builder.cpp), for one       *)
(* attribute: the values of the documents are collected in memory, sorted  *)
(* and appended to a temporary file as runs (RawWriter_T), merged from the *)
(* file with a priority queue (SIWriter_T::Process) and written as value    *)
(* blocks, each with the rows of its values in blocks of their own          *)
(* (RowWriter_T).  Rows are encoded in the buffer they are collected in,    *)
(* which moves and overwrites parts of it.                                  *)
(***************************************************************************)
EXTENDS Integers, FiniteSets, SequencesExt

CONSTANTS
    Doc,                \* what a document may hold: sequences of values
    Vector,             \* of these, the ones only a float vector can be
    MaxDocs,            \* the number of documents, at most
    MaxRows,            \* m_uMaxRows
    ValuesPerBlock,     \* VALUES_PER_BLOCK
    RowidsPerBlock,     \* ROWIDS_PER_BLOCK
    Align,              \* row ids in 128 bits (needPaddingTo128Bits)
    Tolerance,          \* how far equal floats are apart (FloatEqual)
    Spoilt              \* what EncodeDelta leaves in place of a row id

ASSUME BuilderAssumption ==
    /\ Doc \subseteq Seq(Int) /\ Vector \subseteq Doc
    /\ \A d \in Doc \ Vector : \A i, j \in DOMAIN d : d[i] = d[j] => i = j
    /\ {MaxDocs, MaxRows, ValuesPerBlock, RowidsPerBlock, Align} \subseteq Nat \ {0}
    /\ Tolerance \in Nat /\ Spoilt \notin Nat

VARIABLES
    isFloat,            \* IS_FLOAT_VALUE
    docs,               \* history: the documents so far, document i + 1 is row i
    phase,              \* where the builder is
    rows,               \* RawWriter_T::m_dRows
    runs,               \* the runs in the temporary file, from m_dOffset to the next
    read,               \* how much of each run its reader has taken
    wValues,            \* RowWriter_T::m_dValues
    wRowStart,          \* m_dRowStart
    wRows,              \* m_dRows
    totalValues,        \* m_uTotalValues
    minMax,             \* m_tMin, m_tMax
    index               \* the value blocks written so far

writer == <<wValues, wRowStart, wRows, totalValues, minMax, index>>
vars == <<isFloat, docs, phase, rows, runs, read, writer>>

Pair(v, r) == [value |-> v, row |-> r]
Before(a, b) == a.value < b.value \/ (a.value = b.value /\ a.row < b.row)

Init ==
    /\ isFloat \in BOOLEAN
    /\ docs = << >> /\ phase = "collect"
    /\ rows = << >> /\ runs = << >> /\ read = << >>
    /\ wValues = << >> /\ wRowStart = << >> /\ wRows = << >>
    /\ totalValues = 0 /\ minMax = <<0, 0>>
    /\ index = << >>
----------------------------------------------------------------------------
(* Collecting. *)

\* RawWriter_T::Flush: what is in memory becomes a run of the file.
\* Mutant: it is not sorted.
FlushedUnsorted == IF rows = << >> THEN runs ELSE Append(runs, rows)

\* std::sort.
Sorted(pairs) ==
    LET order == CHOOSE p \in Bijection(DOMAIN pairs, DOMAIN pairs) :
                    \A i, j \in DOMAIN pairs : i < j => ~Before(pairs[p[j]], pairs[p[i]])
    IN  [i \in DOMAIN pairs |-> pairs[order[i]]]

Flushed == IF rows = << >> THEN runs ELSE Append(runs, Sorted(rows))

\* SetRowID, then SetAttr for the values of the document.
SetRow(doc) ==
    /\ phase = "collect" /\ Len(docs) < MaxDocs
    /\ doc \in Vector => isFloat
    /\ LET row == Len(docs)
           full == row % MaxRows = 0
           added == [i \in DOMAIN doc |-> Pair(doc[i], row)]
       IN  /\ runs' = IF full THEN Flushed ELSE runs
           /\ rows' = (IF full THEN << >> ELSE rows) \o added
    /\ docs' = Append(docs, doc)
    /\ UNCHANGED <<isFloat, phase, read, writer>>

\* Builder_c::Done flushes the tail and gives every run a reader.
\* Mutant: the tail is dropped with the memory.
DoneWithoutTail ==
    /\ phase = "collect"
    /\ runs' = runs
    /\ rows' = << >>
    /\ read' = [c \in DOMAIN runs' |-> 0]
    /\ phase' = "fill"
    /\ UNCHANGED <<isFloat, docs, writer>>

Done ==
    /\ phase = "collect"
    /\ runs' = Flushed
    /\ rows' = << >>
    /\ read' = [c \in DOMAIN runs' |-> 0]
    /\ phase' = "fill"
    /\ UNCHANGED <<isFloat, docs, writer>>
----------------------------------------------------------------------------
(* The row ids of a value. *)

\* How many rows the writer has for its value number item.
RowCount(item) ==
    (IF item < Len(wRowStart) THEN wRowStart[item + 1] ELSE Len(wRows)) - wRowStart[item]

\* EncodeRowsBlock: row ids that do not start on a boundary of the codec are moved
\* to the start of the buffer, over what was there; then their deltas replace them.
AtStart(buffer, offset, count) ==
    [i \in DOMAIN buffer |-> IF i <= count THEN buffer[offset + i] ELSE buffer[i]]
SpoiltAt(buffer, offset, count) ==
    [i \in DOMAIN buffer |-> IF offset < i /\ i <= offset + count THEN Spoilt ELSE buffer[i]]

EncodeRowsBlock(state, offset, count) ==
    LET moved == offset % Align # 0
        buffer == IF moved THEN AtStart(state.buffer, offset, count) ELSE state.buffer
        from == IF moved THEN 0 ELSE offset
    IN  [buffer |-> SpoiltAt(buffer, from, count),
         pieces |-> Append(state.pieces, SubSeq(buffer, from + 1, from + count))]

\* The blocks of one value: one, or those of WriteBlockList.
PieceCount(count) == (count + RowidsPerBlock - 1) \div RowidsPerBlock
PieceStart(start, k) == start + (k - 1) * RowidsPerBlock
PieceLength(count, k) ==
    IF k < PieceCount(count) THEN RowidsPerBlock ELSE count - (k - 1) * RowidsPerBlock

EncodeRows(buffer, start, count) ==
    LET after[k \in 0 .. PieceCount(count)] ==
            IF k = 0 THEN [buffer |-> buffer, pieces |-> << >>]
            ELSE EncodeRowsBlock(after[k - 1], PieceStart(start, k), PieceLength(count, k))
    IN  after[PieceCount(count)]

Packing(count) ==
    IF count = 1 THEN "ROW"
    ELSE IF count <= RowidsPerBlock THEN "ROW_BLOCK"
    ELSE "ROW_BLOCKS_LIST"

\* m_dMinMax of WriteBlockList.
MinMaxTable(buffer, start, count) ==
    [k \in 1 .. PieceCount(count) |->
        <<buffer[PieceStart(start, k) + 1],
          buffer[PieceStart(start, k) + PieceLength(count, k)]>>]

\* What FlushBlock writes of value number item, its first and its last row taken from
\* the buffer looked up, and the buffer after it.
Encoded(state, item) ==
    IF Packing(RowCount(item)) = "ROW" THEN [buffer |-> state.buffer, pieces |-> << >>]
    ELSE EncodeRows(state.buffer, wRowStart[item], RowCount(item))

WithItem(state, item, encoded, lookedUp) ==
    LET start == wRowStart[item]
        count == RowCount(item)
    IN  [buffer |-> encoded.buffer,
         items  |-> Append(state.items,
             [value |-> wValues[item], packing |-> Packing(count), count |-> count,
              min |-> lookedUp[start + 1], max |-> lookedUp[start + count],
              table |-> IF Packing(count) = "ROW_BLOCKS_LIST"
                        THEN MinMaxTable(state.buffer, start, count) ELSE << >>,
              pieces |-> encoded.pieces])]

\* Mutant: the smallest and the largest row are looked up after the encoding.
EncodeItemBeforeMinMax(state, item) ==
    WithItem(state, item, Encoded(state, item), Encoded(state, item).buffer)

EncodeItem(state, item) == WithItem(state, item, Encoded(state, item), state.buffer)

BlockOfValues ==
    LET after[item \in 0 .. Len(wValues)] ==
            IF item = 0 THEN [buffer |-> wRows, items |-> << >>]
            ELSE EncodeItem(after[item - 1], item)
    IN  after[Len(wValues)].items
----------------------------------------------------------------------------
(* Value blocks. *)

LeastOf(S) == CHOOSE v \in S : \A w \in S : v <= w
GreatestOf(S) == CHOOSE v \in S : \A w \in S : w <= v

DetermineMinMax ==
    LET seen == ToSet(wValues) \cup (IF totalValues # 0 THEN {minMax[1], minMax[2]} ELSE {})
    IN  <<LeastOf(seen), GreatestOf(seen)>>

\* FlushBlock and ResetData; a writer without values writes nothing.
FlushBlock ==
    IF wValues = << >> THEN UNCHANGED <<totalValues, minMax, index>>
    ELSE /\ minMax' = DetermineMinMax
         /\ totalValues' = totalValues + Len(wValues)
         /\ index' = Append(index, BlockOfValues)

\* AddValue, to a writer that has just been flushed or not.
AddValue(pair, values, starts, buffer) ==
    /\ wValues' = Append(values, pair.value)
    /\ wRowStart' = Append(starts, Len(buffer))
    /\ wRows' = Append(buffer, pair.row)

NewValue(pair) ==
    IF Len(wValues) < ValuesPerBlock
    THEN AddValue(pair, wValues, wRowStart, wRows) /\ UNCHANGED <<totalValues, minMax, index>>
    ELSE FlushBlock /\ AddValue(pair, << >>, << >>, << >>)

\* m_tLastValue is the value AddValue put last.
SameValue(v) ==
    LET last == wValues[Len(wValues)]
    IN  IF isFloat THEN v - last <= Tolerance /\ last - v <= Tolerance ELSE v = last
----------------------------------------------------------------------------
(* Merging. *)

Unread == {c \in DOMAIN runs : read[c] < Len(runs[c])}
Upcoming(c) == runs[c][read[c] + 1]

\* The run the priority queue has on top.
\* Mutant: values alone are compared.
TopByValue(c) == c \in Unread /\ \A d \in Unread : Upcoming(c).value <= Upcoming(d).value

Top(c) == c \in Unread /\ \A d \in Unread \ {c} : Before(Upcoming(c), Upcoming(d))

\* BinValue_T::Read puts the next pair of the run into the queue.
Take(c) == read' = [read EXCEPT ![c] = @ + 1]

\* The initial fill of Process.
FirstValue ==
    /\ phase = "fill"
    /\ \E c \in DOMAIN runs :
          Top(c) /\ Take(c) /\ AddValue(Upcoming(c), wValues, wRowStart, wRows)
    /\ phase' = "merge"
    /\ UNCHANGED <<isFloat, docs, rows, runs, totalValues, minMax, index>>

\* ... of an attribute no document has a value of.
NoValue ==
    /\ phase = "fill" /\ runs = << >>
    /\ phase' = "merge"
    /\ UNCHANGED <<isFloat, docs, rows, runs, read, writer>>

\* RowWriter_T::NextValue.
NextValue ==
    /\ phase = "merge"
    /\ \E c \in DOMAIN runs :
          /\ Top(c) /\ Take(c)
          /\ IF SameValue(Upcoming(c).value)
             THEN wRows' = Append(wRows, Upcoming(c).row)
                  /\ UNCHANGED <<wValues, wRowStart, totalValues, minMax, index>>
             ELSE NewValue(Upcoming(c))
    /\ UNCHANGED <<isFloat, docs, phase, rows, runs>>

\* RowWriter_T::Done.
Finish ==
    /\ phase = "merge" /\ Unread = {}
    /\ FlushBlock
    /\ wValues' = << >> /\ wRowStart' = << >> /\ wRows' = << >>
    /\ phase' = "done"
    /\ UNCHANGED <<isFloat, docs, rows, runs, read>>

Process == FirstValue \/ NoValue \/ NextValue \/ Finish

\* The index is built; anything else that cannot go on is a deadlock.
Built == phase = "done" /\ UNCHANGED vars

Next == (\E doc \in Doc : SetRow(doc)) \/ Done \/ Process \/ Built

Spec == Init /\ [][Next]_vars
----------------------------------------------------------------------------
(* Properties. *)

Items == FlattenSeq(index)
RowsOf(item) == IF item.packing = "ROW" THEN <<item.min>> ELSE FlattenSeq(item.pieces)

TypeOK ==
    /\ phase \in {"collect", "fill", "merge", "done"}
    /\ docs \in Seq(Doc) /\ Len(docs) <= MaxDocs
    /\ DOMAIN read \subseteq DOMAIN runs
    /\ \A c \in DOMAIN read : read[c] \in 0 .. Len(runs[c])
    /\ Len(wValues) = Len(wRowStart) /\ Len(wValues) <= ValuesPerBlock
    /\ \A i \in DOMAIN wRowStart : wRowStart[i] \in 0 .. Len(wRows) - 1
    /\ totalValues = Len(Items)

\* Every value of every document is somewhere on its way, in memory, in a run, in
\* the writer or in the index, exactly once, whatever was flushed and merged;
\* floats may have become a value the code takes for equal.
InMemory == rows
InRuns == FlattenSeq([c \in DOMAIN runs |->
              SubSeq(runs[c], (IF c \in DOMAIN read THEN read[c] ELSE 0) + 1, Len(runs[c]))])
InWriter == FlattenSeq([i \in DOMAIN wValues |->
              [k \in 1 .. RowCount(i) |-> Pair(wValues[i], wRows[wRowStart[i] + k])]])
InIndex == FlattenSeq([i \in DOMAIN Items |->
              [k \in DOMAIN RowsOf(Items[i]) |-> Pair(Items[i].value, RowsOf(Items[i])[k])]])
OnItsWay == InMemory \o InRuns \o InWriter \o InIndex

Collected == FlattenSeq([i \in DOMAIN docs |->
              [k \in DOMAIN docs[i] |-> Pair(docs[i][k], i - 1)]])

Times(pair, pairs) == Cardinality({i \in DOMAIN pairs : pairs[i] = pair})
RowTimes(r, pairs) == Cardinality({i \in DOMAIN pairs : pairs[i].row = r})
Near(v, w) == v - w <= Tolerance /\ w - v <= Tolerance

NothingLost ==
    /\ \A r \in {p.row : p \in ToSet(OnItsWay) \cup ToSet(Collected)} :
          RowTimes(r, OnItsWay) = RowTimes(r, Collected)
    /\ \A p \in ToSet(Collected) :
          IF isFloat
          THEN \E q \in ToSet(OnItsWay) : q.row = p.row /\ Near(q.value, p.value)
          ELSE Times(p, OnItsWay) = Times(p, Collected)

\* The index of an attribute that is not a float is the inverse of the documents:
\* the values and, for each, the ascending rows of the documents with it.
\* This is what the readers of the index assume (RowidsAssumption of RowidIterator,
\* ValuesAssumption of ValueBlocks).
RowsWith(v) == {i - 1 : i \in {i \in DOMAIN docs : v \in ToSet(docs[i])}}
DistinctValues == UNION {ToSet(docs[i]) : i \in DOMAIN docs}
Ascending(s) == \A i \in 1 .. Len(s) - 1 : s[i] < s[i + 1]

IndexIsInverse ==
    phase = "done" /\ ~isFloat =>
        /\ {Items[i].value : i \in DOMAIN Items} = DistinctValues
        /\ \A item \in ToSet(Items) :
              Ascending(RowsOf(item)) /\ ToSet(RowsOf(item)) = RowsWith(item.value)

\* What is written about the rows of a value agrees with the rows: their number, the
\* first and the last, and the table of a list of blocks.
DescribesItsRows ==
    \A item \in ToSet(Items) :
        /\ item.count = Len(RowsOf(item))
        /\ item.min = RowsOf(item)[1] /\ item.max = Last(RowsOf(item))
        /\ item.packing = "ROW_BLOCKS_LIST" =>
              item.table = [k \in DOMAIN item.pieces |-> <<item.pieces[k][1], Last(item.pieces[k])>>]

\* The values ascend, over all blocks, and every block but the last is full: the PGM
\* index is built over them (the assertion in Process) and positions become blocks.
BlocksSearchable ==
    /\ Ascending([i \in DOMAIN Items |-> Items[i].value])
    /\ \A b \in DOMAIN index :
          IF b < Len(index) THEN Len(index[b]) = ValuesPerBlock ELSE index[b] # << >>

=============================================================================
