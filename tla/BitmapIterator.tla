--------------------------- MODULE BitmapIterator ---------------------------
(***************************************************************************)
(* BitmapIterator_T (secondary/blockreader.cpp) over BitVec_T<uint64_t>    *)
(* (util/bitvec.h) or SplitBitmap_c, from the moment a reader spawns it to *)
(* its last row.  CreateBlocksIterator of BlockReader_T ("values") or      *)
(* RangeReaderBase_T ("range") adds the rows of every matching value block *)
(* by block, trims them to the row-id bounds, stops at the cutoff, inverts *)
(* the bits for an exclude filter and hands the iterator to the caller,    *)
(* who reads it with GetNextRowIdBlock and HintRowID.                      *)
(***************************************************************************)
EXTENDS Integers, Sequences, FiniteSets

CONSTANTS
    Value,              \* the values of the attribute, numbers in index order
    Rowids,             \* Rowids[v]: the ascending row ids stored for v
    NumRows,            \* m_uRowsCount: the rows of the shard
    RowidsPerBlock,     \* m_uRowidsPerBlock
    WordBits,           \* SIZEBITS (64)
    SplitWords,         \* words of one bitmap of a SplitBitmap_c (1024)
    ResultSize,         \* RESULT_BLOCK_SIZE (1024)
    IntMax,             \* m_iRowsLeft without a cutoff
    Bounds, NoBounds,   \* row-id bounds a query may carry, [min, max], or none
    Cutoffs, NoCutoff,  \* cutoffs a query may carry, or none
    HintRow             \* the row ids a caller may hint

AllRows == 0 .. NumRows - 1

ASSUME ValuesAssumption ==
    /\ Value \subseteq Nat /\ IsFiniteSet(Value)
    /\ Rowids \in [Value -> Seq(AllRows)]
    /\ \A v \in Value : \A i, j \in DOMAIN Rowids[v] : i < j => Rowids[v][i] < Rowids[v][j]

\* Bounds lie within the shard: Invert indexes the words by them.
ASSUME BoundsAssumption ==
    /\ Bounds \subseteq {b \in [min : AllRows, max : AllRows] : b.min <= b.max}
    /\ NoBounds \notin Bounds

ASSUME SizesAssumption ==
    /\ {NumRows, RowidsPerBlock, WordBits, SplitWords} \subseteq Nat \ {0}
    /\ ResultSize \in Nat /\ ResultSize > WordBits
    /\ Cutoffs \subseteq Nat \ {0} /\ NoCutoff \notin Cutoffs
    /\ HintRow \subseteq Nat /\ IntMax \in Nat

VARIABLES
    query,              \* reader, exclude, bounds, cutoff, matched: what was asked
    split,              \* the bitmap is a SplitBitmap_c
    todo,               \* the matching values not added yet
    blocks,             \* the blocks the iterator of the current value still holds
    bits,               \* the bits set in m_dData
    size,               \* m_iSize
    rowsLeft,           \* m_iRowsLeft
    index,              \* m_iIndex, a word
    fetching,           \* CreateBlocksIterator has returned
    hint,               \* history: the largest row hinted
    returned,           \* history: the rows returned
    front,              \* history: one past the last row returned
    ended               \* history: a call answered "no more rows"

building == <<todo, blocks, bits, size, rowsLeft>>
reading == <<index, hint, returned, front, ended>>
vars == <<query, split, building, fetching, reading>>
----------------------------------------------------------------------------
(* The rows of a value, as RowidIterator_T delivers them (see RowidIterator): *)
(* the blocks of RowidsPerBlock rows that overlap the bounds.              *)

InBounds(r) == query.bounds # NoBounds => query.bounds.min <= r /\ r <= query.bounds.max

\* The stored block that holds the i-th row of a value.
StoredBlock(v, i) ==
    {Rowids[v][j] : j \in {j \in DOMAIN Rowids[v] :
                               (j - 1) \div RowidsPerBlock = (i - 1) \div RowidsPerBlock}}
OverlapsBounds(B) ==
    query.bounds # NoBounds =>
        (\E r \in B : r <= query.bounds.max) /\ (\E r \in B : query.bounds.min <= r)
Blocks(v) == {B \in {StoredBlock(v, i) : i \in DOMAIN Rowids[v]} : OverlapsBounds(B)}

HasCutoff ==
    /\ query.cutoff # NoCutoff
    /\ query.reader = "values" => ~query.exclude
WasCutoffHit == HasCutoff /\ rowsLeft = 0

\* SpawnBitmapIterator, then SetCutoff: BlockReader_T leaves it out for an
\* exclude filter, RangeReaderBase_T does not.  A split bitmap is never spawned
\* for an exclude filter.
Init ==
    /\ query \in [reader : {"values", "range"}, exclude : BOOLEAN,
                  bounds : Bounds \cup {NoBounds}, cutoff : Cutoffs \cup {NoCutoff},
                  matched : SUBSET Value]
    /\ split \in BOOLEAN
    /\ split => ~query.exclude
    /\ todo = query.matched
    /\ blocks = {}
    /\ bits = {}
    /\ size = NumRows
    /\ rowsLeft = IF HasCutoff THEN query.cutoff ELSE IntMax
    /\ fetching = FALSE
    /\ index = 0
    /\ hint = 0
    /\ returned = {}
    /\ front = 0
    /\ ended = FALSE
----------------------------------------------------------------------------
(* Adding. *)

\* AddIterator: the common iterator is set up for the next value.  The range
\* reader goes through the values in order and stops at the cutoff; the value
\* reader meets them in the order of their blocks and ignores the cutoff here.
BeginValue ==
    /\ ~fetching /\ blocks = {}
    /\ query.reader = "range" => ~WasCutoffHit
    /\ \E v \in todo :
          /\ query.reader = "range" => \A w \in todo : v <= w
          /\ todo' = todo \ {v}
          /\ blocks' = Blocks(v)
    /\ UNCHANGED <<query, split, bits, size, rowsLeft, fetching, reading>>

\* Mutant: blocks are not trimmed to the bounds.
Untrimmed(B) == B

\* lower_bound / upper_bound over the block.
Trimmed(B) == {r \in B : InBounds(r)}

\* Mutant: the row at the cutoff is set as well.
LowestAndNext(S, n) == {r \in S : Cardinality({x \in S : x < r}) <= n}

\* The n lowest rows of S.
Lowest(S, n) == {r \in S : Cardinality({x \in S : x < r}) < n}

\* The common iterator delivers the blocks in the order of their rows.
IsNext(B) == \A r \in UNION blocks : \E b \in B : b <= r

\* One turn of the loop of Add.  A block the cutoff cuts short shrinks the bitmap
\* to the last row set, which a split bitmap cannot do: its Resize only asserts that it
\* is not called.
AddBlock ==
    /\ ~fetching /\ rowsLeft > 0
    /\ \E B \in blocks : \E rows \in {Trimmed(B)} : \E taken \in {Lowest(rows, rowsLeft)} :
          /\ IsNext(B) /\ blocks' = blocks \ {B}
          /\ bits' = bits \cup taken
          /\ rowsLeft' = rowsLeft - Cardinality(taken)
          /\ \/ ~(HasCutoff /\ taken # rows) /\ UNCHANGED size
             \/ /\ HasCutoff /\ taken # rows
                /\ IF split THEN UNCHANGED size
                   ELSE \E last \in taken : (\A r \in taken : r <= last) /\ size' = last + 1
    /\ UNCHANGED <<query, split, todo, fetching, reading>>

\* The loop reads one more block and leaves it when no rows are left.
AddStops ==
    /\ ~fetching /\ blocks # {} /\ rowsLeft = 0
    /\ blocks' = {}
    /\ UNCHANGED <<query, split, todo, bits, size, rowsLeft, fetching, reading>>
----------------------------------------------------------------------------
(* BitVec_T::Invert, which the bounds, or the whole bitmap, delimit.       *)

MinBit == IF query.bounds = NoBounds THEN 0 ELSE query.bounds.min
MaxBit == IF query.bounds = NoBounds THEN size - 1 ELSE query.bounds.max
Word(b) == b \div WordBits

\* Mutant: the last word is taken for one past the end.
FlippedButLast ==
    {b \in 0 .. Word(MaxBit) * WordBits - 1 : Word(MinBit) <= Word(b) /\ b \notin bits}
    \cup {b \in bits : Word(b) < Word(MinBit) \/ Word(b) >= Word(MaxBit)}

\* Whole words are flipped, from the word of MinBit to the word of MaxBit.
Flipped ==
    {b \in 0 .. (Word(MaxBit) + 1) * WordBits - 1 : Word(MinBit) <= Word(b) /\ b \notin bits}
    \cup {b \in bits : Word(b) < Word(MinBit) \/ Word(b) > Word(MaxBit)}

\* The mask for the last word shifts by the bits it keeps.  When it keeps all of
\* them the shift is as wide as the word, which C++ leaves undefined: the masks a
\* build produces are no bits (the shift count taken modulo the width) or all.
ShiftUndefined == (MaxBit + 1) % WordBits = 0
Invert ==
    \E lastWordKept \in IF ShiftUndefined THEN BOOLEAN ELSE {TRUE} :
        bits' = {b \in Flipped :
                    /\ Word(b) = Word(MinBit) => MinBit <= b
                    /\ Word(b) = Word(MaxBit) => b <= MaxBit /\ lastWordKept}

\* CreateBlocksIterator inverts at last and pushes the bitmap iterator.
FinishAdding ==
    /\ ~fetching /\ blocks = {}
    /\ todo = {} \/ (query.reader = "range" /\ WasCutoffHit)
    /\ IF query.exclude THEN Invert ELSE UNCHANGED bits
    /\ fetching' = TRUE
    /\ UNCHANGED <<query, split, todo, blocks, size, rowsLeft, reading>>
----------------------------------------------------------------------------
(* Reading. *)

DataLen == (size + WordBits - 1) \div WordBits

\* The rows the iterator can hand out: Resize hides the words behind m_iDataLen.
Visible == {b \in bits : Word(b) < DataLen}
RowsInWords(from, to) == {b \in Visible : from <= Word(b) /\ Word(b) < to}

\* A split bitmap fetches from one of its bitmaps at a time, the first with rows.
FetchLimit ==
    IF split
    THEN LET ahead == RowsInWords(index, DataLen)
             first == CHOOSE b \in ahead : \A x \in ahead : b <= x
         IN  IF ahead = {} THEN DataLen ELSE (Word(first) \div SplitWords + 1) * SplitWords
    ELSE DataLen

\* Fetch takes whole words until fewer than WordBits places are left.
FetchStops(k) ==
    k >= FetchLimit \/ Cardinality(RowsInWords(index, k)) >= ResultSize - WordBits
FetchEnd ==
    CHOOSE k \in index .. (index + DataLen + SplitWords) :
        FetchStops(k) /\ \A j \in index .. k - 1 : ~FetchStops(j)

\* The rows B go to the caller; no rows mean that there are no more.  If one of
\* them is not above all rows before it, front goes where no row can be.
Hand(B) ==
    \/ /\ B # {}
       /\ returned' = returned \cup B
       /\ \E last \in B :
             /\ \A r \in B : r <= last
             /\ front' = IF \E r \in B : r < front THEN -1 ELSE last + 1
       /\ UNCHANGED ended
    \/ B = {} /\ ended' = TRUE /\ UNCHANGED <<returned, front>>

GetNextRowIdBlock ==
    /\ fetching
    /\ Hand(RowsInWords(index, FetchEnd))
    /\ index' = FetchEnd
    /\ UNCHANGED <<query, split, building, fetching, hint>>

\* Mutant: a hint rewinds backwards as well.
HintRowIDRewinds ==
    /\ fetching
    /\ \E r \in HintRow :
          /\ index' = Word(r)
          /\ hint' = IF r > hint THEN r ELSE hint
          /\ ended' = (ended \/ index' >= size)
    /\ UNCHANGED <<query, split, building, fetching, returned, front>>

\* HintRowID moves by whole words, forward only, and compares the word it stands
\* on with the length in bits.
HintRowID ==
    /\ fetching
    /\ \E r \in HintRow :
          /\ index' = IF Word(r) > index THEN Word(r) ELSE index
          /\ hint' = IF r > hint THEN r ELSE hint
          /\ ended' = (ended \/ index' >= size)
    /\ UNCHANGED <<query, split, building, fetching, returned, front>>

Next ==
    \/ BeginValue \/ AddBlock \/ AddStops \/ FinishAdding
    \/ GetNextRowIdBlock \/ HintRowID

Spec == Init /\ [][Next]_vars

----------------------------------------------------------------------------
(* Properties. *)

TypeOK ==
    /\ split \in BOOLEAN /\ fetching \in BOOLEAN
    /\ ended \in BOOLEAN
    /\ todo \subseteq query.matched
    /\ blocks \subseteq SUBSET AllRows
    /\ bits \subseteq 0 .. (Word(NumRows - 1) + 1) * WordBits - 1
    /\ size \in 1 .. NumRows
    /\ {rowsLeft, index, hint} \subseteq Nat /\ front \in Nat \cup {-1}
    /\ returned \subseteq Nat

RowsOf(v) == {Rowids[v][i] : i \in DOMAIN Rowids[v]}
MatchedRows == UNION {RowsOf(v) : v \in query.matched}
Answer ==
    {r \in AllRows : InBounds(r) /\ (query.exclude <=> r \notin MatchedRows)}

\* m_iRowsLeft counts down from INT_MAX without a cutoff as well, and by a row
\* once for every value that has it.
RowsFit == Cardinality({p \in Value \X AllRows : p[2] \in RowsOf(p[1])}) <= IntMax

\* However many values, bounds and blocks went into it, the bitmap of a query the
\* cutoff did not end holds exactly the rows of the answer, except for the last
\* word of an exclude filter when the shift of Invert is undefined.
ExactAnswer ==
    fetching /\ ~WasCutoffHit /\ ~(query.exclude /\ ShiftUndefined) => Visible = Answer

\* No row outside the answer is ever handed out, except by a range exclude filter
\* whose cutoff was hit before the inversion.
NoForeignRow ==
    fetching /\ ~(query.exclude /\ WasCutoffHit) => Visible \subseteq Answer

\* A filter that is not excluding never sets more rows than its cutoff.
CutoffRespected ==
    query.cutoff # NoCutoff /\ ~query.exclude => Cardinality(bits) <= query.cutoff

\* While rows are read the bitmap iterator keeps the contract of BlockIterator_i
\* for the rows in the bitmap: none lost, none twice, none after a larger one.
Owed == IF fetching THEN {r \in Visible : r >= hint /\ r \notin returned} ELSE {}
Stream == INSTANCE RowStream
    WITH owed <- Owed, Row <- 0 .. (Word(NumRows - 1) + 1) * WordBits - 1
ImplementsStream == Stream!Spec

=============================================================================
