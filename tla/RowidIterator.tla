--------------------------- MODULE RowidIterator ---------------------------
(***************************************************************************)
(* RowidIterator_T (secondary/iterator.cpp): the iterator over the row ids *)
(* stored for one value of a secondary index.  A value's rows are packed   *)
(* as a single row, as one block, or as a list of blocks with a min/max    *)
(* table; with row-id bounds, only the blocks whose min/max overlaps the   *)
(* bounds are read.  HintRowID moves forward over whole blocks, Setup      *)
(* points the same object at the rows of another value.                    *)
(***************************************************************************)
EXTENDS Integers, Sequences, FiniteSets

CONSTANTS
    Value,              \* the values that have rows in the index
    Rowids,             \* Rowids[v]: the ascending row ids stored for v
    RowidsPerBlock,     \* m_uRowidsPerBlock
    WordBits,           \* bits per word of m_dMatchingBlocks (64)
    Bounds,             \* row-id bounds a query may carry, [min, max]
    NoBounds,           \* a query without bounds (pBounds==nullptr)
    HintRow             \* the row ids a caller may hint

Row == UNION {{Rowids[v][i] : i \in DOMAIN Rowids[v]} : v \in Value}

\* The builder stores the rows of a value in ascending order (rows are added in
\* document order and merged in that order).
ASSUME RowidsAssumption ==
    /\ Rowids \in [Value -> Seq(Nat)]
    /\ \A v \in Value :
          /\ Rowids[v] # << >>
          /\ \A i, j \in DOMAIN Rowids[v] : i < j => Rowids[v][i] < Rowids[v][j]

ASSUME ParamAssumption ==
    /\ RowidsPerBlock \in Nat \ {0}
    /\ WordBits \in Nat \ {0}
    /\ HintRow \subseteq Nat
    /\ Bounds \subseteq [min : Nat, max : Nat]
    /\ NoBounds \notin Bounds

VARIABLES
    bounds,             \* m_tBounds / the ROWID_RANGE template parameter
    val,                \* the value Setup pointed the iterator at
    started,            \* m_bStarted
    stopped,            \* m_bStopped
    needToRewind,       \* m_bNeedToRewind
    curBlock,           \* m_iCurBlock
    matching,           \* the bits of m_dMatchingBlocks.m_dData
    words,              \* the words m_dMatchingBlocks.m_dData holds
    hint,               \* history: the largest row hinted for this value
    returned,           \* history: the rows returned for this value
    front,              \* history: one past the last row returned
    disordered,         \* history: a row was returned out of order or twice
    ended               \* history: a call answered "no more rows"

history == <<hint, returned, front, disordered, ended>>
vars == <<bounds, val, started, stopped, needToRewind, curBlock, matching,
          words, history>>
----------------------------------------------------------------------------
(* What the builder stored for the current value. *)

uCount == Len(Rowids[val])
uMinRowID == Rowids[val][1]
uMaxRowID == Rowids[val][uCount]

Packing == IF uCount = 1 THEN "ROW"
           ELSE IF uCount <= RowidsPerBlock THEN "ROW_BLOCK"
           ELSE "ROW_BLOCKS_LIST"

\* The row ids the builder put into block b, counted from 0, and their number.
NumBlocks == (uCount + RowidsPerBlock - 1) \div RowidsPerBlock
StoredInBlock(b) ==
    IF b < NumBlocks - 1 THEN RowidsPerBlock ELSE uCount - b * RowidsPerBlock
BlockMin(b) == Rowids[val][b * RowidsPerBlock + 1]
BlockMax(b) == Rowids[val][b * RowidsPerBlock + StoredInBlock(b)]

Overlaps(lo, hi) ==
    bounds # NoBounds => lo <= bounds.max /\ bounds.min <= hi

InBounds(r) == bounds # NoBounds => bounds.min <= r /\ r <= bounds.max
----------------------------------------------------------------------------
(* Reading. *)

CalcNumBlockRowids(b) ==
    IF b < NumBlocks - 1 THEN RowidsPerBlock
    ELSE IF uCount % RowidsPerBlock # 0 THEN uCount % RowidsPerBlock
    ELSE RowidsPerBlock

\* The rows ReadNextBlock decodes from block b: as many as it asks for.
BlockRows(b) ==
    {Rowids[val][b * RowidsPerBlock + i] : i \in 1 .. CalcNumBlockRowids(b)}

AllRows == {Rowids[val][i] : i \in 1 .. uCount}

\* BitVec_T::Resize to n bits keeps the words it has; it reallocates, and so
\* clears, only to grow.
WordsFor(n) == (n + WordBits - 1) \div WordBits
GrownTo(n) == IF WordsFor(n) > words THEN WordsFor(n) ELSE words
ResizedBits(n) == IF WordsFor(n) > words THEN {} ELSE matching

\* The blocks MarkMatchingBlocks finds and the bits it leaves set.
OverlappingBlocks ==
    {b \in 0 .. NumBlocks - 1 : Overlaps(BlockMin(b), BlockMax(b))}
MarkedBits ==
    IF bounds = NoBounds THEN 0 .. GrownTo(NumBlocks) * WordBits - 1
    ELSE ResizedBits(NumBlocks) \cup OverlappingBlocks

\* RewindToNextMatchingBlock from block b: the blocks it can still reach.
Later(b) == {k \in matching : b < k /\ k < NumBlocks}

IsLeast(k, S) == k \in S /\ \A x \in S : k <= x

\* A call hands out the rows B.
Return(B) ==
    /\ returned' = returned \cup B
    /\ \E last \in B : (\A r \in B : r <= last) /\ front' = last + 1
    /\ disordered' = (disordered \/ \E r \in B : r < front)
    /\ UNCHANGED <<hint, ended>>

\* A call answers "no more rows".
Deny ==
    /\ ended' = TRUE
    /\ UNCHANGED <<hint, returned, front, disordered>>
----------------------------------------------------------------------------
(* StartBlock: the first GetNextRowIdBlock. *)

StartWhole ==
    /\ Packing \in {"ROW", "ROW_BLOCK"}
    /\ stopped' = TRUE
    /\ Return(AllRows)
    /\ UNCHANGED <<curBlock, matching, words>>

StartList ==
    /\ Packing = "ROW_BLOCKS_LIST"
    /\ matching' = MarkedBits
    /\ words' = GrownTo(NumBlocks)
    /\ \/ /\ OverlappingBlocks = {}
          /\ stopped' = TRUE
          /\ Deny
          /\ UNCHANGED curBlock
       \/ \E k \in OverlappingBlocks :
          /\ IsLeast(k, OverlappingBlocks)
          /\ curBlock' = k
          /\ Return(BlockRows(k))
          /\ UNCHANGED stopped

StartBlock ==
    /\ ~stopped /\ ~started
    /\ started' = TRUE
    /\ StartWhole \/ StartList
    /\ UNCHANGED <<bounds, val, needToRewind>>
----------------------------------------------------------------------------
(* GetNextRowIdBlock after the first. *)

NextStopped ==
    /\ stopped
    /\ Deny
    /\ UNCHANGED <<bounds, val, started, stopped, needToRewind, curBlock, matching, words>>

\* RewindToNextMatchingBlock moves on, then the block is read.
NextRewind ==
    /\ started /\ ~stopped /\ needToRewind
    /\ \E k \in Later(curBlock) :
          /\ IsLeast(k, Later(curBlock))
          /\ curBlock' = k
          /\ Return(BlockRows(k))
    /\ UNCHANGED <<bounds, val, started, stopped, needToRewind, matching, words>>

\* ... or finds no block left.  Which number past the last block m_iCurBlock then
\* has is not kept: nothing reads it in a stopped iterator.
NextExhausted ==
    /\ started /\ ~stopped /\ needToRewind
    /\ Later(curBlock) = {}
    /\ curBlock' = NumBlocks
    /\ stopped' = TRUE
    /\ Deny
    /\ UNCHANGED <<bounds, val, started, needToRewind, matching, words>>

\* Mutant: the flag is not set again after a hinted block.
NextHintedForever ==
    /\ started /\ ~stopped /\ ~needToRewind
    /\ Return(BlockRows(curBlock))
    /\ UNCHANGED <<bounds, val, started, stopped, needToRewind, curBlock, matching, words>>

\* A hint has already moved to the block to read.
NextHinted ==
    /\ started /\ ~stopped /\ ~needToRewind
    /\ needToRewind' = TRUE
    /\ Return(BlockRows(curBlock))
    /\ UNCHANGED <<bounds, val, started, stopped, curBlock, matching, words>>

GetNextRowIdBlock ==
    StartBlock \/ NextStopped \/ NextRewind \/ NextExhausted \/ NextHinted
----------------------------------------------------------------------------
(* HintRowID ( r ).  Before the first block it is accepted and ignored. *)

Hinted(r) ==
    /\ hint' = IF r > hint THEN r ELSE hint
    /\ UNCHANGED <<returned, front, disordered>>

\* The blocks the loop of HintRowID visits that reach up to row r.
Reaching(r) == {k \in {curBlock} \cup Later(curBlock) : r <= BlockMax(k)}

HintIgnored(r) ==
    /\ ~started \/ (~stopped /\ r <= uMinRowID)
    /\ Hinted(r)
    /\ UNCHANGED <<ended, bounds, val, started, stopped, needToRewind, curBlock, matching, words>>

HintStopped(r) ==
    /\ started /\ stopped
    /\ Hinted(r)
    /\ ended' = TRUE
    /\ UNCHANGED <<bounds, val, started, stopped, needToRewind, curBlock, matching, words>>

\* Mutant: the last row counts as past the end.
HintPastEndOffByOne(r) ==
    /\ started /\ ~stopped /\ r > uMinRowID
    /\ r >= uMaxRowID \/ Reaching(r) = {}
    /\ stopped' = TRUE
    /\ curBlock' = IF r > uMaxRowID THEN curBlock ELSE NumBlocks
    /\ Hinted(r)
    /\ ended' = TRUE
    /\ UNCHANGED <<bounds, val, started, needToRewind, matching, words>>

HintPastEnd(r) ==
    /\ started /\ ~stopped /\ r > uMinRowID
    /\ r > uMaxRowID \/ Reaching(r) = {}
    /\ stopped' = TRUE
    /\ curBlock' = IF r > uMaxRowID THEN curBlock ELSE NumBlocks
    /\ Hinted(r)
    /\ ended' = TRUE
    /\ UNCHANGED <<bounds, val, started, needToRewind, matching, words>>

\* Mutant: the move does not stop the next read from rewinding again.
HintMovesAndRewinds(r) ==
    /\ started /\ ~stopped /\ r > uMinRowID /\ r <= uMaxRowID
    /\ \E k \in Reaching(r) : IsLeast(k, Reaching(r)) /\ curBlock' = k
    /\ Hinted(r)
    /\ UNCHANGED <<ended, bounds, val, started, stopped, needToRewind, matching, words>>

HintMoves(r) ==
    /\ started /\ ~stopped /\ r > uMinRowID /\ r <= uMaxRowID
    /\ \E k \in Reaching(r) :
          /\ IsLeast(k, Reaching(r))
          /\ curBlock' = k
          /\ needToRewind' = (needToRewind /\ k = curBlock)
    /\ Hinted(r)
    /\ UNCHANGED <<ended, bounds, val, started, stopped, matching, words>>

HintRowID ==
    \E r \in HintRow :
        HintIgnored(r) \/ HintStopped(r) \/ HintPastEnd(r) \/ HintMoves(r)
----------------------------------------------------------------------------
(* SetupRowidIterator: BlockReader_T and RangeReaderBase_T reuse one       *)
(* iterator for all values that go into a bitmap.  The bits and words of   *)
(* m_dMatchingBlocks survive its Resize(0).                                *)

ValueOverlaps(v) == Overlaps(Rowids[v][1], Rowids[v][Len(Rowids[v])])

Setup ==
    /\ \E v \in Value : ValueOverlaps(v) /\ val' = v
    /\ started' = FALSE
    /\ stopped' = FALSE
    /\ needToRewind' = TRUE
    /\ curBlock' = 0
    /\ hint' = 0
    /\ returned' = {}
    /\ front' = 0
    /\ disordered' = FALSE
    /\ ended' = FALSE
    /\ UNCHANGED <<bounds, matching, words>>

\* CreateRowidIterator.
Init ==
    /\ bounds \in Bounds \cup {NoBounds}
    /\ val \in Value
    /\ ValueOverlaps(val)
    /\ started = FALSE
    /\ stopped = FALSE
    /\ needToRewind = TRUE
    /\ curBlock = 0
    /\ matching = {}
    /\ words = 0
    /\ hint = 0
    /\ returned = {}
    /\ front = 0
    /\ disordered = FALSE
    /\ ended = FALSE

Next == GetNextRowIdBlock \/ HintRowID \/ Setup

Spec == Init /\ [][Next]_vars

\* The caller of an iterator keeps asking for blocks until there are none
\* (BitmapIterator_T::Add loops on it).
FairSpec == Spec /\ WF_vars(GetNextRowIdBlock)
----------------------------------------------------------------------------
(* Properties. *)

\* The rows the iterator still has to hand out: in bounds, not waived by a hint.
Owed == {r \in AllRows : InBounds(r) /\ r >= hint /\ r \notin returned}

\* The fields have their types, and a running iterator stands on a block.
TypeOK ==
    /\ bounds \in Bounds \cup {NoBounds}
    /\ val \in Value
    /\ started \in BOOLEAN /\ stopped \in BOOLEAN /\ needToRewind \in BOOLEAN
    /\ curBlock \in Nat
    /\ started /\ ~stopped => curBlock < NumBlocks
    /\ matching \in SUBSET Nat
    /\ words \in Nat
    /\ hint \in Nat
    /\ returned \in SUBSET AllRows
    /\ front \in Nat
    /\ disordered \in BOOLEAN /\ ended \in BOOLEAN

\* No sequence of hints, reads and reuses loses a row: when GetNextRowIdBlock or
\* HintRowID answers false, every row within the bounds and at or above the
\* largest hint has been returned.
NothingLost == ended => Owed = {}

\* No row is returned twice or after a larger one, whatever hints come between.
InOrder == ~disordered

\* The inductive invariant behind both.  Before the first block nothing has been
\* handed out; a stopped iterator owes nothing; a running one has marked every
\* block that can hold an owed row, and owes only rows behind the block it stands
\* on (or in it, when a hint has moved there and the block is still to be read).
Fresh ==
    ~started => returned = {} /\ front = 0 /\ ~stopped /\ ~ended /\ needToRewind
StoppedOwesNothing == (ended => stopped) /\ (stopped => started /\ Owed = {})
OwedAhead(k) ==
    IF needToRewind
    THEN front <= BlockMax(k) + 1 /\ \A r \in Owed : BlockMax(k) < r
    ELSE front <= BlockMin(k) /\ \A r \in Owed : BlockMin(k) <= r
OnBlock ==
    started /\ ~stopped =>
        /\ Packing = "ROW_BLOCKS_LIST"
        /\ OverlappingBlocks \subseteq matching
        /\ OwedAhead(curBlock)
IInv == TypeOK /\ InOrder /\ Fresh /\ StoppedOwesNothing /\ OnBlock

\* The iterator keeps the contract of BlockIterator_i.
Stream == INSTANCE RowStream WITH owed <- Owed
ImplementsStream == Stream!Spec

\* A caller that keeps asking reaches the end of every value it does not leave.
Drains == []<><<Setup>>_vars \/ <>[]ended
=============================================================================
