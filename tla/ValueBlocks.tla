----------------------------- MODULE ValueBlocks -----------------------------
(***************************************************************************)
(* The value blocks of one attribute of a secondary index as its readers   *)
(* see them: the distinct values in ascending order, ValuesPerBlock to a   *)
(* block, and the approximate position the PGM index predicts for a value. *)
(* Blocks, positions and items count from 0, as in the code.               *)
(***************************************************************************)
EXTENDS Integers, Sequences, FiniteSets

CONSTANTS
    Values,             \* the stored values, ascending
    ValuesPerBlock,     \* m_uValuesPerBlock (VALUES_PER_BLOCK, 128)
    Epsilon             \* the error bound of the PGM index (8)

\* What a prediction may span fits into two blocks, and begins in one of them even
\* for a value past all that are stored.
ASSUME ValuesAssumption ==
    /\ Values \in Seq(Nat) /\ Values # << >>
    /\ \A i, j \in DOMAIN Values : i < j => Values[i] < Values[j]
    /\ ValuesPerBlock \in Nat /\ Epsilon \in Nat \ {0}
    /\ 2 * Epsilon + 2 <= ValuesPerBlock

m_uTotalValues == Len(Values)
m_uBlocksCount == (m_uTotalValues + ValuesPerBlock - 1) \div ValuesPerBlock
Blocks == 0 .. m_uBlocksCount - 1

CalcNumBlockValues(b) ==
    IF b < m_uBlocksCount - 1 THEN ValuesPerBlock
    ELSE IF m_uTotalValues % ValuesPerBlock # 0 THEN m_uTotalValues % ValuesPerBlock
    ELSE ValuesPerBlock

\* The values DecodeBlock finds in block b, in order.
BlockValues(b) == [i \in 0 .. CalcNumBlockValues(b) - 1 |-> Values[b * ValuesPerBlock + i + 1]]

\* PGMIndex::search, which the build takes from a library: the position is off by
\* Epsilon at most, [lo, hi] holds the first position not below the value.
Rank(v) == Cardinality({i \in DOMAIN Values : Values[i] < v})
SearchLo(pos) == IF pos < Epsilon THEN 0 ELSE pos - Epsilon
SearchHi(pos) ==
    IF pos + Epsilon + 2 > m_uTotalValues THEN m_uTotalValues ELSE pos + Epsilon + 2
Search(v) ==
    {[pos |-> p, lo |-> SearchLo(p), hi |-> SearchHi(p)] :
        p \in {p \in 0 .. m_uTotalValues : SearchLo(p) <= Rank(v) /\ Rank(v) <= SearchHi(p)}}

\* The constructor of BlockIter_t: positions become blocks, m_iPos relative to
\* the first one, and what lies past the last block is cut off.
GetValueBlock(pos) == pos \div ValuesPerBlock

BlockIter(found) ==
    [start |-> GetValueBlock(found.lo),
     pos   |-> IF GetValueBlock(found.pos) >= m_uBlocksCount THEN 0
               ELSE GetValueBlock(found.pos) - GetValueBlock(found.lo),
     last  |-> IF GetValueBlock(found.hi) >= m_uBlocksCount THEN m_uBlocksCount - 1
               ELSE GetValueBlock(found.hi)]
=============================================================================
