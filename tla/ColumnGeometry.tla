--------------------------- MODULE ColumnGeometry ---------------------------
(***************************************************************************)
(* How the rows of a column are cut: DOCS_PER_BLOCK rows make a block,     *)
(* SubblockSize rows a sub-block, which is what the readers decode at once.*)
(* Rows, blocks and sub-blocks are counted from 0, as in the code; a       *)
(* sub-block has a number in the column and one in its block.              *)
(***************************************************************************)
EXTENDS Integers, Sequences

CONSTANTS
    DocsPerBlock,       \* DOCS_PER_BLOCK, 1 << BLOCK_ID_BITS
    SubblockSize        \* m_iSubblockSize

ASSUME GeometryAssumption ==
    /\ SubblockSize \in Nat \ {0}
    /\ DocsPerBlock \in Nat \ {0}
    /\ DocsPerBlock % SubblockSize = 0

Ceil(n, size) == (n + size - 1) \div size

SubblocksPerBlock == DocsPerBlock \div SubblockSize

RowId2BlockId(row) == row \div DocsPerBlock
BlockId2RowId(block) == block * DocsPerBlock
SubblockId2BlockId(sb) == sb \div SubblocksPerBlock
SubblockId2RowId(sb) == sb * SubblockSize
GetSubblockId(row) == row \div SubblockSize
GetSubblockIdInBlock(sb) == sb % SubblocksPerBlock
GetValueIdInSubblock(row) == row % SubblockSize

\* The rows of the last block may be fewer (AttributeHeader_c::GetNumDocs).
GetNumDocs(numDocs, block) ==
    LET leftover == numDocs % DocsPerBlock
    IN  IF leftover = 0 \/ block < Ceil(numDocs, DocsPerBlock) - 1 THEN DocsPerBlock ELSE leftover

\* The values of sub-block sb of a block of docs rows, as its readers count them
GetNumSubblockValues(docs, sb) ==
    LET leftover == docs % SubblockSize
    IN  IF \/ docs = DocsPerBlock
           \/ sb < Ceil(docs, SubblockSize) - 1
           \/ leftover = 0
        THEN SubblockSize
        ELSE leftover

\* and as its writer does.
GetSubblockSize(sb, docs) ==
    LET leftover == docs % SubblockSize
    IN  IF sb = Ceil(docs, SubblockSize) - 1 /\ leftover # 0 THEN leftover ELSE SubblockSize

\* The values of each sub-block of a block.
Subblocks(values) ==
    [i \in 1..Ceil(Len(values), SubblockSize) |->
        LET start == (i - 1) * SubblockSize
        IN  SubSeq(values, start + 1, start + GetSubblockSize(i - 1, Len(values)))]
=============================================================================
