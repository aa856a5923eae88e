----------------------------- MODULE ColumnScan -----------------------------
(***************************************************************************)
(* Analyzer_T (columnar/accessor/accessortraits.h): how the analyzers of   *)
(* every type of column walk its sub-blocks.  A call of GetNextRowIdBlock  *)
(* takes one step per sub-block and one per block it moves to, because     *)
(* what a type does there changes its own state: the module of the type    *)
(* gives the rows it found to Scanned, and whether it can skip the block *)
(* it moved to to MoveToBlock.                                             *)
(***************************************************************************)
EXTENDS ColumnGeometry, SequencesExt

CONSTANTS
    Everything,         \* HAVE_MATCHING_BLOCKS = false: every sub-block
    Unlimited           \* INT_MAX, the rows left when no cutoff is set

VARIABLES
    pMatching,          \* m_pMatchingSubblocks: ascending, or Everything
    total,              \* m_iTotalSubblocks
    curSubblock,        \* m_iCurSubblock: index in pMatching, if there is one
    curBlockId,         \* m_iCurBlockId
    tRowID,             \* m_tRowID
    cutoff,             \* what SetCutoff was given
    rowsLeft,           \* m_iRowsLeft
    found,              \* m_dCollected up to pRowID
    pc,                 \* "idle", "scan" in the loop of GetNextRowIdBlock,
                        \*   "go" to MoveToSubblock, "move" in MoveToBlock
    caller,             \* of MoveToSubblock: "Setup", "Hint", "Next"
    target,             \* iSubblock of MoveToSubblock
    nextBlock,          \* iNextBlock of MoveToBlock
    \* what the caller of the analyzer has seen: see RowStream
    owed, front, ended,
    given               \* every row returned so far

position == <<curSubblock, curBlockId, tRowID>>
seen == <<owed, front, ended, given>>
moves == <<caller, target, nextBlock>>
scanVars == <<pMatching, total, cutoff, position, rowsLeft, found, pc, moves, seen>>

NoBlock == -1

GetBlock(i) == IF pMatching = Everything THEN i ELSE pMatching[i + 1]

\* MatchingBlocks_c::Find: lower_bound over the sub-blocks from start.
Find(start, sb) ==
    LET at == {i \in start..(total - 1) : GetBlock(i) >= sb}
    IN  IF at = {} THEN total ELSE CHOOSE i \in at : \A j \in at : i <= j

NotSetUp ==
    /\ pMatching = Everything
    /\ total = 0 /\ curSubblock = 0 /\ curBlockId = NoBlock /\ tRowID = 0
    /\ cutoff = Unlimited /\ rowsLeft = Unlimited
    /\ found = << >>
    /\ pc = "off" /\ caller = "Setup" /\ target = 0 /\ nextBlock = NoBlock
    /\ owed = {} /\ front = 0 /\ ended = FALSE /\ given = {}

-----------------------------------------------------------------------------
\* The loop of GetNextRowIdBlock goes on until there are as many rows as a
\* sub-block has values, or as are left under the cutoff.
\* Mutant: it goes on until the buffer is full.
EnoughRowsToFill(rows) ==
    Len(rows) >= (IF rowsLeft < 2 * SubblockSize THEN rowsLeft ELSE 2 * SubblockSize)

EnoughRows(rows) ==
    Len(rows) >= (IF rowsLeft < SubblockSize THEN rowsLeft ELSE SubblockSize)

\* Mutant: rows are not counted.
SpentNothing(rows) == rowsLeft

\* The rows that are left under the cutoff.
Spent(rows) == IF rowsLeft > Len(rows) THEN rowsLeft - Len(rows) ELSE 0

\* Rows are above all that were returned before and in order; if not, front is
\* where no row can be.
FrontAfter(rows) ==
    IF Head(rows) >= front /\ \A i \in 2..Len(rows) : rows[i - 1] < rows[i] THEN Last(rows) + 1 ELSE -1

\* Mutant: the answer is whether sub-blocks are left.
DeliveredUntilLast(rows) ==
    /\ pc' = "idle"
    /\ found' = << >>
    /\ rowsLeft' = Spent(rows)
    /\ owed' = owed \ ToSet(rows)
    /\ given' = given \cup ToSet(rows)
    /\ ended' = (curSubblock >= total)
    /\ UNCHANGED front

\* GetNextRowIdBlock returns: false if it has no rows.
Delivered(rows) ==
    /\ pc' = "idle"
    /\ found' = << >>
    /\ rowsLeft' = Spent(rows)
    /\ IF rows = << >>
       THEN ended' = TRUE /\ UNCHANGED <<owed, front, given>>
       ELSE /\ owed' = owed \ ToSet(rows)
            /\ front' = FrontAfter(rows)
            /\ given' = given \cup ToSet(rows)
            /\ UNCHANGED ended

\* MoveToSubblock has answered ok to the caller.
Resumed(ok, rows) ==
    \/ /\ caller = "Next"
       /\ ok /\ ~ EnoughRows(rows)
       /\ pc' = "scan"
       /\ found' = rows
       /\ UNCHANGED <<rowsLeft, seen>>
    \/ /\ caller = "Next"
       /\ ~ ok \/ EnoughRows(rows)
       /\ Delivered(rows)
    \/ /\ caller # "Next"
       /\ pc' = "idle"
       /\ ended' = (caller = "Hint" /\ ~ ok)
       /\ UNCHANGED <<rowsLeft, found, owed, front, given>>

\* MoveToSubblock ( sb ): past the last one, within the block, or into another.
MoveToSubblock(sb, rows) ==
    /\ curSubblock' = sb
    /\ \/ /\ sb >= total
          /\ UNCHANGED <<curBlockId, tRowID, nextBlock>>
          /\ Resumed(FALSE, rows)
       \/ /\ sb < total
          /\ SubblockId2BlockId(GetBlock(sb)) = curBlockId
          /\ tRowID' = SubblockId2RowId(GetBlock(sb))
          /\ UNCHANGED <<curBlockId, nextBlock>>
          /\ Resumed(TRUE, rows)
       \/ /\ sb < total
          /\ SubblockId2BlockId(GetBlock(sb)) # curBlockId
          /\ nextBlock' = SubblockId2BlockId(GetBlock(sb))
          /\ pc' = "move"
          /\ found' = rows
          /\ UNCHANGED <<curBlockId, tRowID, rowsLeft, seen>>
    /\ UNCHANGED <<pMatching, total, cutoff, caller, target>>

Go == pc = "go" /\ MoveToSubblock(target, << >>)

\* Mutant: it takes the first sub-block of the next block for the last of this one.
RewoundTooFar ==
    IF pMatching = Everything
    THEN GetSubblockId(BlockId2RowId(nextBlock + 1)) + 1
    ELSE LET other == {i \in curSubblock..(total - 1) : SubblockId2BlockId(GetBlock(i)) # nextBlock}
         IN  IF other = {} THEN total ELSE 1 + CHOOSE i \in other : \A j \in other : i <= j

\* RewindToNextBlock: the index of the first sub-block of the next block.
Rewound ==
    IF pMatching = Everything
    THEN GetSubblockId(BlockId2RowId(nextBlock + 1))
    ELSE LET other == {i \in curSubblock..(total - 1) : SubblockId2BlockId(GetBlock(i)) # nextBlock}
         IN  IF other = {} THEN total ELSE CHOOSE i \in other : \A j \in other : i <= j

\* One turn of the loop of MoveToBlock: the block is entered if its type accepts
\* it, otherwise the walk goes to the next one, or fails at once when the type
\* knows that it accepts none.
MoveToBlock(accepted, hopeless) ==
    /\ pc = "move"
    /\ curBlockId' = nextBlock
    /\ \/ /\ accepted
          /\ tRowID' = SubblockId2RowId(GetBlock(curSubblock))
          /\ UNCHANGED <<curSubblock, nextBlock>>
          /\ Resumed(TRUE, found)
       \/ /\ ~ accepted /\ ~ hopeless
          /\ Rewound < total
          /\ curSubblock' = Rewound
          /\ nextBlock' = SubblockId2BlockId(GetBlock(Rewound))
          /\ UNCHANGED <<tRowID, rowsLeft, found, pc, seen>>
       \/ /\ ~ accepted
          /\ hopeless \/ Rewound >= total
          /\ curSubblock' = IF caller = "Setup" THEN total ELSE Rewound
          /\ UNCHANGED <<tRowID, nextBlock>>
          /\ Resumed(FALSE, found)
    /\ UNCHANGED <<pMatching, total, cutoff, caller, target>>

-----------------------------------------------------------------------------
\* Setup of an analyzer over numDocs rows, of which answer pass the filter.
Setup(numDocs, matching, limit, answer) ==
    /\ pc = "off"
    /\ pMatching' = matching
    /\ total' = IF matching = Everything THEN Ceil(numDocs, SubblockSize) ELSE Len(matching)
    /\ cutoff' = limit /\ rowsLeft' = limit
    /\ owed' = {r \in answer : matching = Everything \/ GetSubblockId(r) \in ToSet(matching)}
    /\ pc' = "go" /\ caller' = "Setup" /\ target' = 0
    /\ UNCHANGED <<position, found, nextBlock, front, ended, given>>

\* A call of GetNextRowIdBlock: it ends at once, or enters the loop.
GetNextRowIdBlock ==
    /\ pc = "idle"
    /\ ~ ended
    /\ \/ /\ curSubblock >= total \/ EnoughRows(<< >>)
          /\ Delivered(<< >>)
          /\ UNCHANGED caller
       \/ /\ curSubblock < total
          /\ ~ EnoughRows(<< >>)
          /\ pc' = "scan" /\ caller' = "Next"
          /\ UNCHANGED <<rowsLeft, found, seen>>
    /\ UNCHANGED <<pMatching, total, cutoff, position, target, nextBlock>>

\* The end of a turn of the loop, which found these rows in the sub-block.
Scanned(rows) ==
    /\ pc = "scan"
    /\ MoveToSubblock(curSubblock + 1, found \o rows)

\* The sub-block a hint leads to.
Hinted(row) ==
    IF pMatching = Everything THEN GetSubblockId(row) ELSE Find(curSubblock, GetSubblockId(row))

\* HintRowID: the rows below row are waived.
HintRowID(row) ==
    /\ pc = "idle"
    /\ ~ ended
    /\ owed' = {r \in owed : r >= row}
    /\ \/ /\ Hinted(row) >= total
          /\ ended' = TRUE
          /\ UNCHANGED <<pc, caller, target>>
       \/ /\ Hinted(row) \in 0..curSubblock /\ Hinted(row) < total
          /\ UNCHANGED <<pc, caller, target, ended>>
       \/ /\ Hinted(row) \in (curSubblock + 1)..(total - 1)
          /\ pc' = "go" /\ caller' = "Hint" /\ target' = Hinted(row)
          /\ UNCHANGED ended
    /\ UNCHANGED <<pMatching, total, cutoff, position, rowsLeft, found, nextBlock, front, given>>

-----------------------------------------------------------------------------
ScanTypeOK(rows) ==
    /\ total \in Nat /\ curSubblock \in Nat /\ curBlockId \in Nat \cup {NoBlock}
    /\ tRowID \in Nat /\ rowsLeft \in 0..cutoff
    /\ found \in Seq(rows)
    /\ pc \in {"off", "idle", "go", "move", "scan"} /\ caller \in {"Setup", "Hint", "Next"}
    /\ target \in Nat /\ nextBlock \in Nat \cup {NoBlock}
    /\ owed \subseteq rows /\ given \subseteq rows /\ front \in Nat \cup {-1} /\ ended \in BOOLEAN

\* The buffer of two sub-blocks of row ids is never overrun: a sub-block is
\* only scanned when all its rows still fit (m_dCollected, GetNextRowIdBlock).
BufferHolds == pc = "scan" => Len(found) + SubblockSize <= 2 * SubblockSize

\* An analyzer under a cutoff ends short of it only when no row is left, and
\* overshoots it by less than the sub-block it was in (SetCutoff).
CutoffRespected ==
    /\ ended /\ Cardinality(given) < cutoff => owed = {}
    /\ Cardinality(given) < cutoff + SubblockSize

\* What the stream owes: under a cutoff the rest is not owed at any time.
Promised == IF cutoff = Unlimited THEN owed ELSE {}
=============================================================================
