----------------------------- MODULE ColumnBase -----------------------------
(***************************************************************************)
(* What the columns of every type have in common: the documents a packer   *)
(* is given, the blocks it leaves, and the state an accessor keeps of the  *)
(* last header and the last sub-block it read.  ColumnInt and ColumnVar    *)
(* say what the packers and accessors of their types do with it; Column    *)
(* puts them together.                                                     *)
(***************************************************************************)
EXTENDS IntBlocks, ColumnScan

CONSTANTS
    IntCases, MvaCases, StrCases,   \* columns, each with a filter and with what is done
                        \* with it: [kind, docs, filter, uses]
    Hints,              \* the rows a caller may hint
    Matchings,          \* the sub-blocks an analyzer may be given
    Cutoffs,            \* the cutoffs it may be given
    LinearLimit         \* LINEAR_SEARCH_THRESH

Uses == {"iterate", "analyze"}

ASSUME BaseAssumption ==
    /\ LinearLimit \in Nat /\ Hints \subseteq Nat /\ Unlimited \in Nat /\ Cutoffs \subseteq Nat
    /\ \A m \in Matchings \ {Everything} :
          m \in Seq(Nat) /\ \A i, j \in DOMAIN m : i < j => m[i] < m[j]

VARIABLES
    case,               \* the column that is built, and the filter
    added,              \* the documents given to the packer so far
    pending,            \* m_dCollected of the packer: those of the block
    stats,              \* what it has seen of them
    blocks,             \* what is in the file
    use,                \* "build", "iterate" or "analyze"
    acc,                \* the accessor
    tab,                \* the analyzer's view of the table of a block
    got                 \* what an iterator returned last

packer == <<added, pending, stats, blocks>>
vars == <<case, packer, use, acc, tab, got, scanVars>>

kind == case.kind
docs == case.docs
filter == case.filter

-----------------------------------------------------------------------------
\* TableLimit distinct values are as good as more.
SeenValue(uniques, v) == IF Cardinality(uniques) < TableLimit THEN uniques \cup {v} ELSE uniques

\* The parts of an accessor: the block and its packing; the value of a constant
\* block; a table and the ordinals or bits of a sub-block; the sizes in a header
\* and the values of a sub-block; for sets and vectors, their length and whether
\* they are deltas; for strings, the sub-block whose lengths are read, where its
\* first value is, where the reader is, and the last value read from there.
NoAccess ==
    [block |-> NoBlock, packing |-> "CONST", const |-> 0,
     table |-> << >>, fixedId |-> -1, fixed |-> << >>,
     sizes |-> << >>, sizedId |-> -1, sized |-> << >>,
     len |-> 0, sorted |-> FALSE,
     lensId |-> -1, lens |-> << >>, first |-> [block |-> NoBlock, at |-> 1],
     pos |-> [block |-> NoBlock, at |-> 1], lastRead |-> [CONSTLEN |-> -1, GENERIC |-> -1]]

NumValues(a, sb) == GetNumSubblockValues(GetNumDocs(Len(docs), a.block), sb)

\* Ordinals or bits of a sub-block, unless they are there already.
ReadFixedSubblock(a, sb) ==
    IF a.fixedId = sb THEN a
    ELSE [a EXCEPT !.fixedId = sb,
                   !.fixed = SubSeq(ReadFixed(blocks[a.block + 1].body, sb), 1, NumValues(a, sb))]

\* What the analyzers keep of a table: the place of the one value or the places
\* of the values of a filter, or which entries pass it.
NoTable == [id |-> -1, ids |-> << >>, map |-> << >>]

\* The filter, as all types read it.
IsRange == filter.type = "RANGE"
IsSingle == ~ IsRange /\ Len(filter.values) = 1

InRange(v) ==
    /\ filter.leftUnbounded \/ (IF filter.leftClosed THEN v >= filter.min ELSE v > filter.min)
    /\ filter.rightUnbounded \/ (IF filter.rightClosed THEN v <= filter.max ELSE v < filter.max)
=============================================================================
