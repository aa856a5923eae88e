------------------------------ MODULE Columnar ------------------------------
(***************************************************************************)
(* columnar::Columnar_c (columnar/columnar.cpp): a storage of columns from *)
(* the rows given to its builder to the answers of the reader.  The trees  *)
(* of least and greatest values say which sub-blocks may hold rows for the *)
(* filters of a query (MinMaxEval_T); the rest is left to an analyzer for  *)
(* each filter that has one (see Column), or to an iterator over those     *)
(* sub-blocks (BlockIterator_c), and a query may be cut into slices of     *)
(* rows that are asked for one by one.                                     *)
(***************************************************************************)
EXTENDS ColumnFile

CONSTANTS
    Cases,              \* what is stored and what may be asked, see Init
    RowIds,             \* 2^32, the number of row ids
    MaxCollected,       \* MAX_COLLECTED
    MinReduceLevels,    \* MIN_REDUCE_LEVELS
    ReduceStep,         \* REDUCE_STEP
    Hints,              \* row ids that a caller may hint
    Everything          \* no matching blocks: every sub-block

VARIABLES
    case,               \* schema, docs, query and numbers of slices: fixed
    phase,              \* "build", "written", "loaded"; or "failed"
    rows,               \* rows added so far
    packers,            \* m_dFlatPackers
    file,               \* the cells of the file
    headers,            \* m_dHeaders of the reader
    advice,             \* the last answer of EstimateMinMax and its like
    ask,                \* the query that is asked in slices
    it,                 \* a BlockIterator_c, or NoIterator
    \* what its caller has seen: see RowStream
    owed, front, ended

built == <<rows, packers, file>>
stream == <<owed, front, ended>>
vars == <<case, phase, built, headers, advice, ask, it, stream>>

schema == case.schema
flat == Flat(schema)
Doc(row, i) == case.docs[row + 1][i]
NumDocs == Len(case.docs)
Rows == 0..(NumDocs - 1)

NoIterator == [blocks |-> << >>]

-----------------------------------------------------------------------------
\* SetAttr, for every attribute of a row.
SetAttrs ==
    /\ phase = "build"
    /\ rows < NumDocs
    /\ packers' = [k \in DOMAIN flat |->
                      AddToPacker(packers[k], k, flat[k].type, Doc(rows, flat[k].attr))]
    /\ rows' = rows + 1
    /\ UNCHANGED <<case, phase, file, headers, advice, ask, it, stream>>

\* Done: every packer ends its last block, the headers are written, and one body
\* after another is copied behind them, unless that fails.
Done ==
    /\ phase = "build"
    /\ rows = NumDocs
    /\ LET done == [k \in DOMAIN flat |-> FlushPacker(packers[k], k)]
       IN  /\ packers' = done
           /\ \E copied \in 0..Len(flat) :
                 /\ file' = FileHeaders(flat, done)
                                \o FlattenSeq([k \in 1..copied |-> done[k].body])
                 /\ phase' = IF copied = Len(flat) THEN "written" ELSE "failed"
    /\ UNCHANGED <<case, rows, headers, advice, ask, it, stream>>

\* Columnar_c::Setup.
Open ==
    /\ phase = "written"
    /\ headers' = LoadHeaders(file)
    /\ phase' = "loaded"
    /\ UNCHANGED <<case, built, advice, ask, it, stream>>

-----------------------------------------------------------------------------
\* Filters.  What the caller of the library means by one: the values it accepts,
\* of a set any of them or all of them.
Passes(f, row) ==
    LET i == CHOOSE i \in DOMAIN schema : schema[i].name = f.name
        doc == Doc(row, i)
    IN  CASE schema[i].type = "set" ->
                doc # {} /\ IF f.all THEN doc \subseteq f.accepts ELSE doc \cap f.accepts # {}
          [] schema[i].type = "str" -> doc \in f.accepts
          [] OTHER -> Typed(schema[i].type, doc) \in f.accepts

Answer(filters) == {row \in Rows : \A i \in DOMAIN filters : Passes(filters[i], row)}

\* GetHeader, of an attribute that exists.
GetHeader(column) == CHOOSE k \in DOMAIN headers : headers[k].name = column

\* GetHeadersForMinMax, as the filters that have one; none without any blocks.
GetHeadersForMinMax(filters) ==
    LET fs == SelectSeq(filters, LAMBDA f : headers[GetHeader(f.column)].minMax # << >>)
    IN  IF fs = << >> \/ headers[GetHeader(Last(fs).column)].blocks = << >> THEN << >> ELSE fs

\* BlockTester_i is the caller's: a range of values passes a filter if one that
\* the filter accepts may be in it.
Test(f, range) ==
    \E v \in f.accepts :
        LET n == IF headers[GetHeader(f.column)].type = "str" THEN Len(v) ELSE v
        IN  range[1] <= n /\ n <= range[2]

-----------------------------------------------------------------------------
\* MinMaxEval_T over the filters fs, level 1 being the top of their trees.
Tree(f) == headers[GetHeader(f.column)].minMax

NumLevels(fs) == Len(Tree(fs[1]))

\* FillMinMax and Test.
BlockPasses(fs, level, block) ==
    /\ block < Len(Tree(fs[1])[level])
    /\ \A i \in DOMAIN fs : Test(fs[i], Tree(fs[i])[level][block + 1])

MinMaxBlockId2RowId(block, level, levels) == (block * SubblockSize * 2^(levels - level)) % RowIds

\* Mutant: a range that starts at the last row does not overlap.
RangesOverlapStrict(min, max, limits) == min < limits.max /\ max >= limits.min

RangesOverlap(min, max, limits) == min <= limits.max /\ max >= limits.min

\* The rows below a node are among the rows asked for.
Overlaps(block, level, levels, limits) ==
    RangesOverlap(MinMaxBlockId2RowId(block, level, levels),
                  (MinMaxBlockId2RowId(block + 1, level, levels) - 1) % RowIds, limits)

\* DoEval: the nodes of a level that pass, and have passed at every level above.
Eval(fs, level, limits) ==
    LET levels == NumLevels(fs)
        reached[l \in 1..level] ==
            IF l = 1 THEN {b \in {0} : BlockPasses(fs, 1, b)}
            ELSE {b \in UNION {{2 * a, 2 * a + 1} : a \in reached[l - 1]} :
                     Overlaps(b, l, levels, limits) /\ BlockPasses(fs, l, b)}
    IN  {b \in reached[level] : Overlaps(b, level, levels, limits)}

NoLimits == [min |-> 0, max |-> RowIds - 1]

\* FetchRowIdLimits: slice k of n.  The bounds are products of a number of rows
\* per slice that may be rounded, so that one that should be whole can end up
\* just below: then it is one less, for the slice before as for this one.
FetchRowIdLimits(k, n, low) ==
    [min |-> low[k],
     max |-> IF k = n - 1 THEN NumDocs ELSE (low[k + 1] - 1) % RowIds]

\* What rounding may make of the bounds of n slices.
Bounds(n) ==
    LET exact(k) == (NumDocs * k) \div n
        inexact == {k \in 1..(n - 1) : NumDocs % n # 0 /\ (NumDocs * k) % n = 0}
    IN  {[k \in 0..(n - 1) |-> IF k \in less THEN exact(k) - 1 ELSE exact(k)] : less \in SUBSET inexact}

-----------------------------------------------------------------------------
\* Mutant: the sub-block of the last row is left out.
PopulateMatchingBlocksBelow(limits) ==
    LET start == limits.min \div SubblockSize
    IN  [i \in 1..(limits.max \div SubblockSize - start) |-> start + i - 1]

\* The sub-blocks of a slice of rows.
PopulateMatchingBlocks(limits) ==
    LET start == limits.min \div SubblockSize
    IN  [i \in 1..(limits.max \div SubblockSize + 1 - start) |-> start + i - 1]

\* CreateAnalyzerOrPrefilter: the sub-blocks to look at.  Without a tree those of
\* the slice, if the query is asked in slices.
Matching(fs, limits) ==
    LET found == Eval(fs, NumLevels(fs), limits)
    IN  IF fs = << >> THEN IF ask.slices = 1 THEN Everything ELSE PopulateMatchingBlocks(limits)
        ELSE IF Cardinality(found) = Ceil(NumDocs, headers[1].subblockSize) THEN Everything
        ELSE SetToSortSeq(found, <)

InBlocks(matching) ==
    IF matching = Everything THEN Rows
    ELSE {row \in Rows : \E i \in DOMAIN matching : matching[i] = row \div SubblockSize}

\* BlockIterator_c::Setup, which is refused if all blocks but one in a hundred
\* match, or all but one when there are fewer.
Setup(fs, matching) ==
    LET numBlocks == Len(Last(Tree(fs[1])))
        leftover == NumDocs % SubblockSize
    IN  [ok |-> Len(matching) < (numBlocks * 99) \div 100,
         blocks |-> matching, numBlocks |-> numBlocks,
         docsInLastBlock |-> IF leftover = 0 THEN SubblockSize ELSE leftover]

\* GetNumDocs.
GetNumDocs(i, block) == IF block < i.numBlocks - 1 THEN SubblockSize ELSE i.docsInLastBlock

\* SetCurBlock: to a block that matches, or past the last of them.
SetCurBlock(i, block) ==
    IF block >= Len(i.blocks) THEN [i EXCEPT !.docsInBlock = 0]
    ELSE [i EXCEPT !.block = block,
                   !.docsInBlock = GetNumDocs(i, i.blocks[block + 1]),
                   !.row = i.blocks[block + 1] * SubblockSize,
                   !.doc = 0]

NewIterator(setup) ==
    SetCurBlock([blocks |-> setup.blocks, numBlocks |-> setup.numBlocks,
                 docsInLastBlock |-> setup.docsInLastBlock,
                 block |-> 0, doc |-> 0, docsInBlock |-> 0, row |-> 0], 0)

\* A slice of a query, of which the caller keeps the rows within its limits: the
\* filters that have an analyzer get one each, over
\* the matching blocks, or those blocks are iterated, or the caller gets nothing
\* and looks at every row.
CreateAnalyzerOrPrefilter ==
    /\ phase = "loaded"
    /\ \E k \in (0..(ask.slices - 1)) \ ask.asked :
          LET filters == ask.filters
              limits == IF ask.slices = 1 THEN NoLimits ELSE FetchRowIdLimits(k, ask.slices, ask.low)
              fs == GetHeadersForMinMax(filters)
              matching == Matching(fs, limits)
              analyzers == SelectSeq(filters, LAMBDA f : f.analyzed)
              setup == Setup(fs, matching)
              prefilter == analyzers = << >> /\ fs # << >> /\ matching # Everything /\ setup.ok
              slice == {row \in Rows : limits.min <= row /\ row <= limits.max}
              offered == IF analyzers # << >> THEN InBlocks(matching) \cap Answer(analyzers)
                         ELSE IF prefilter THEN InBlocks(matching) ELSE Rows
          IN  /\ ask' = [ask EXCEPT !.asked = @ \cup {k}, !.offered = @ \cup (offered \cap slice)]
              /\ it' = IF prefilter THEN NewIterator(setup) ELSE NoIterator
              /\ owed' = IF prefilter THEN Answer(filters) \cap slice ELSE {}
              /\ front' = 0
              /\ ended' = FALSE
    /\ UNCHANGED <<case, phase, built, headers, advice>>

\* The caller begins the query, to be asked at once or in slices.
Ask ==
    /\ phase = "loaded"
    /\ \E n \in case.slices :
          \E low \in Bounds(n) :
             ask' = [filters |-> case.query, slices |-> n, low |-> low, asked |-> {}, offered |-> {}]
    /\ UNCHANGED <<case, phase, built, headers, advice, it, stream>>

-----------------------------------------------------------------------------
\* GetNextRowIdBlock, one row of the loop after another: the iterator and the
\* rows it has collected, at most MaxCollected - 1.
Collected ==
    LET turn[n \in 0..(MaxCollected - 1)] ==
            IF n = 0 THEN [it |-> it, rows |-> << >>, more |-> TRUE]
            ELSE LET t == turn[n - 1]
                     moved == IF t.it.doc >= t.it.docsInBlock THEN SetCurBlock(t.it, t.it.block + 1) ELSE t.it
                 IN  IF ~ t.more THEN t
                     ELSE IF t.it.docsInBlock = 0 \/ moved.docsInBlock = 0
                          THEN [t EXCEPT !.it = IF @.docsInBlock = 0 THEN @ ELSE moved, !.more = FALSE]
                          ELSE [it |-> [moved EXCEPT !.doc = @ + 1, !.row = @ + 1],
                                rows |-> Append(t.rows, moved.row), more |-> TRUE]
    IN  turn[MaxCollected - 1]

\* A row that was returned before leaves front where no row can be.
GetNextRowIdBlock ==
    /\ it # NoIterator /\ ~ ended
    /\ it' = Collected.it
    /\ LET batch == Collected.rows
       IN  IF batch = << >>
           THEN ended' = TRUE /\ UNCHANGED <<owed, front>>
           ELSE /\ owed' = owed \ ToSet(batch)
                /\ front' = IF batch[1] >= front THEN Last(batch) + 1 ELSE -1
                /\ UNCHANGED ended
    /\ UNCHANGED <<case, phase, built, headers, advice, ask>>

\* Mutant: the block is entered again from its start.
HintedAgain(next) == SetCurBlock(it, next)

\* HintRowID goes to a later block only.
Hinted(next) == IF next > it.block THEN SetCurBlock(it, next) ELSE it

HintRowID ==
    /\ it # NoIterator /\ ~ ended
    /\ \E row \in Hints :
          LET later == {i \in it.block..(Len(it.blocks) - 1) : it.blocks[i + 1] >= row \div SubblockSize}
          IN  /\ owed' = {r \in owed : r >= row}
              /\ ended' = (later = {})
              /\ it' = IF later = {} THEN it ELSE Hinted(Min(later))
    /\ UNCHANGED <<case, phase, built, headers, advice, ask, front>>

-----------------------------------------------------------------------------
\* Mutant: blocks of a level above the leaves count as if they were leaves.
ReducedSizeOfLeaf(levels) == SubblockSize

\* The rows of a block that EstimateMinMax counts: with many levels it stops
\* above the leaves.
ReducedSize(levels) == IF levels >= MinReduceLevels THEN SubblockSize * 2^ReduceStep ELSE SubblockSize

EstimateMinMax(f) ==
    LET levels == Len(Tree(f))
        stop == Max({1, levels}) - (IF levels >= MinReduceLevels THEN ReduceStep ELSE 0)
    IN  IF levels = 0 THEN -1
        ELSE Cardinality(Eval(<<f>>, stop, NoLimits)) * ReducedSize(levels)

\* EvalAll at the top.
EarlyReject(filters) ==
    LET fs == GetHeadersForMinMax(filters)
    IN  fs # << >> /\ ~ (0 < Len(Tree(fs[1])[1]) => BlockPasses(fs, 1, 0))

\* A list of both values of a bool.
IsFilterDegenerate(f) == headers[GetHeader(f.column)].type = "bool" /\ f.values = <<0, 1>>

Advise ==
    /\ phase = "loaded"
    /\ advice' = [about |-> case.query, estimate |-> EstimateMinMax(case.query[1]),
                   reject |-> EarlyReject(case.query), degenerate |-> IsFilterDegenerate(case.query[1])]
    /\ UNCHANGED <<case, phase, built, headers, ask, it, stream>>

-----------------------------------------------------------------------------
NoAdvice == [about |-> << >>, estimate |-> -1, reject |-> FALSE, degenerate |-> FALSE]
NothingAsked == [filters |-> << >>, slices |-> 0, low |-> << >>, asked |-> {}, offered |-> {}]

Init ==
    /\ case \in Cases
    /\ phase = "build"
    /\ rows = 0
    /\ packers = [k \in DOMAIN flat |-> NewPacker]
    /\ file = << >>
    /\ headers = << >>
    /\ advice = NoAdvice
    /\ ask = NothingAsked
    /\ it = NoIterator
    /\ owed = {} /\ front = 0 /\ ended = FALSE

Next ==
    \/ SetAttrs \/ Done \/ Open
    \/ Ask \/ CreateAnalyzerOrPrefilter
    \/ GetNextRowIdBlock \/ HintRowID
    \/ Advise

Spec == Init /\ [][Next]_vars

-----------------------------------------------------------------------------
\* Once a file is loaded, every column is found under its name, every block of
\* every column at its first cell, and every node of its tree bounds the values
\* of all the rows below it (LoadHeaders, WriteHeaders, BuildTree).
LoadsWhatWasBuilt ==
    phase = "loaded" =>
        /\ Len(headers) = Len(flat)
        /\ \A k \in DOMAIN flat :
              LET h == headers[k]
                  levels == Len(h.minMax)
                  Below(l, b) == {r \in Rows : r \div (SubblockSize * 2^(levels - l)) = b - 1}
              IN  /\ h.name = flat[k].name /\ h.type = flat[k].type
                  /\ Len(h.blocks) = Ceil(NumDocs, DocsPerBlock)
                  /\ \A b \in DOMAIN h.blocks :
                        Cell(file, h.blocks[b]) = [packer |-> k, block |-> b, cell |-> 1]
                  /\ \A l \in DOMAIN h.minMax : \A r \in Rows :
                        \E b \in DOMAIN h.minMax[l] :
                            /\ r \in Below(l, b)
                            /\ \A v \in MinMaxValues(h.type, Doc(r, flat[k].attr)) :
                                   h.minMax[l][b][1] <= v /\ v <= h.minMax[l][b][2]

\* When every slice of a query was asked for, every row of its answer was offered
\* (FetchRowIdLimits, MinMaxEval_T).
SlicesCoverAnswer ==
    ask # NothingAsked /\ ask.asked = 0..(ask.slices - 1) => Answer(ask.filters) \subseteq ask.offered

\* Advice errs on the safe side: an estimate is no less than the rows that pass,
\* a filter that is rejected has none, one that is degenerate has all
\* (EstimateMinMax, EarlyReject, IsFilterDegenerate).
AdviceIsSafe ==
    advice # NoAdvice =>
        /\ advice.estimate = -1 \/ advice.estimate >= Cardinality(Answer(<<advice.about[1]>>))
        /\ advice.reject => Answer(advice.about) = {}
        /\ advice.degenerate => Answer(<<advice.about[1]>>) = Rows

\* The iterator over matching blocks is a stream of the rows of the answer.
Stream == INSTANCE RowStream WITH Row <- 0..(RowIds - 1), HintRow <- Hints
ImplementsStream == Stream!Spec
=============================================================================
