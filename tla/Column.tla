------------------------------- MODULE Column -------------------------------
(***************************************************************************)
(* A column, from the documents given to its packer to the values an       *)
(* iterator reads and the rows an analyzer finds.  Documents come one by   *)
(* one; a block is written when the next document finds it full, and the   *)
(* last one by Done; then the column is read in any order by an iterator   *)
(* (columnar/accessor/accessor.h, Iterator_i) or searched by an analyzer   *)
(* (Analyzer_i).  The packers, accessors and analyzers of each type are in *)
(* ColumnInt and ColumnVar, the walk of an analyzer in ColumnScan.         *)
(***************************************************************************)
EXTENDS ColumnInt, ColumnVar

IsVar == kind \in {"mva", "knn", "str"}

Fresh == IF IsVar THEN NoStatsVar ELSE IF kind = "bool" THEN NoStatsBool ELSE NoStats

Seen(s, v) ==
    IF IsVar THEN AnalyzeCollectedVar(s, v)
    ELSE IF kind = "bool" THEN AnalyzeCollectedBool(s, v) ELSE AnalyzeCollected(s, v)

WrittenBlock(values, s) ==
    CASE kind = "bool"            -> WriteToFileBool(values, s)
      [] kind \in {"int", "hash"} -> WriteToFile(values, s)
      [] kind \in {"mva", "knn"}  -> WriteToFileMva(values, s)
      [] kind = "str"             -> WriteToFileStr(values, s)

Flushed == IF pending = << >> THEN blocks ELSE Append(blocks, WrittenBlock(pending, stats))

Stored(v) == IF kind = "bool" THEN StoredBool(v) ELSE v

\* AddDoc: a full block is written when the next document comes.
AddDoc ==
    /\ use = "build"
    /\ Len(added) < Len(docs)
    /\ LET v == Stored(docs[Len(added) + 1])
       IN  /\ added' = Append(added, v)
           /\ IF Len(pending) = DocsPerBlock
              THEN /\ blocks' = Flushed
                   /\ pending' = <<v>>
                   /\ stats' = Seen(Fresh, v)
              ELSE /\ pending' = Append(pending, v)
                   /\ stats' = Seen(stats, v)
                   /\ UNCHANGED blocks
    /\ UNCHANGED <<case, use, acc, tab, got, scanVars>>

\* PackerTraits_T::Done writes the rest; then the column is opened.
Done ==
    /\ use = "build"
    /\ Len(added) = Len(docs)
    /\ blocks' = Flushed
    /\ pending' = << >>
    /\ stats' = Fresh
    /\ use' \in case.uses
    /\ UNCHANGED <<case, added, acc, tab, got, scanVars>>

-----------------------------------------------------------------------------
\* What an accessor reads when it moves to a block and to a sub-block.
SetCurBlock(a, b) ==
    LET w == blocks[b + 1]
        at == [a EXCEPT !.block = b, !.packing = w.packing]
    IN  CASE kind = "bool"            -> SetCurBlockBool(at, w)
          [] kind \in {"int", "hash"} -> SetCurBlockInt(at, w)
          [] kind \in {"mva", "knn"}  -> SetCurBlockMva(at, w)
          [] kind = "str"             -> SetCurBlockStr(at, w)

ReadSubblock(a, sb) ==
    CASE ~ IsVar      -> ReadSubblockInt(a, sb)
      [] kind = "str" -> ReadSubblockStr(a, sb)
      [] OTHER        -> ReadSubblockMva(a, sb)

\* The accessor, moved to the sub-block of a row, and the place of the row there.
AdvanceTo(row) ==
    LET b == RowId2BlockId(row)
        at == IF b = acc.block THEN acc ELSE SetCurBlock(acc, b)
    IN  ReadSubblock(at, GetSubblockId(row - BlockId2RowId(b)))

Place(row) == GetValueIdInSubblock(row - BlockId2RowId(RowId2BlockId(row))) + 1

\* Get of an iterator, for a row or for each of the rows of Fetch.
Get(row) ==
    /\ use = "iterate"
    /\ LET a == AdvanceTo(row)
           read == CASE kind = "bool"            -> [value |-> ReadValueBool(a, Place(row)), acc |-> a]
                     [] kind \in {"int", "hash"} -> [value |-> ReadValueInt(a, Place(row)), acc |-> a]
                     [] kind \in {"mva", "knn"}  -> [value |-> ReadValueMva(a, Place(row)), acc |-> a]
                     [] kind = "str" -> ReadValueStr(a, row - BlockId2RowId(a.block), Place(row))
       IN  /\ acc' = read.acc
           /\ got' = [row |-> row, what |-> "value", is |-> read.value]
    /\ UNCHANGED <<case, packer, use, tab, scanVars>>

GetLength(row) ==
    /\ use = "iterate"
    /\ IsVar
    /\ acc' = AdvanceTo(row)
    /\ got' = [row |-> row, what |-> "length",
               is |-> IF kind = "str" THEN GetLengthStr(acc', Place(row)) ELSE GetLengthMva(acc', Place(row))]
    /\ UNCHANGED <<case, packer, use, tab, scanVars>>

-----------------------------------------------------------------------------
\* What a caller of an analyzer asks for: a set has to have a value that is in
\* the filter, or no value that is not.
InFilter(v) ==
    IF ~ IsRange THEN v \in ToSet(filter.values)
    ELSE /\ IF filter.leftClosed THEN v >= filter.min ELSE v > filter.min
         /\ IF filter.rightClosed THEN v <= filter.max ELSE v < filter.max

AsksFor(v) ==
    CASE kind = "str"             -> (v \in ToSet(filter.values)) # filter.exclude
      [] kind \in {"mva", "knn"}  ->
            (/\ v # << >>
             /\ IF filter.aggr = "ANY" THEN \E i \in DOMAIN v : InFilter(v[i])
                                       ELSE \A i \in DOMAIN v : InFilter(v[i])) # filter.exclude
      [] kind = "bool"            -> AcceptsBool(StoredBool(v))
      [] kind \in {"int", "hash"} -> Accepts(v)

Answer == {r \in 0..(Len(docs) - 1) : AsksFor(docs[r + 1])}

\* MoveToBlock: what the type makes of the block it is moved to.
SetupTable(t, a) ==
    IF a.packing # "TABLE" THEN t ELSE IF IsVar THEN SetupTableVar(t, a) ELSE SetupTableInt(t, a)

BlockAccepted(a, t) ==
    CASE IsVar         -> BlockAcceptedVar(a, t)
      [] kind = "bool" -> BlockAcceptedBool(a)
      [] OTHER         -> BlockAcceptedInt(a, t)

Hopeless == kind = "bool" /\ ~ AcceptsBool(0) /\ ~ AcceptsBool(1)

EnterBlock ==
    LET a == SetCurBlock(acc, nextBlock)
        t == SetupTable(tab, a)
    IN  /\ pc = "move"
        /\ acc' = a
        /\ tab' = t
        /\ MoveToBlock(BlockAccepted(a, t), Hopeless)
        /\ UNCHANGED <<case, packer, use, got>>

\* The sub-block is not read if all its rows are known to pass.
ReadsAsConst ==
    \/ acc.packing = "CONST"
    \/ kind = "bool" /\ ReadsAsConstBool
    \/ kind \in {"int", "hash"} /\ ReadsAsConstInt

Tested(a, sb) ==
    IF ReadsAsConst \/ ~ IsVar THEN NumValues(a, sb) ELSE NumTested(a, sb)

Passes(a, sb, i, garbage) ==
    CASE ReadsAsConst  -> TRUE
      [] ~ ReadsAsConst /\ IsVar         -> PassesVar(a, sb, i, garbage)
      [] ~ ReadsAsConst /\ kind = "bool" -> PassesBool(a, i)
      [] OTHER         -> PassesInt(a, i)

ProcessSubblock ==
    /\ pc = "scan"
    /\ LET sb == GetSubblockIdInBlock(GetBlock(curSubblock))
           a == IF ReadsAsConst THEN acc ELSE ReadSubblock(acc, sb)
       IN  /\ acc' = a
           /\ \E garbage \in (IF Tested(a, sb) > NumValues(a, sb) THEN BOOLEAN ELSE {FALSE}) :
                 LET places == {i \in 1..Tested(a, sb) : Passes(a, sb, i, garbage)}
                 IN  \E block \in {Ranked({tRowID + i - 1 : i \in places})} : Scanned(block)
    /\ UNCHANGED <<case, packer, use, tab, got>>

Inside(matching) == \A i \in DOMAIN matching : matching[i] < Ceil(Len(docs), SubblockSize)

\* CreateAnalyzer and Setup.
Analyze ==
    /\ use = "analyze"
    /\ \E matching \in {m \in Matchings : m # Everything => Inside(m)}, limit \in Cutoffs :
          Setup(Len(docs), matching, limit, Answer)
    /\ UNCHANGED <<case, packer, use, acc, tab, got>>

Walk == Go \/ GetNextRowIdBlock

Hint == \E row \in Hints : HintRowID(row)

-----------------------------------------------------------------------------
Init ==
    /\ \/ case \in IntCases
       \/ case \in MvaCases
       \/ case \in StrCases
    /\ added = << >> /\ pending = << >> /\ stats = Fresh /\ blocks = << >>
    /\ use = "build"
    /\ acc = NoAccess
    /\ tab = NoTable
    /\ got = [row |-> NoBlock, what |-> "value", is |-> 0]
    /\ NotSetUp

Next ==
    \/ AddDoc
    \/ Done
    \/ \E row \in 0..(Len(docs) - 1) : Get(row) \/ GetLength(row)
    \/ Analyze
    \/ EnterBlock
    \/ ProcessSubblock
    \/ (Walk \/ Hint) /\ UNCHANGED <<case, packer, use, acc, tab, got>>

Spec == Init /\ [][Next]_vars

\* An analyzer is asked for rows until it has no more.
Answers ==
    \/ Analyze \/ EnterBlock \/ ProcessSubblock
    \/ Walk /\ UNCHANGED <<case, packer, use, acc, tab, got>>

FairSpec == Spec /\ WF_vars(Answers)

-----------------------------------------------------------------------------
Rows == 0..(Len(docs) - 1)

\* The row ids of all columns.
LengthsOf(cases) == {Len(c.docs) : c \in cases}
Row == UNION {0..(n - 1) : n \in LengthsOf(IntCases) \cup LengthsOf(MvaCases) \cup LengthsOf(StrCases)}

\* Every variable keeps its type, and the reader stays inside the column.
TypeOK ==
    /\ kind \in {"int", "hash", "bool", "mva", "knn", "str"}
    /\ LET Doc == IF IsVar THEN VarValue ELSE 0..(Word - 1)
       IN  /\ added \in Seq(Doc) /\ Len(added) <= Len(docs)
           /\ pending \in Seq(Doc) /\ Len(pending) <= DocsPerBlock
           /\ acc.sized \in Seq(Doc)
    /\ Len(blocks) <= Ceil(Len(docs), DocsPerBlock)
    /\ use \in {"build", "iterate", "analyze"}
    /\ acc.block \in NoBlock..(Len(blocks) - 1)
    /\ acc.fixed \in Seq(Nat) /\ acc.lens \in Seq(Nat)
    /\ got.row \in Rows \cup {NoBlock}
    /\ ScanTypeOK(Rows)

\* Whatever the packing of its block, and however reads of values and of lengths
\* were mixed before, a value comes out of the iterator as it went into the packer,
\* and its length is that of the value (Get, GetLength).  The length of a string in a
\* block of strings of one length does not keep this: see GetLengthStr.
GetsWhatWasAdded ==
    got.row # NoBlock =>
        \/ got.what = "value" /\ got.is = Stored(docs[got.row + 1])
        \/ got.what = "length" /\ got.is = Len(docs[got.row + 1])
        \/ got.what = "length" /\ kind = "str" /\ acc.packing = "CONSTLEN"

\* An analyzer returns only rows that pass its filter, from the sub-blocks it
\* was given (GetNextRowIdBlock, ProcessSubblock).
NoForeignRow ==
    given \subseteq {r \in Answer : pMatching = Everything \/ GetSubblockId(r) \in ToSet(pMatching)}

\* An analyzer is a stream of the rows that pass: in order, once, none left
\* behind in a block or sub-block it skips (HintRowID, MoveToBlock).
Stream == INSTANCE RowStream WITH Row <- Row, HintRow <- Hints, owed <- Promised
ImplementsStream == Stream!Spec

\* An analyzer that is asked for rows again and again comes to an end.
Drains == (use = "analyze") ~> ended
=============================================================================
