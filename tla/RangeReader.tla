----------------------------- MODULE RangeReader -----------------------------
(***************************************************************************)
(* RangeReaderBase_T and RangeReader_T (secondary/blockreader.cpp): the    *)
(* reader of a RANGE filter, from the fixed-up filter (see Filters) over   *)
(* the positions of its ends (PrepareBlocksRange, secondary.cpp) to the    *)
(* iterators it makes.  The warmup looks for the first matching value,     *)
(* then values are added until one does not match.  The row data of a block *)
(* follows its values in the file, so it can only be read at once after    *)
(* them: adding to a bitmap moves the same file reader elsewhere.          *)
(***************************************************************************)
EXTENDS Filters

Nowhere == -1           \* the file reader stands in the rows of some value

VARIABLES
    asked,              \* the filter of the caller
    range,              \* tRange, after FixupFilterSettings
    last,               \* tIt.m_iLast
    limited,            \* the iterators go into a bitmap with a cutoff
    blockCur,           \* m_iBlockCur
    valCur,             \* m_iValCur
    valCount,           \* m_iValCount
    itCreated,          \* m_iBlockItCreated, -1 when there is none
    reader,             \* the block whose values m_pReader has just passed
    data,               \* the block in m_tBlockData
    phase,              \* where CreateBlocksIterator is
    made,               \* the iterators asked for: item of which block
    cut                 \* history: the bitmap answered that its cutoff is hit

ctx == <<blockCur, valCur, valCount, itCreated>>
vars == <<asked, range, last, limited, ctx, reader, data, phase, made, cut>>
----------------------------------------------------------------------------
(* The range. *)

\* EvalRangeValue and ValueInInterval.  A range open to the left compares its upper
\* end, one open to the right only its lower end.
EvalRangeValue(v) ==
    LET min == Narrow(range.min)
        max == Narrow(range.max)
        above == IF range.leftClosed THEN min <= v ELSE min < v
        below == IF range.rightClosed THEN v <= max ELSE v < max
    IN  IF range.leftUnbounded /\ range.rightUnbounded THEN TRUE
        ELSE IF range.leftUnbounded THEN below
        ELSE IF range.rightUnbounded THEN above
        ELSE above /\ below

\* CmpRange for the block of values B: -1, 0 or 1 when it lies before, over or after
\* the range.
CmpBlock(B) ==
    LET front == B[0]
        back == B[Cardinality(DOMAIN B) - 1]
        start == IF range.leftUnbounded THEN 0 ELSE Narrow(range.min)
        end == IF range.rightUnbounded THEN TypeMax ELSE Narrow(range.max)
    IN  IF range.leftUnbounded /\ range.rightUnbounded THEN 0
        ELSE IF front <= end /\ start <= back THEN 0
        ELSE IF front < start \/ (front = start /\ back < end) THEN -1 ELSE 1

\* PrepareBlocksRange: the positions the range spans.
PrepareBlocksRange(f) ==
    LET least(a, b) == IF a < b THEN a ELSE b
        most(a, b) == IF a < b THEN b ELSE a
        end == (m_uBlocksCount - 1) * ValuesPerBlock
        low == IF f.leftUnbounded THEN 0 ELSE Narrow(f.min)
        high == IF f.rightUnbounded THEN TypeMax ELSE Narrow(f.max)
    IN  IF f.leftUnbounded = f.rightUnbounded
        THEN {[lo |-> least(p.lo, q.lo), pos |-> least(p.pos, q.pos), hi |-> most(p.hi, q.hi)] :
                 p \in Search(low), q \in Search(high)}
        ELSE IF f.rightUnbounded
        THEN {[lo |-> p.lo, pos |-> p.pos, hi |-> end] : p \in Search(low)}
        ELSE {[lo |-> 0, pos |-> p.pos, hi |-> p.hi] : p \in Search(high)}

Init ==
    /\ asked \in Filter
    /\ range = FixupFilterSettings(asked)
    /\ limited \in BOOLEAN
    /\ \E it \in {BlockIter(p) : p \in PrepareBlocksRange(range)} :
          blockCur = it.start /\ last = it.last
    /\ valCur = 0 /\ valCount = 0
    /\ itCreated = -1
    /\ reader = Nowhere /\ data = Nowhere
    /\ phase = "warmup"
    /\ made = << >>
    /\ cut = FALSE
----------------------------------------------------------------------------
(* Adding one value. *)

\* Mutant: row data is read when the first iterator is made.
LoadsDataFirstOnly == itCreated = -1

\* bLoad.
LoadsData == itCreated # blockCur

\* fnAddIterator for item i, which calls Load at the place of the file where the
\* reader stands, and answers whether to go on.  A bitmap reads the rows at once.
AddIterator(i, more) ==
    /\ ~more => limited
    /\ data' = IF LoadsData THEN reader ELSE data
    /\ made' = Append(made, [item |-> i, block |-> blockCur, data |-> data'])
    /\ reader' = Nowhere
    /\ cut' = ~more

Item(i) == BlockValues(blockCur)[i]

\* LoadValues of a block, which is where m_pOffReader stands.
LoadValues ==
    /\ reader' = blockCur
    /\ valCount' = CalcNumBlockValues(blockCur)
----------------------------------------------------------------------------
(* The warmup. *)

WarmupEnds ==
    /\ phase = "warmup"
    /\ blockCur > last
    /\ phase' = "done"
    /\ UNCHANGED <<asked, range, last, limited, ctx, reader, data, made, cut>>

\* A block behind the range ends the search.
WarmupPast ==
    /\ phase = "warmup" /\ blockCur <= last
    /\ CmpBlock(BlockValues(blockCur)) = 1
    /\ LoadValues
    /\ phase' = "done"
    /\ UNCHANGED <<asked, range, last, limited, blockCur, valCur, itCreated, data, made, cut>>

MatchingItems == {i \in DOMAIN BlockValues(blockCur) : EvalRangeValue(Item(i))}

\* A block before the range, or one that overlaps it with no value in it.
WarmupSkip ==
    /\ phase = "warmup" /\ blockCur <= last
    /\ \/ CmpBlock(BlockValues(blockCur)) = -1 /\ UNCHANGED valCur
       \/ /\ CmpBlock(BlockValues(blockCur)) = 0 /\ MatchingItems = {}
          /\ valCur' = CalcNumBlockValues(blockCur)
    /\ LoadValues
    /\ blockCur' = blockCur + 1
    /\ UNCHANGED <<asked, range, last, limited, itCreated, data, phase, made, cut>>

\* Values are loaded; the first match is next.
WarmupLoad ==
    /\ phase = "warmup" /\ blockCur <= last
    /\ CmpBlock(BlockValues(blockCur)) = 0 /\ MatchingItems # {}
    /\ LoadValues
    /\ phase' = "first"
    /\ UNCHANGED <<asked, range, last, limited, blockCur, valCur, itCreated, data, made, cut>>

\* A false answer leaves CreateBlocksIterator before the counters move.
WarmupFirst ==
    /\ phase = "first"
    /\ \E i \in MatchingItems : \E more \in BOOLEAN :
          /\ \A j \in MatchingItems : i <= j
          /\ AddIterator(i, more)
          /\ IF more
             THEN itCreated' = blockCur /\ valCur' = i + 1 /\ phase' = "enter"
             ELSE UNCHANGED itCreated /\ valCur' = i /\ phase' = "done"
    /\ UNCHANGED <<asked, range, last, limited, blockCur, valCount>>
----------------------------------------------------------------------------
(* AddBlockIterators. *)

\* Nothing is left of the block.
EnterNothingLeft ==
    /\ phase = "enter" /\ valCur >= valCount
    /\ phase' = "load"
    /\ UNCHANGED <<asked, range, last, limited, ctx, reader, data, made, cut>>

EnterBlock ==
    /\ phase = "enter" /\ valCur < valCount
    /\ phase' = IF EvalRangeValue(Item(valCount - 1)) THEN "whole" ELSE "part"
    /\ UNCHANGED <<asked, range, last, limited, ctx, reader, data, made, cut>>

\* "part" checks every value, "whole" none.
AddValue ==
    /\ phase \in {"part", "whole"} /\ valCur < valCount
    /\ phase = "part" => EvalRangeValue(Item(valCur))
    /\ \E more \in BOOLEAN :
          /\ AddIterator(valCur, more)
          /\ IF more
             THEN itCreated' = blockCur /\ valCur' = valCur + 1 /\ UNCHANGED phase
             ELSE phase' = "done" /\ UNCHANGED <<itCreated, valCur>>
    /\ UNCHANGED <<asked, range, last, limited, blockCur, valCount>>

\* A value that does not match ends everything, and so does the end of the block.
PartEnds ==
    /\ phase = "part"
    /\ valCur >= valCount \/ ~EvalRangeValue(Item(valCur))
    /\ phase' = "done"
    /\ UNCHANGED <<asked, range, last, limited, ctx, reader, data, made, cut>>

WholeEnds ==
    /\ phase = "whole" /\ valCur >= valCount
    /\ phase' = "load"
    /\ UNCHANGED <<asked, range, last, limited, ctx, reader, data, made, cut>>

\* Mutant: the last block is left out.
NextBlockTooFew ==
    /\ phase = "load"
    /\ blockCur' = blockCur + 1
    /\ IF blockCur' >= last
       THEN phase' = "done" /\ UNCHANGED <<valCur, valCount, reader>>
       ELSE /\ valCount' = CalcNumBlockValues(blockCur')
            /\ reader' = blockCur'
            /\ valCur' = 0
            /\ phase' = IF EvalRangeValue(BlockValues(blockCur')[0]) THEN "enter" ELSE "done"
    /\ UNCHANGED <<asked, range, last, limited, itCreated, data, made, cut>>

\* The next block; matching is over when its first value does not match.
NextBlock ==
    /\ phase = "load"
    /\ blockCur' = blockCur + 1
    /\ IF blockCur' > last
       THEN phase' = "done" /\ UNCHANGED <<valCur, valCount, reader>>
       ELSE /\ valCount' = CalcNumBlockValues(blockCur')
            /\ reader' = blockCur'
            /\ valCur' = 0
            /\ phase' = IF EvalRangeValue(BlockValues(blockCur')[0]) THEN "enter" ELSE "done"
    /\ UNCHANGED <<asked, range, last, limited, itCreated, data, made, cut>>

Next ==
    \/ WarmupEnds \/ WarmupPast \/ WarmupSkip \/ WarmupLoad \/ WarmupFirst
    \/ EnterNothingLeft \/ EnterBlock \/ AddValue \/ PartEnds \/ WholeEnds \/ NextBlock

Spec == Init /\ [][Next]_vars

----------------------------------------------------------------------------
(* Properties. *)

\* The fields have their types, and items are read from the block loaded last.
TypeOK ==
    /\ asked \in Filter
    /\ limited \in BOOLEAN /\ cut \in BOOLEAN
    /\ last \in Blocks /\ blockCur \in 0 .. last + 1
    /\ phase \in {"warmup", "first", "enter", "part", "whole", "load", "done"}
    /\ phase \in {"first", "enter", "part", "whole"} => valCount = CalcNumBlockValues(blockCur)
    /\ valCur \in 0 .. ValuesPerBlock /\ valCount \in 0 .. ValuesPerBlock
    /\ itCreated \in Blocks \cup {-1}
    /\ {reader, data} \subseteq Blocks \cup {Nowhere}
    /\ made \in Seq([item : 0 .. ValuesPerBlock - 1, block : Blocks, data : Blocks \cup {Nowhere}])

MadeValues == [k \in DOMAIN made |-> BlockValues(made[k].block)[made[k].item]]
Expected == {v \in ToSet(Values) : Matches(asked, v)}

\* A range the type can meet: its lower end is not above all values of the type
\* and its upper end is not below them.
MeetsType(f) ==
    /\ f.leftUnbounded \/ f.min <= TypeMax
    /\ f.rightUnbounded \/ f.max >= 0

\* What is made is the range in ascending order or, when the cutoff ends it early or it
\* has not ended yet, what of it is not above the last value made.
InRange ==
    MeetsType(asked) =>
        /\ ToSet(MadeValues) \subseteq Expected
        /\ \A j, k \in DOMAIN made : j < k => MadeValues[j] < MadeValues[k]
        /\ \A v \in Expected \ ToSet(MadeValues) :
              /\ phase # "done" \/ cut
              /\ \A k \in DOMAIN made : MadeValues[k] < v

\* The row data behind every iterator is that of the block of its value, although
\* the data is loaded once per block and the reader moves on with each bitmap.
RowsOfTheBlock == \A k \in DOMAIN made : made[k].data = made[k].block

\* "clamp to min and max values from a wider type" (common/filter.cpp): a range
\* outside the type selects nothing.
WideRangeClamped ==
    phase = "done" /\ ~MeetsType(asked) => made = << >>
=============================================================================
