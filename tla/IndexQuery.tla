----------------------------- MODULE IndexQuery -----------------------------
(***************************************************************************)
(* SecondaryIndex_c::CreateIterators (secondary/secondary.cpp): a filter on *)
(* one attribute is fixed up (Filters) and given to the reader for its     *)
(* type, which makes the iterators: BlockReader for VALUES, RangeReader for *)
(* RANGE.  Only the first shares a cache of blocks with other queries.     *)
(* A filter that excludes is answered with the same iterators: their rows  *)
(* go into a bitmap, which is inverted at the end (see BitmapIterator).    *)
(* What is said here of the iterators is said of the filter the caller     *)
(* gave, not of the one the reader sees.                                   *)
(***************************************************************************)
EXTENDS Filters

CONSTANT Asked          \* the sets of values a filter may ask for

ASSUME AskedAssumption == Asked \subseteq SUBSET (WideMin .. WideMax)

VARIABLES
    m_eType,            \* "VALUES" or "RANGE"
    m_bExclude,         \* the rows found are those to leave out
    m_dValues,          \* the values the caller asks for
    \* the reader of values
    useCache, iters, todo, cur, toCheck, step, offsets,
    loadedValues, pValues, ownValues, loadedData, pData, ownData,
    cachedValues, cachedData, itemsMade,
    \* the reader of a range
    asked, range, last, limited, blockCur, valCur, valCount, itCreated,
    reader, data, phase, rangeMade, cut

ByValue == INSTANCE BlockReader WITH made <- itemsMade
ByRange == INSTANCE RangeReader WITH made <- rangeMade

filter == <<m_eType, m_bExclude, m_dValues>>
valueVars == <<useCache, iters, todo, cur, toCheck, step, offsets,
               loadedValues, pValues, ownValues, loadedData, pData, ownData,
               cachedValues, cachedData, itemsMade>>
rangeVars == <<asked, range, last, limited, blockCur, valCur, valCount, itCreated,
               reader, data, phase, rangeMade, cut>>
vars == <<filter, valueVars, rangeVars>>

NoRange ==
    /\ asked = << >> /\ range = << >> /\ last = -1 /\ limited = FALSE
    /\ blockCur = 0 /\ valCur = 0 /\ valCount = 0 /\ itCreated = -1
    /\ reader = -1 /\ data = -1 /\ phase = "done" /\ rangeMade = << >> /\ cut = FALSE

\* GetValsRows, of a filter that includes its values or excludes them.
GetValsRows ==
    /\ m_eType = "VALUES"
    /\ m_bExclude \in BOOLEAN
    /\ m_dValues \in Asked
    /\ ByValue!CreateBlockReader(RemoveOutOfRangeValues(m_dValues, m_bExclude))
    /\ NoRange

\* GetRangeRows, which makes a reader without a cache.
GetRangeRows ==
    /\ m_eType = "RANGE"
    /\ m_bExclude \in BOOLEAN
    /\ m_dValues = {}
    /\ ByValue!CreateBlockReader({}) /\ ~useCache
    /\ ByRange!Init

Init == GetValsRows \/ GetRangeRows
----------------------------------------------------------------------------
\* CreateBlocksIterator of either reader.
CreateBlocksIterator ==
    \/ /\ \/ ByValue!NextValue \/ ByValue!LoadBlockValuesToCache
          \/ ByValue!LookFinds \/ ByValue!LookEnds \/ ByValue!LookElsewhere
       /\ UNCHANGED <<filter, rangeVars>>
    \/ /\ \/ ByRange!WarmupEnds \/ ByRange!WarmupPast \/ ByRange!WarmupSkip
          \/ ByRange!WarmupLoad \/ ByRange!WarmupFirst
          \/ ByRange!EnterNothingLeft \/ ByRange!EnterBlock \/ ByRange!AddValue
          \/ ByRange!PartEnds \/ ByRange!WholeEnds \/ ByRange!NextBlock
       /\ UNCHANGED <<filter, valueVars>>

\* Other queries use the cache.
OtherQuery == ByValue!CacheGains /\ UNCHANGED <<filter, rangeVars>>

Next == CreateBlocksIterator \/ OtherQuery

Spec == Init /\ [][Next]_vars

\* The readers run to their end, whatever other queries do.
FairSpec == Spec /\ WF_vars(CreateBlocksIterator)
----------------------------------------------------------------------------
(* Properties. *)

\* The readers are in their types, and one of them idles.
TypeOK ==
    /\ ByValue!TypeOK
    /\ m_eType = "RANGE" => ByRange!TypeOK /\ todo = {} /\ cur = ByValue!NoValue
    /\ m_eType = "VALUES" => phase = "done"

Stored == {Values[i] : i \in DOMAIN Values}
Made(v) == IF v \in DOMAIN itemsMade THEN Len(itemsMade[v]) ELSE 0

\* However predictions, the loaded block and the cache fall together, a value that
\* is asked for and stored gets exactly one iterator and one that is not stored
\* none.  When the filter includes its values, that holds even of those outside the
\* attribute's type, which would narrow to stored ones; when it excludes them, of
\* the values of the type (see ExcludesOnlyAsked).
FindsEachValueOnce ==
    \A v \in m_dValues \ (todo \cup {cur}) :
        /\ v \in Stored => Made(v) = 1
        /\ v \notin Stored /\ (~m_bExclude \/ v \in 0 .. TypeMax) => Made(v) = 0

\* The comment in CreateBlocksIterator: the bitmap of an excluding filter collects
\* the rows that must be excluded.  So no value that is not stored gives it rows.
\* RemoveOutOfRangeValues leaves such a filter alone, and a value outside the
\* attribute's type is looked up as the value it narrows to.
ExcludesOnlyAsked == m_bExclude => \A v \in m_dValues \ Stored : Made(v) = 0

\* Whatever positions the index predicts and however the range lies over the
\* blocks, the reader makes an iterator for each value in the range, in ascending
\* order, none twice and none for a value outside; when the cutoff ends it early,
\* for a prefix of them.  Ranges that lie outside the type are left out (MeetsType).
ExactRange == m_eType = "RANGE" => ByRange!InRange

\* An iterator is made from the row data of the block of its value and the item of
\* its value, never from what an earlier value left in the reader: the data is
\* loaded once per block, and each bitmap moves the file reader on.
RowsOfTheBlock == ByValue!RowsOfTheValue /\ ByRange!RowsOfTheBlock

\* Every lookup ends.
LooksUpAll == <>(todo = {} /\ cur = ByValue!NoValue /\ phase = "done")
=============================================================================
