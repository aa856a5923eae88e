----------------------------- MODULE BlockReader -----------------------------
(***************************************************************************)
(* BlockReader_T (secondary/blockreader.cpp): the reader of a VALUES       *)
(* filter.  For each value the PGM index predicts a few blocks; the reader *)
(* looks into the block it has loaded, then into the predicted one, then   *)
(* into the others, and adds an iterator when it finds the value.  Blocks  *)
(* come from the shared cache when it has them (see BlockCache) and from   *)
(* the file into the reader's own buffers otherwise.                       *)
(***************************************************************************)
EXTENDS Filters

None == -1              \* no loaded block, nullptr
NoValue == WideMin - 1  \* no value is being looked up
Own == -2               \* a pointer to the reader's own buffer

VARIABLES
    useCache,           \* m_pBlockCache != nullptr
    iters,              \* dIt: the BlockIter_t of each value asked for
    todo,               \* the values not looked up yet
    cur,                \* the value being looked up
    toCheck,            \* the checks left for it, <<how, block>>
    step,               \* "load" the block of the first check, or "look" into it
    offsets,            \* m_dBlockOffsets: the blocks it holds the offsets of
    loadedValues,       \* m_iLoadedValuesBlockId
    pValues,            \* m_pBlockValues: a block of the cache, or Own
    ownValues,          \* the block in m_tBlockValues
    loadedData,         \* m_iLoadedDataBlockId
    pData,              \* m_pBlockData
    ownData,            \* the block in m_tBlockData
    cachedValues,       \* the blocks whose values the cache holds,
    cachedData,         \*   and whose row data
    made                \* the iterators made for each value: item of which block

values == <<loadedValues, pValues, ownValues, cachedValues>>
data == <<loadedData, pData, ownData, cachedData>>
lookup == <<todo, cur, toCheck, step, offsets>>
vars == <<useCache, iters, lookup, values, data, made>>

\* The block whose values, and the block whose row data, the reader sees.
SeenValues == IF pValues = Own THEN ownValues ELSE pValues
SeenData == IF pData = Own THEN ownData ELSE pData

\* The reader is made for the values of a filter.  A cache outlives queries: it may
\* hold anything when the reader starts.
CreateBlockReader(dValues) ==
    /\ useCache \in BOOLEAN
    /\ iters \in {f \in [dValues -> UNION {{BlockIter(s) : s \in Search(Narrow(v))} : v \in dValues}] :
                      \A v \in dValues : f[v] \in {BlockIter(s) : s \in Search(Narrow(v))}}
    /\ todo = dValues
    /\ cur = NoValue
    /\ toCheck = << >>
    /\ step = "load"
    /\ offsets = << >>
    /\ loadedValues = None /\ pValues = None /\ ownValues = None
    /\ loadedData = None /\ pData = None /\ ownData = None
    /\ cachedValues = {} /\ cachedData = {}
    /\ made = [v \in DOMAIN iters |-> << >>]
----------------------------------------------------------------------------
(* CreateBlocksIterator for one value. *)

\* LoadBlockOffsets keeps the offsets when the range is the one they are for.
OffsetsOf(it) == [k \in 1 .. it.last - it.start + 1 |-> it.start + k - 1]

LoadBlockOffsets(it) ==
    IF Len(offsets) = it.last - it.start + 1 /\ offsets[1] = it.start
    THEN offsets ELSE OffsetsOf(it)

\* The loaded block is looked into first when the conditions of the code allow it.
\* m_iLoadedValuesBlockId is compared as an unsigned number: -1 is the largest.
\* The loaded block is tried first when it lies at or before the start, whatever the
\* comment there says ("in case it fits the range"): it then only tells a direction.
LoadedFits(it) ==
    /\ loadedValues # None
    /\ loadedValues # it.start + it.pos
    /\ it.start >= loadedValues /\ loadedValues <= it.last

\* The numbers of a finite set, ascending.
Ascending(S) ==
    [k \in 1 .. Cardinality(S) |-> CHOOSE b \in S : Cardinality({c \in S : c < b}) = k - 1]

\* Mutant: the block that was looked into is left out of the scan with the next.
ChecksSkippingTwo(it) ==
    LET predicted == it.start + it.pos
        seen == IF LoadedFits(it) THEN {loadedValues, loadedValues + 1} ELSE {}
        rest == Ascending((it.start .. it.last) \ ({predicted} \cup seen))
    IN  (IF LoadedFits(it) THEN << <<"loaded", loadedValues>> >> ELSE << >>)
        \o << <<"predicted", predicted>> >>
        \o [k \in DOMAIN rest |-> <<"scan", rest[k]>>]

\* Every check CreateBlocksIterator makes unless an earlier one ends it.
Checks(it) ==
    LET predicted == it.start + it.pos
        seen == IF LoadedFits(it) THEN {loadedValues} ELSE {}
        rest == Ascending((it.start .. it.last) \ ({predicted} \cup seen))
    IN  (IF LoadedFits(it) THEN << <<"loaded", loadedValues>> >> ELSE << >>)
        \o << <<"predicted", predicted>> >>
        \o [k \in DOMAIN rest |-> <<"scan", rest[k]>>]

StepOf(checks) == IF checks[1][1] = "loaded" THEN "look" ELSE "load"

\* The values are visited in the order of their first blocks.
NextValue ==
    /\ cur = NoValue
    /\ \E v \in todo :
          /\ \A w \in todo : iters[v].start <= iters[w].start
          /\ cur' = v
          /\ todo' = todo \ {v}
          /\ offsets' = LoadBlockOffsets(iters[v])
          /\ toCheck' = Checks(iters[v])
          /\ step' = StepOf(toCheck')
    /\ UNCHANGED <<useCache, iters, values, data, made>>

\* AddValues and AddData leave the cache as it is when it is full.
Offered(cached, b) == IF useCache THEN {cached, cached \cup {b}} ELSE {cached}

LoadBlockValuesToCache ==
    /\ cur # NoValue /\ step = "load"
    /\ \E b \in {toCheck[1][2]} :
          \/ loadedValues = b /\ UNCHANGED values
          \/ /\ loadedValues # b
             /\ loadedValues' = b
             /\ \/ /\ b \in cachedValues
                   /\ pValues' = b
                   /\ UNCHANGED <<ownValues, cachedValues>>
                \/ /\ b \notin cachedValues
                   /\ ownValues' = offsets[b - iters[cur].start + 1]
                   /\ pValues' = Own
                   /\ cachedValues' \in Offered(cachedValues, b)
    /\ step' = "look"
    /\ UNCHANGED <<useCache, iters, todo, cur, toCheck, offsets, data, made>>

\* FindBlockValue, which narrows the value: -1, 0 or 1 for one before, within or
\* after the block.
Seen == BlockValues(SeenValues)
Holds(v) == \E i \in DOMAIN Seen : Seen[i] = Narrow(v)
Cmp(v) ==
    IF Seen[CalcNumBlockValues(SeenValues) - 1] < Narrow(v) THEN 1
    ELSE IF Narrow(v) < Seen[0] THEN -1 ELSE 0

\* The rest of a block that is read from the file begins right after its values.
LoadBlockDataToCache(b) ==
    \/ loadedData = loadedValues /\ UNCHANGED data
    \/ /\ loadedData # loadedValues
       /\ loadedData' = loadedValues
       /\ \/ /\ b \in cachedData
             /\ pData' = b
             /\ UNCHANGED <<ownData, cachedData>>
          \/ /\ b \notin cachedData
             /\ ownData' = SeenValues
             /\ pData' = Own
             /\ cachedData' \in Offered(cachedData, b)

\* AddIterator asks for one iterator, from the item found and the row data.  What
\* bounds and cutoff make of it, and the inversion of the bitmap that collects the
\* rows of a filter that excludes, is in RowidIterator and BitmapIterator.
AddIterator(b) ==
    /\ LoadBlockDataToCache(b)
    /\ \E i \in DOMAIN Seen :
          /\ Seen[i] = Narrow(cur)
          /\ made' = [made EXCEPT ![cur] = Append(@, [item |-> i, block |-> SeenData'])]

EndValue == cur' = NoValue /\ toCheck' = << >> /\ step' = "load"

\* The value is in the block.
LookFinds ==
    /\ cur # NoValue /\ step = "look"
    /\ Holds(cur)
    /\ AddIterator(toCheck[1][2])
    /\ EndValue
    /\ UNCHANGED <<useCache, iters, todo, offsets, values>>

\* It is not, and would be nowhere else, or this was the last block to look into.
LookEnds ==
    /\ cur # NoValue /\ step = "look"
    /\ ~Holds(cur)
    /\ Cmp(cur) = 0 \/ (toCheck[1][1] = "scan" /\ Cmp(cur) = 1) \/ Len(toCheck) = 1
    /\ EndValue
    /\ UNCHANGED <<useCache, iters, todo, offsets, values, data, made>>

\* Mutant: the check is repeated.
LookAgain ==
    /\ cur # NoValue /\ step = "look"
    /\ Cmp(cur) = -1 \/ (toCheck[1][1] # "scan" /\ Cmp(cur) = 1)
    /\ Len(toCheck) > 1
    /\ step' = "load"
    /\ UNCHANGED <<useCache, iters, todo, cur, toCheck, offsets, values, data, made>>

\* The scan ends at a block whose values are all smaller, too.
LookElsewhere ==
    /\ cur # NoValue /\ step = "look"
    /\ Cmp(cur) = -1 \/ (toCheck[1][1] # "scan" /\ Cmp(cur) = 1)
    /\ Len(toCheck) > 1
    /\ toCheck' = Tail(toCheck)
    /\ step' = "load"
    /\ UNCHANGED <<useCache, iters, todo, cur, offsets, values, data, made>>
----------------------------------------------------------------------------

\* Another query puts a block into the cache.
CacheGains ==
    /\ useCache
    /\ \E b \in Blocks :
          /\ cachedValues' \in {cachedValues, cachedValues \cup {b}}
          /\ cachedData' \in {cachedData, cachedData \cup {b}}
    /\ UNCHANGED <<useCache, iters, lookup, made, loadedValues, pValues, ownValues,
                   loadedData, pData, ownData>>

----------------------------------------------------------------------------
(* Properties. *)

\* The fields have their types, and a block to look into is loaded.
TypeOK ==
    /\ useCache \in BOOLEAN
    /\ todo \subseteq DOMAIN iters /\ cur \in DOMAIN iters \cup {NoValue}
    /\ cur = NoValue <=> toCheck = << >>
    /\ toCheck \in Seq({"loaded", "predicted", "scan"} \X Blocks)
    /\ step \in {"load", "look"}
    /\ offsets \in Seq(Blocks)
    /\ {loadedValues, ownValues, loadedData, ownData} \subseteq Blocks \cup {None}
    /\ {pValues, pData} \subseteq Blocks \cup {None, Own}
    /\ cachedValues \subseteq Blocks /\ cachedData \subseteq Blocks
    /\ cur # NoValue /\ step = "look" => loadedValues = toCheck[1][2]
    /\ DOMAIN made = DOMAIN iters

\* An iterator is made from the row data of the block and the item of its value,
\* never from what an earlier value left in the reader.
RowsOfTheValue ==
    \A v \in DOMAIN iters : \A k \in DOMAIN made[v] :
        BlockValues(made[v][k].block)[made[v][k].item] = Narrow(v)
=============================================================================
