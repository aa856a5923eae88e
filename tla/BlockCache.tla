----------------------------- MODULE BlockCache -----------------------------
(***************************************************************************)
(* BlockCache_T (secondary/blockreader.cpp): the lock-free cache of decoded *)
(* value blocks, shared by all queries on an attribute.  A reader looks a  *)
(* block up, reads it from the file when it is missing, and offers a copy  *)
(* to the cache: it loads the slot, loads m_uSize, publishes the copy by   *)
(* compare-exchange and only then adds its size.  Each atomic access that  *)
(* another query can disturb is a step; a load of m_bStopCounting and the *)
(* two loads of the warning go with the step they belong to.               *)
(* Queries run concurrently (CreateIterators is const); ClearCache is not  *)
(* const, so it runs when no query does.                                   *)
(***************************************************************************)
EXTENDS Integers, FiniteSets

CONSTANTS
    Thread,             \* the threads that run queries
    Block,              \* the value blocks of the attribute
    Cost,               \* CalcSize of the copy that goes into a slot
    CostMax,            \* the largest cost
    MaxSize,            \* m_uMaxSize
    ReuseMax,           \* numeric_limits<int64_t>::max()
    ReuseRatio,         \* reuses per block for the warning (MIN_REUSE_RATIO)
    SizeAtStart,        \* the values the constructor can leave in m_uSize,
    ReuseAtStart,       \*   in m_uReuse
    StopAtStart,        \*   and in m_bStopCounting
    None                \* nullptr

\* m_dBlockValues and m_dBlockData.
Slot == {"values", "data"} \X Block

\* An attribute without blocks is not read (PrepareBlocksValues).
ASSUME CacheAssumption ==
    /\ IsFiniteSet(Block) /\ Block # {}
    /\ IsFiniteSet(Thread) /\ Thread # {} /\ None \notin Thread
    /\ CostMax \in Nat /\ Cost \in [Slot -> 1 .. CostMax]
    /\ MaxSize \in Nat /\ ReuseMax \in Nat /\ ReuseRatio \in Nat
    /\ SizeAtStart \subseteq Nat
    /\ ReuseAtStart \subseteq 0 .. 2 * ReuseMax + 1
    /\ StopAtStart \subseteq BOOLEAN

\* The reuse counter starts, and stops, far enough from the end of its word for
\* every thread to count once more.
ReuseRoom == \A r \in ReuseAtStart \cup {ReuseMax} : r + Cardinality(Thread) <= 2 * ReuseMax + 1

VARIABLES
    slot,               \* the copy published in each slot: by whom, or nullptr
    size,               \* m_uSize
    reuse,              \* m_uReuse, a 64-bit word
    stopCounting,       \* m_bStopCounting
    pc,                 \* the next step of each thread
    at,                 \* the slot it works on
    held,               \* the cached copies its reader points to, <<slot, copy>>
    warned              \* its last query warned that the cache is full

cache == <<slot, size, reuse, stopCounting>>
cacheVars == <<cache, pc, at, held, warned>>

Goto(t, label) == pc' = [pc EXCEPT ![t] = label]

\* The constructor stores nullptr into the slots but leaves the counters to the
\* default constructor of std::atomic, which initializes nothing before C++20.
CacheInit ==
    /\ slot = [s \in Slot |-> None]
    /\ size \in SizeAtStart
    /\ reuse \in ReuseAtStart
    /\ stopCounting \in StopAtStart
    /\ pc = [t \in Thread |-> "idle"]
    /\ at \in [Thread -> {CHOOSE s \in Slot : TRUE}]
    /\ held = [t \in Thread |-> {}]
    /\ warned = [t \in Thread |-> FALSE]
----------------------------------------------------------------------------
(* Looking a block up. *)

BeginQuery(t) ==
    /\ pc[t] = "idle"
    /\ Goto(t, "query")
    /\ UNCHANGED <<cache, at, held, warned>>

\* GetValues and GetData: a hit gives the reader the cached copy, and a hit on
\* values is counted unless counting has stopped; after a miss the reader
\* decodes the block and offers it.
Get(t, s) ==
    /\ pc[t] = "query"
    /\ \/ /\ slot[s] # None
          /\ held' = [held EXCEPT ![t] = @ \cup {<<s, slot[s]>>}]
          /\ Goto(t, IF s[1] = "values" /\ ~stopCounting THEN "count" ELSE "query")
          /\ UNCHANGED at
       \/ /\ slot[s] = None
          /\ at' = [at EXCEPT ![t] = s]
          /\ Goto(t, "checkSlot")
          /\ UNCHANGED held
    /\ UNCHANGED <<cache, warned>>

\* Mutant: counting never stops.
CountUnstopped(t) ==
    /\ pc[t] = "count"
    /\ reuse' = (reuse + 1) % (2 * (ReuseMax + 1))
    /\ Goto(t, "query")
    /\ UNCHANGED <<slot, size, stopCounting, at, held, warned>>

Count(t) ==
    /\ pc[t] = "count"
    /\ reuse' = (reuse + 1) % (2 * (ReuseMax + 1))
    /\ Goto(t, IF reuse >= ReuseMax THEN "stop" ELSE "query")
    /\ UNCHANGED <<slot, size, stopCounting, at, held, warned>>

StopCounting(t) ==
    /\ pc[t] = "stop"
    /\ stopCounting' = TRUE
    /\ Goto(t, "query")
    /\ UNCHANGED <<slot, size, reuse, at, held, warned>>
----------------------------------------------------------------------------
(* AddValues and AddData. *)

CheckSlot(t) ==
    /\ pc[t] = "checkSlot"
    /\ Goto(t, IF slot[at[t]] # None THEN "query" ELSE "checkSize")
    /\ UNCHANGED <<cache, at, held, warned>>

\* Mutant: the size is not looked at.
CheckNoSize(t) ==
    /\ pc[t] = "checkSize"
    /\ Goto(t, "publish")
    /\ UNCHANGED <<cache, at, held, warned>>

CheckSize(t) ==
    /\ pc[t] = "checkSize"
    /\ Goto(t, IF MaxSize # 0 /\ size >= MaxSize THEN "query" ELSE "publish")
    /\ UNCHANGED <<cache, at, held, warned>>

\* Mutant: the copy is stored whatever the slot holds.
PublishByStore(t) ==
    /\ pc[t] = "publish"
    /\ slot' = [slot EXCEPT ![at[t]] = t]
    /\ Goto(t, "charge")
    /\ UNCHANGED <<size, reuse, stopCounting, at, held, warned>>

\* compare_exchange_strong; the loser deletes its copy.
Publish(t) ==
    /\ pc[t] = "publish"
    /\ \/ /\ slot[at[t]] = None
          /\ slot' = [slot EXCEPT ![at[t]] = t]
          /\ Goto(t, "charge")
       \/ /\ slot[at[t]] # None
          /\ Goto(t, "query")
          /\ UNCHANGED slot
    /\ UNCHANGED <<size, reuse, stopCounting, at, held, warned>>

Charge(t) ==
    /\ pc[t] = "charge"
    /\ size' = size + Cost[at[t]]
    /\ Goto(t, "query")
    /\ UNCHANGED <<slot, reuse, stopCounting, at, held, warned>>
----------------------------------------------------------------------------

\* GetValsRows ends with ProduceCacheWarning; the reader is gone.
EndQuery(t) ==
    /\ pc[t] = "query"
    /\ Goto(t, "idle")
    /\ held' = [held EXCEPT ![t] = {}]
    /\ warned' = [warned EXCEPT ![t] =
           MaxSize # 0 /\ size >= MaxSize /\ reuse >= ReuseRatio * Cardinality(Block)]
    /\ UNCHANGED <<cache, at>>

\* Mutant: a cleared cache keeps its size.
ClearAllKeepsSize ==
    /\ \A t \in Thread : pc[t] = "idle"
    /\ size # 0
    /\ slot' = [s \in Slot |-> None]
    /\ warned' = [t \in Thread |-> FALSE]
    /\ UNCHANGED <<size, reuse, stopCounting, pc, at, held>>

\* ClearAll, which takes a size of zero for an empty cache.
ClearAll ==
    /\ \A t \in Thread : pc[t] = "idle"
    /\ size # 0
    /\ slot' = [s \in Slot |-> None]
    /\ size' = 0
    /\ warned' = [t \in Thread |-> FALSE]
    /\ UNCHANGED <<reuse, stopCounting, pc, at, held>>

CacheNext ==
    \/ \E t \in Thread :
          \/ BeginQuery(t) \/ EndQuery(t)
          \/ \E s \in Slot : Get(t, s)
          \/ Count(t) \/ StopCounting(t)
          \/ CheckSlot(t) \/ CheckSize(t) \/ Publish(t) \/ Charge(t)
    \/ ClearAll

CacheSpec == CacheInit /\ [][CacheNext]_cacheVars
----------------------------------------------------------------------------
(* Properties. *)

CacheTypeOK ==
    /\ slot \in [Slot -> Thread \cup {None}]
    /\ size \in Nat
    /\ reuse \in 0 .. 2 * ReuseMax + 1
    /\ stopCounting \in BOOLEAN
    /\ pc \in [Thread -> {"idle", "query", "count", "stop",
                          "checkSlot", "checkSize", "publish", "charge"}]
    /\ at \in [Thread -> Slot]
    /\ held \in [Thread -> SUBSET (Slot \X Thread)]
    /\ warned \in [Thread -> BOOLEAN]

\* A copy a reader points to stays in the cache, and stays the same copy, until
\* its query ends, whatever other queries publish in the meantime.
HeldStaysPublished ==
    \A t \in Thread : \A h \in held[t] : slot[h[1]] = h[2]

\* Threads that have passed the check of the size and not yet added theirs.
Adding == {t \in Thread : pc[t] \in {"publish", "charge"}}

\* The memory of the copies in the cache, and of those that are not counted yet,
\* byte by byte.
CacheBytes == {b \in Slot \X (1 .. CostMax) : slot[b[1]] # None /\ b[2] <= Cost[b[1]]}
ChargeBytes == {b \in Thread \X (1 .. CostMax) : pc[b[1]] = "charge" /\ b[2] <= Cost[at[b[1]]]}
Published == Cardinality(CacheBytes)
Uncharged == Cardinality(ChargeBytes)

\* The check and the addition are separate steps, so the cache grows past its
\* limit; but never by more than one copy per thread, and m_uSize never exceeds
\* that bound unless it was garbage from the start.
SizeBounded ==
    MaxSize # 0 =>
        size \in SizeAtStart \/ size < MaxSize + Cardinality(Thread) * CostMax

\* m_uSize is the memory in the cache, less what is being added, plus what the
\* counter held before the first copy or the last clearing.
SizeAccounts ==
    \E garbage \in SizeAtStart \cup {0} : size + Uncharged = garbage + Published

\* m_uReuse stops before it wraps around, also when every thread has passed the
\* check of m_bStopCounting.
ReuseStops ==
    [][reuse' >= reuse]_cacheVars

=============================================================================
