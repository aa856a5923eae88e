----------------------------- MODULE QueryProofs -----------------------------
(***************************************************************************)
(* TLAPS proofs about what a query shares and what it reads:                *)
(*   - BlockCache, for any number of threads and blocks, any limit, any     *)
(*     costs and any garbage in the counters at the start;                  *)
(*   - RowidIterator, for every index content, block size, word size,       *)
(*     bounds and hints.                                                    *)
(***************************************************************************)
EXTENDS BlockCache, RowidIterator, FiniteSetTheorems, TLAPS

(* The cache. *)

\* Between queries a thread points to nothing.
IdleHoldsNothing == \A t \in Thread : pc[t] = "idle" => held[t] = {}

\* The bound on m_uSize counts the copies on their way into the cache: once a
\* thread has passed the check, they would fit even if each cost CostMax.
RoomForAdding ==
    MaxSize # 0 =>
        \/ size \in SizeAtStart /\ Adding = {}
        \/ size + Cardinality(Adding) * CostMax <= MaxSize - 1 + Cardinality(Thread) * CostMax

CacheInv == CacheTypeOK /\ HeldStaysPublished /\ IdleHoldsNothing /\ RoomForAdding

----------------------------------------------------------------------------
(* Counting the threads that add. *)

\* Adding is a finite set of threads.
LEMMA AddingFinite ==
    /\ IsFiniteSet(Adding) /\ Cardinality(Adding) \in Nat
    /\ Cardinality(Thread) \in Nat /\ Cardinality(Adding) <= Cardinality(Thread)
<1>1. IsFiniteSet(Thread) /\ Adding \subseteq Thread
  BY CacheAssumption DEF Adding
<1>2. IsFiniteSet(Adding) /\ Cardinality(Adding) <= Cardinality(Thread)
  BY <1>1, FS_Subset
<1> QED
  BY <1>1, <1>2, FS_CardinalityType

\* A product of naturals, as the steps need it.
LEMMA Products ==
    ASSUME NEW n \in Nat, NEW m \in Nat, NEW c \in Nat, n <= m
    PROVE  n * c \in Nat /\ m * c \in Nat /\ n * c <= m * c /\ (n + 1) * c = n * c + c
<1>1. \A d \in Nat : (n + d) * c = n * c + d * c /\ d * c \in Nat
  OBVIOUS
<1>2. m - n \in Nat /\ m = n + (m - n)
  OBVIOUS
<1> QED
  BY <1>1, <1>2

\* A thread that adds nothing leaves the count alone.
LEMMA SameAdding ==
    ASSUME Adding' = Adding, size' = size
    PROVE  RoomForAdding => RoomForAdding'
BY DEF RoomForAdding

----------------------------------------------------------------------------
(* Types. *)

\* The constructor leaves every field in its type.
LEMMA TypeInit == CacheInit => CacheTypeOK
<1> SUFFICES ASSUME CacheInit PROVE CacheTypeOK
  OBVIOUS
<1>1. size \in Nat /\ reuse \in 0 .. 2 * ReuseMax + 1 /\ stopCounting \in BOOLEAN
  BY CacheAssumption DEF CacheInit
<1>2. at \in [Thread -> Slot]
  <2>0. PICK b \in Block : <<"values", b>> \in Slot
    BY CacheAssumption DEF Slot
  <2>1. (CHOOSE s \in Slot : TRUE) \in Slot
    BY <2>0, Zenon
  <2> QED
    BY <2>1 DEF CacheInit
<1> QED
  BY <1>1, <1>2 DEF CacheInit, CacheTypeOK

\* What a step of a thread does to pc and at.
LEMMA GotoType ==
    ASSUME CacheTypeOK, NEW t \in Thread, NEW label, Goto(t, label),
           label \in {"idle", "query", "count", "stop",
                      "checkSlot", "checkSize", "publish", "charge"}
    PROVE  /\ pc' \in [Thread -> {"idle", "query", "count", "stop",
                                  "checkSlot", "checkSize", "publish", "charge"}]
           /\ pc'[t] = label /\ \A u \in Thread \ {t} : pc'[u] = pc[u]
BY DEF Goto, CacheTypeOK

\* The invariant does not need m_uReuse and m_bStopCounting beyond their types.
LEMMA CountType ==
    ASSUME CacheTypeOK PROVE (reuse + 1) % (2 * (ReuseMax + 1)) \in 0 .. 2 * ReuseMax + 1
<1>1. reuse \in Nat /\ ReuseMax \in Nat
  BY CacheAssumption DEF CacheTypeOK
<1>2. \A m \in Nat : m > 0 => (reuse + 1) % m \in 0 .. m - 1
  BY <1>1
<1> QED
  BY <1>1, <1>2

----------------------------------------------------------------------------
(* One lemma per action. *)

\* A query begins with nothing held.
LEMMA BeginQueryStep ==
    ASSUME CacheInv, NEW t \in Thread, BeginQuery(t) PROVE CacheInv'
<1>1. /\ CacheTypeOK /\ Goto(t, "query") /\ UNCHANGED <<slot, size, reuse, stopCounting, at, held, warned>>
      /\ pc[t] = "idle"
  BY DEF CacheInv, BeginQuery, cache
<1>2. /\ pc'[t] = "query" /\ \A u \in Thread \ {t} : pc'[u] = pc[u]
      /\ CacheTypeOK'
  BY <1>1, GotoType DEF CacheTypeOK
<1>3. Adding' = Adding
  BY <1>1, <1>2 DEF Adding
<1>4. RoomForAdding'
  BY <1>1, <1>3, SameAdding DEF CacheInv
<1>5. HeldStaysPublished' /\ IdleHoldsNothing'
  BY <1>1, <1>2 DEF CacheInv, HeldStaysPublished, IdleHoldsNothing
<1> QED
  BY <1>2, <1>4, <1>5 DEF CacheInv

\* A query ends by letting go of what it holds.
LEMMA EndQueryStep ==
    ASSUME CacheInv, NEW t \in Thread, EndQuery(t) PROVE CacheInv'
<1>1. /\ CacheTypeOK /\ Goto(t, "idle") /\ UNCHANGED <<slot, size, reuse, stopCounting, at>>
      /\ pc[t] = "query" /\ held' = [held EXCEPT ![t] = {}]
      /\ warned' \in [Thread -> BOOLEAN]
  BY DEF CacheInv, EndQuery, cache, CacheTypeOK
<1>2. /\ pc'[t] = "idle" /\ \A u \in Thread \ {t} : pc'[u] = pc[u]
      /\ held' \in [Thread -> SUBSET (Slot \X Thread)]
      /\ held'[t] = {} /\ \A u \in Thread \ {t} : held'[u] = held[u]
  BY <1>1, GotoType DEF CacheTypeOK
<1>3. CacheTypeOK'
  BY <1>1, <1>2, GotoType DEF CacheTypeOK
<1>4. Adding' = Adding
  BY <1>1, <1>2 DEF Adding
<1>5. RoomForAdding'
  BY <1>1, <1>4, SameAdding DEF CacheInv
<1>6. HeldStaysPublished' /\ IdleHoldsNothing'
  BY <1>1, <1>2 DEF CacheInv, HeldStaysPublished, IdleHoldsNothing
<1> QED
  BY <1>3, <1>5, <1>6 DEF CacheInv

\* A hit holds what the slot holds; a miss holds nothing more.
LEMMA GetStep ==
    ASSUME CacheInv, NEW t \in Thread, NEW s \in Slot, Get(t, s) PROVE CacheInv'
<1>1. /\ CacheTypeOK /\ UNCHANGED <<slot, size, reuse, stopCounting, warned>>
      /\ pc[t] = "query"
  BY DEF CacheInv, Get, cache
<1>2. CASE /\ slot[s] # None
           /\ held' = [held EXCEPT ![t] = @ \cup {<<s, slot[s]>>}]
           /\ Goto(t, IF s[1] = "values" /\ ~stopCounting THEN "count" ELSE "query")
           /\ UNCHANGED at
  <2>1. /\ \A u \in Thread \ {t} : pc'[u] = pc[u]
        /\ pc'[t] \in {"count", "query"}
        /\ CacheTypeOK => pc' \in [Thread -> {"idle", "query", "count", "stop",
                                  "checkSlot", "checkSize", "publish", "charge"}]
    BY <1>1, <1>2 DEF Goto, CacheTypeOK
  <2>2. /\ held' \in [Thread -> SUBSET (Slot \X Thread)]
        /\ held'[t] = held[t] \cup {<<s, slot[s]>>}
        /\ \A u \in Thread \ {t} : held'[u] = held[u]
    BY <1>1, <1>2 DEF CacheTypeOK
  <2>3. CacheTypeOK'
    BY <1>1, <1>2, <2>1, <2>2 DEF CacheTypeOK
  <2>4. Adding' = Adding
    BY <1>1, <2>1 DEF Adding
  <2>5. HeldStaysPublished'
    BY <1>1, <2>2 DEF CacheInv, HeldStaysPublished
  <2>6. IdleHoldsNothing'
    BY <1>1, <2>1, <2>2 DEF CacheInv, IdleHoldsNothing
  <2> QED
    BY <1>1, <2>3, <2>4, <2>5, <2>6, SameAdding DEF CacheInv
<1>3. CASE /\ slot[s] = None
           /\ at' = [at EXCEPT ![t] = s]
           /\ Goto(t, "checkSlot")
           /\ UNCHANGED held
  <2>1. /\ \A u \in Thread \ {t} : pc'[u] = pc[u]
        /\ pc'[t] = "checkSlot"
        /\ at' \in [Thread -> Slot]
    BY <1>1, <1>3, GotoType DEF CacheTypeOK
  <2>2. CacheTypeOK'
    BY <1>1, <1>3, <2>1, GotoType DEF CacheTypeOK
  <2>3. Adding' = Adding
    BY <1>1, <2>1 DEF Adding
  <2>4. HeldStaysPublished' /\ IdleHoldsNothing'
    BY <1>1, <1>3, <2>1 DEF CacheInv, HeldStaysPublished, IdleHoldsNothing
  <2> QED
    BY <1>1, <2>2, <2>3, <2>4, SameAdding DEF CacheInv
<1> QED
  BY <1>2, <1>3 DEF Get

\* Counting a reuse touches neither slots nor readers.
LEMMA CountStep ==
    ASSUME CacheInv, NEW t \in Thread, Count(t) \/ StopCounting(t) PROVE CacheInv'
<1>1. /\ CacheTypeOK /\ UNCHANGED <<slot, size, at, held, warned>>
      /\ pc[t] \in {"count", "stop"}
      /\ reuse' \in 0 .. 2 * ReuseMax + 1 /\ stopCounting' \in BOOLEAN
      /\ Goto(t, "stop") \/ Goto(t, "query")
  BY CountType DEF CacheInv, Count, StopCounting, CacheTypeOK
<1>2. /\ pc'[t] \in {"stop", "query"} /\ \A u \in Thread \ {t} : pc'[u] = pc[u]
      /\ pc' \in [Thread -> {"idle", "query", "count", "stop",
                              "checkSlot", "checkSize", "publish", "charge"}]
  BY <1>1, GotoType
<1>3. CacheTypeOK'
  BY <1>1, <1>2 DEF CacheTypeOK
<1>4. Adding' = Adding
  BY <1>1, <1>2 DEF Adding
<1>5. HeldStaysPublished' /\ IdleHoldsNothing'
  BY <1>1, <1>2 DEF CacheInv, HeldStaysPublished, IdleHoldsNothing
<1> QED
  BY <1>1, <1>3, <1>4, <1>5, SameAdding DEF CacheInv

\* Looking at the slot before an addition changes nothing.
LEMMA CheckSlotStep ==
    ASSUME CacheInv, NEW t \in Thread, CheckSlot(t) PROVE CacheInv'
<1>1. /\ CacheTypeOK /\ UNCHANGED <<slot, size, reuse, stopCounting, at, held, warned>>
      /\ pc[t] = "checkSlot"
      /\ Goto(t, "checkSize") \/ Goto(t, "query")
  BY DEF CacheInv, CheckSlot, cache
<1>2. /\ pc'[t] \in {"checkSize", "query"} /\ \A u \in Thread \ {t} : pc'[u] = pc[u]
      /\ CacheTypeOK'
  BY <1>1, GotoType DEF CacheTypeOK
<1>3. Adding' = Adding
  BY <1>1, <1>2 DEF Adding
<1>4. HeldStaysPublished' /\ IdleHoldsNothing'
  BY <1>1, <1>2 DEF CacheInv, HeldStaysPublished, IdleHoldsNothing
<1> QED
  BY <1>1, <1>2, <1>3, <1>4, SameAdding DEF CacheInv

\* A thread joins the threads that add only while the cache is below its limit.
LEMMA CheckSizeStep ==
    ASSUME CacheInv, NEW t \in Thread, CheckSize(t) PROVE CacheInv'
<1>1. /\ CacheTypeOK /\ UNCHANGED <<slot, size, reuse, stopCounting, at, held, warned>>
      /\ pc[t] = "checkSize"
      /\ \/ MaxSize # 0 /\ size >= MaxSize /\ Goto(t, "query")
         \/ ~(MaxSize # 0 /\ size >= MaxSize) /\ Goto(t, "publish")
  BY DEF CacheInv, CheckSize, cache
<1>2. /\ pc'[t] \in {"publish", "query"} /\ \A u \in Thread \ {t} : pc'[u] = pc[u]
      /\ CacheTypeOK'
  BY <1>1, GotoType DEF CacheTypeOK
<1>3. HeldStaysPublished' /\ IdleHoldsNothing'
  BY <1>1, <1>2 DEF CacheInv, HeldStaysPublished, IdleHoldsNothing
<1>4. CASE MaxSize # 0 /\ size >= MaxSize /\ Goto(t, "query")
  <2>1. pc'[t] = "query"
    BY <1>1, <1>4, GotoType
  <2>2. Adding' = Adding
    BY <1>1, <1>2, <2>1 DEF Adding
  <2> QED
    BY <1>1, <1>2, <1>3, <2>2, SameAdding DEF CacheInv
<1>5. CASE ~(MaxSize # 0 /\ size >= MaxSize)
  <2>1. Adding' \subseteq Thread
    BY DEF Adding
  <2>2. Cardinality(Adding') \in Nat /\ Cardinality(Thread) \in Nat
        /\ Cardinality(Adding') <= Cardinality(Thread)
    BY <2>1, CacheAssumption, FS_Subset, FS_CardinalityType
  <2>3. Cardinality(Adding') * CostMax <= Cardinality(Thread) * CostMax
        /\ Cardinality(Adding') * CostMax \in Nat /\ Cardinality(Thread) * CostMax \in Nat
    BY <2>2, CacheAssumption, Products
  <2>4. MaxSize # 0 => size' <= MaxSize - 1 /\ size' \in Nat /\ MaxSize \in Nat
    BY <1>1, <1>5, CacheAssumption DEF CacheTypeOK
  <2>5. MaxSize # 0 =>
          size' + Cardinality(Adding') * CostMax <= MaxSize - 1 + Cardinality(Thread) * CostMax
    BY <2>3, <2>4
  <2>6. RoomForAdding'
    BY <2>5 DEF RoomForAdding
  <2> QED
    BY <1>2, <1>3, <2>6 DEF CacheInv
<1> QED
  BY <1>1, <1>4, <1>5

\* What leaves the room kept for the threads that add may go into the size.
LEMMA Trade ==
    ASSUME NEW old \in Nat, NEW new \in Nat, NEW few \in Nat, NEW c \in Nat, NEW top \in Int,
           new <= old + c, old + (few + c) <= top
    PROVE  new + few <= top
OBVIOUS

\* One thread fewer adds.
LEMMA OneFewer ==
    ASSUME CacheTypeOK, RoomForAdding, NEW t \in Thread, t \in Adding, Adding' = Adding \ {t},
           size' \in Nat, size' <= size + CostMax
    PROVE  RoomForAdding'
<1>1. /\ IsFiniteSet(Adding) /\ Cardinality(Adding) \in Nat /\ Cardinality(Thread) \in Nat
  BY AddingFinite
<1>2. Cardinality(Adding') = Cardinality(Adding) - 1 /\ Cardinality(Adding') \in Nat
  <2>1. IsFiniteSet(Adding') /\ Cardinality(Adding \ {t}) = Cardinality(Adding) - 1
    BY <1>1, FS_RemoveElement
  <2> QED
    BY <2>1, FS_CardinalityType
<1> DEFINE n == Cardinality(Adding)
           m == Cardinality(Adding')
           roof == MaxSize - 1 + Cardinality(Thread) * CostMax
<1>3. m \in Nat /\ n = m + 1 /\ CostMax \in Nat /\ size \in Nat
  BY <1>1, <1>2, CacheAssumption DEF CacheTypeOK
<1>4. m * CostMax \in Nat /\ n * CostMax = m * CostMax + CostMax
  <2> HIDE DEF m, n
  <2> QED
    BY <1>3, Products
<1>5. MaxSize # 0 => size + n * CostMax <= roof
  BY DEF RoomForAdding
<1>6. roof \in Int
  BY <1>1, CacheAssumption, Products
<1>7. ASSUME MaxSize # 0 PROVE size' + m * CostMax <= roof
  <2>1. size + (m * CostMax + CostMax) <= roof
    BY <1>4, <1>5, <1>7
  <2> HIDE DEF m, roof
  <2> QED
    BY <1>3, <1>4, <1>6, <2>1, Trade
<1> QED
  BY <1>7 DEF RoomForAdding

\* A publication fills an empty slot, so no reader points into it yet.
LEMMA PublishStep ==
    ASSUME CacheInv, NEW t \in Thread, Publish(t) PROVE CacheInv'
<1>1. /\ CacheTypeOK /\ UNCHANGED <<size, reuse, stopCounting, at, held, warned>>
      /\ pc[t] = "publish" /\ at[t] \in Slot
      /\ \/ slot[at[t]] = None /\ slot' = [slot EXCEPT ![at[t]] = t] /\ Goto(t, "charge")
         \/ UNCHANGED slot /\ Goto(t, "query")
  BY DEF CacheInv, Publish, CacheTypeOK
<1>2. /\ pc'[t] \in {"charge", "query"} /\ \A u \in Thread \ {t} : pc'[u] = pc[u]
      /\ pc' \in [Thread -> {"idle", "query", "count", "stop",
                              "checkSlot", "checkSize", "publish", "charge"}]
  BY <1>1, GotoType
<1>3. CacheTypeOK'
  BY <1>1, <1>2 DEF CacheTypeOK
<1>4. IdleHoldsNothing'
  BY <1>1, <1>2 DEF CacheInv, IdleHoldsNothing
<1>5. CASE slot[at[t]] = None /\ slot' = [slot EXCEPT ![at[t]] = t] /\ Goto(t, "charge")
  <2>1. \A s \in Slot : slot[s] # None => slot'[s] = slot[s]
    BY <1>1, <1>5 DEF CacheTypeOK
  <2>2. ASSUME NEW u \in Thread, NEW h \in held[u] PROVE slot'[h[1]] = h[2]
    <3>1. h[1] \in Slot /\ h[2] \in Thread /\ slot[h[1]] = h[2]
      BY <1>1 DEF CacheInv, HeldStaysPublished, CacheTypeOK
    <3>2. h[2] # None
      BY <3>1, CacheAssumption
    <3> QED
      BY <2>1, <3>1, <3>2
  <2>3. HeldStaysPublished'
    BY <1>1, <2>2 DEF HeldStaysPublished
  <2>4. pc'[t] = "charge"
    BY <1>1, <1>5, GotoType
  <2>5. Adding' = Adding
    BY <1>1, <1>2, <2>4 DEF Adding
  <2> QED
    BY <1>1, <1>3, <1>4, <2>3, <2>5, SameAdding DEF CacheInv
<1>6. CASE UNCHANGED slot /\ Goto(t, "query")
  <2>1. HeldStaysPublished'
    BY <1>1, <1>6 DEF CacheInv, HeldStaysPublished
  <2>2. pc'[t] = "query"
    BY <1>1, <1>6, GotoType
  <2>3. t \in Adding /\ Adding' = Adding \ {t}
    BY <1>1, <1>2, <2>2 DEF Adding
  <2>4. size' \in Nat /\ size' <= size + CostMax
    BY <1>1, CacheAssumption DEF CacheTypeOK
  <2>5. RoomForAdding'
    BY <1>1, <2>3, <2>4, OneFewer DEF CacheInv
  <2> QED
    BY <1>3, <1>4, <2>1, <2>5 DEF CacheInv
<1> QED
  BY <1>1, <1>5, <1>6

\* A thread that adds its size takes at most the room kept for it.
LEMMA ChargeStep ==
    ASSUME CacheInv, NEW t \in Thread, Charge(t) PROVE CacheInv'
<1>1. /\ CacheTypeOK /\ UNCHANGED <<slot, reuse, stopCounting, at, held, warned>>
      /\ pc[t] = "charge" /\ at[t] \in Slot /\ Goto(t, "query")
      /\ size' = size + Cost[at[t]]
  BY DEF CacheInv, Charge, CacheTypeOK
<1>2. /\ pc'[t] = "query" /\ \A u \in Thread \ {t} : pc'[u] = pc[u]
      /\ pc' \in [Thread -> {"idle", "query", "count", "stop",
                              "checkSlot", "checkSize", "publish", "charge"}]
  BY <1>1, GotoType
<1>3. size' \in Nat /\ size' <= size + CostMax
  BY <1>1, CacheAssumption DEF CacheTypeOK
<1>4. CacheTypeOK'
  BY <1>1, <1>2, <1>3 DEF CacheTypeOK
<1>5. HeldStaysPublished' /\ IdleHoldsNothing'
  BY <1>1, <1>2 DEF CacheInv, HeldStaysPublished, IdleHoldsNothing
<1>6. t \in Adding /\ Adding' = Adding \ {t}
  BY <1>1, <1>2 DEF Adding
<1>7. RoomForAdding'
  BY <1>1, <1>3, <1>6, OneFewer DEF CacheInv
<1> QED
  BY <1>4, <1>5, <1>7 DEF CacheInv

\* Clearing waits until nobody holds a copy.
LEMMA ClearAllStep == CacheInv /\ ClearAll => CacheInv'
<1> SUFFICES ASSUME CacheInv, ClearAll PROVE CacheInv'
  OBVIOUS
<1>1. /\ CacheTypeOK /\ UNCHANGED <<reuse, stopCounting, pc, at, held>>
      /\ slot' = [s \in Slot |-> None] /\ size' = 0
      /\ warned' = [t \in Thread |-> FALSE]
      /\ \A t \in Thread : pc[t] = "idle" /\ held[t] = {}
  BY DEF CacheInv, ClearAll, IdleHoldsNothing
<1>2. CacheTypeOK'
  BY <1>1 DEF CacheTypeOK
<1>3. HeldStaysPublished' /\ IdleHoldsNothing'
  BY <1>1 DEF HeldStaysPublished, IdleHoldsNothing
<1>4. Adding' = {}
  BY <1>1 DEF Adding
<1>5. Cardinality(Adding') = 0
  BY <1>4, FS_EmptySet
<1>6. Cardinality(Thread) * CostMax \in Nat /\ CostMax \in Nat /\ MaxSize \in Nat
  BY AddingFinite, CacheAssumption, Products
<1>7. MaxSize # 0 => size' + 0 * CostMax <= MaxSize - 1 + Cardinality(Thread) * CostMax
  BY <1>1, <1>6
<1>8. RoomForAdding'
  BY <1>5, <1>7 DEF RoomForAdding
<1> QED
  BY <1>2, <1>3, <1>8 DEF CacheInv

\* The invariant holds of a new cache.
LEMMA CacheAtStart == CacheInit => CacheInv
<1> SUFFICES ASSUME CacheInit PROVE CacheInv
  OBVIOUS
<1>1. CacheTypeOK
  BY TypeInit
<1>2. HeldStaysPublished /\ IdleHoldsNothing
  BY DEF CacheInit, HeldStaysPublished, IdleHoldsNothing
<1>3. Adding = {}
  BY DEF CacheInit, Adding
<1>4. RoomForAdding
  BY <1>3 DEF CacheInit, RoomForAdding
<1> QED
  BY <1>1, <1>2, <1>4 DEF CacheInv

\* Every step keeps the invariant.
LEMMA CacheStep == CacheInv /\ [CacheNext]_cacheVars => CacheInv'
<1> SUFFICES ASSUME CacheInv, [CacheNext]_cacheVars PROVE CacheInv'
  OBVIOUS
<1>1. CASE UNCHANGED cacheVars
  <2>1. UNCHANGED <<slot, size, reuse, stopCounting, pc, at, held, warned>>
    BY <1>1 DEF cacheVars, cache
  <2> QED
    BY <2>1 DEF CacheInv, CacheTypeOK, HeldStaysPublished, IdleHoldsNothing, RoomForAdding, Adding
<1>2. CASE CacheNext
  BY <1>2, BeginQueryStep, EndQueryStep, GetStep, CountStep, CheckSlotStep, CheckSizeStep,
     PublishStep, ChargeStep, ClearAllStep DEF CacheNext
<1> QED
  BY <1>1, <1>2

----------------------------------------------------------------------------
(* Theorems. *)

\* So it always holds.
LEMMA CacheInvariance == CacheSpec => []CacheInv
<1> QED
  BY CacheAtStart, CacheStep, PTL DEF CacheSpec

\* Every field keeps its type; in particular no reader is given a null pointer.
THEOREM CacheTypes == CacheSpec => []CacheTypeOK
<1>1. CacheInv => CacheTypeOK
  BY DEF CacheInv
<1> QED
  BY <1>1, CacheInvariance, PTL

\* A cached copy a reader points to is neither replaced nor removed before its
\* query ends, for any number of threads that look up and publish at once.
THEOREM HeldCopiesStay == CacheSpec => []HeldStaysPublished
<1>1. CacheInv => HeldStaysPublished
  BY DEF CacheInv
<1> QED
  BY <1>1, CacheInvariance, PTL

\* m_uSize outgrows its limit by less than one copy per thread.
THEOREM SizeWithinBound == CacheSpec => []SizeBounded
<1>1. CacheInv => SizeBounded
  <2> SUFFICES ASSUME CacheInv, MaxSize # 0, size \notin SizeAtStart
               PROVE  size < MaxSize + Cardinality(Thread) * CostMax
    BY DEF SizeBounded
  <2>1. size + Cardinality(Adding) * CostMax <= MaxSize - 1 + Cardinality(Thread) * CostMax
    BY DEF CacheInv, RoomForAdding
  <2>2. /\ size \in Nat /\ MaxSize \in Nat
        /\ Cardinality(Adding) * CostMax \in Nat /\ Cardinality(Thread) * CostMax \in Nat
    BY AddingFinite, CacheAssumption, Products DEF CacheInv, CacheTypeOK
  <2> QED
    BY <2>1, <2>2
<1> QED
  BY <1>1, CacheInvariance, PTL
----------------------------------------------------------------------------
(* The size accounts for the copies: both are counted byte by byte, so that *)
(* a publication adds the same number of bytes to the cache and to what is  *)
(* not counted yet, and an addition to m_uSize takes them from the latter.  *)

\* The sets of bytes are finite.
LEMMA BytesFinite ==
    /\ IsFiniteSet(CacheBytes) /\ IsFiniteSet(ChargeBytes)
    /\ Published \in Nat /\ Uncharged \in Nat
<1>1. IsFiniteSet({"values", "data"})
  <2>1. IsFiniteSet({"values"} \cup {"data"})
    BY FS_Singleton, FS_AddElement, Zenon
  <2>2. {"values"} \cup {"data"} = {"values", "data"}
    OBVIOUS
  <2> QED
    BY <2>1, <2>2, Zenon
<1>2. IsFiniteSet(Slot)
  BY <1>1, CacheAssumption, FS_Product DEF Slot
<1>3. IsFiniteSet(1 .. CostMax)
  BY CacheAssumption, FS_Interval
<1>4. IsFiniteSet(Slot \X (1 .. CostMax)) /\ IsFiniteSet(Thread \X (1 .. CostMax))
  BY <1>2, <1>3, CacheAssumption, FS_Product
<1>5. CacheBytes \subseteq Slot \X (1 .. CostMax) /\ ChargeBytes \subseteq Thread \X (1 .. CostMax)
  BY DEF CacheBytes, ChargeBytes
<1>6. IsFiniteSet(CacheBytes) /\ IsFiniteSet(ChargeBytes)
  BY <1>4, <1>5, FS_Subset
<1> QED
  BY <1>6, FS_CardinalityType DEF Published, Uncharged

\* A copy of cost n takes n bytes of its own.
LEMMA OwnBytes ==
    ASSUME NEW x, NEW n \in Nat, NEW S, IsFiniteSet(S), S \cap ({x} \X (1 .. n)) = {}
    PROVE  /\ IsFiniteSet(S \cup ({x} \X (1 .. n)))
           /\ Cardinality(S \cup ({x} \X (1 .. n))) = Cardinality(S) + n
<1> DEFINE T == {x} \X (1 .. n)
<1>1. IsFiniteSet({x}) /\ Cardinality({x}) = 1
  BY FS_Singleton
<1>2. IsFiniteSet(1 .. n) /\ Cardinality(1 .. n) = n
  BY FS_Interval
<1>3. IsFiniteSet(T) /\ Cardinality(T) = 1 * n
  <2>1. IsFiniteSet(T) /\ Cardinality(T) = Cardinality({x}) * Cardinality(1 .. n)
    BY <1>1, <1>2, FS_Product
  <2> QED
    BY <1>1, <1>2, <2>1
<1>4. Cardinality(S \cap T) = 0
  BY FS_EmptySet
<1>5. IsFiniteSet(S \cup T) /\ Cardinality(S \cup T) = Cardinality(S) + Cardinality(T) - Cardinality(S \cap T)
  <2> HIDE DEF T
  <2> QED
    BY <1>3, FS_Union
<1>6. Cardinality(S) \in Nat
  BY FS_CardinalityType
<1> HIDE DEF T
<1>7. Cardinality(S \cup T) = Cardinality(S) + n
  BY <1>3, <1>4, <1>5, <1>6
<1> QED
  BY <1>5, <1>7 DEF T

\* A step that publishes nothing and leaves the threads that charge alone
\* leaves the bytes alone.
LEMMA SameBytes ==
    ASSUME SizeAccounts, UNCHANGED <<slot, size>>,
           \A t \in Thread : (pc'[t] = "charge") = (pc[t] = "charge"),
           \A t \in Thread : pc[t] = "charge" => at'[t] = at[t]
    PROVE  SizeAccounts'
<1>1. CacheBytes' = CacheBytes
  BY DEF CacheBytes
<1>2. ChargeBytes' = ChargeBytes
  BY DEF ChargeBytes
<1> QED
  BY <1>1, <1>2 DEF SizeAccounts, Published, Uncharged

\* The winner of a publication adds its copy to both sides; the loser neither.
LEMMA PublishAccounts ==
    ASSUME CacheInv, SizeAccounts, NEW t \in Thread, Publish(t) PROVE SizeAccounts'
<1>1. /\ CacheTypeOK /\ UNCHANGED <<size, at>> /\ pc[t] = "publish" /\ at[t] \in Slot
      /\ \/ slot[at[t]] = None /\ slot' = [slot EXCEPT ![at[t]] = t] /\ Goto(t, "charge")
         \/ UNCHANGED slot /\ Goto(t, "query")
  BY DEF CacheInv, Publish, CacheTypeOK
<1>2. CASE UNCHANGED slot /\ Goto(t, "query")
  <2>1. pc'[t] = "query" /\ \A u \in Thread \ {t} : pc'[u] = pc[u]
    BY <1>1, <1>2, GotoType
  <2>2. \A u \in Thread : (pc'[u] = "charge") = (pc[u] = "charge")
    BY <1>1, <2>1
  <2> QED
    BY <1>1, <1>2, <2>2, SameBytes
<1>3. CASE slot[at[t]] = None /\ slot' = [slot EXCEPT ![at[t]] = t] /\ Goto(t, "charge")
  <2> DEFINE n == Cost[at[t]]
  <2>1. pc'[t] = "charge" /\ \A u \in Thread \ {t} : pc'[u] = pc[u]
    BY <1>1, <1>3, GotoType
  <2>2. n \in Nat /\ n <= CostMax /\ CostMax \in Nat /\ t # None
    BY <1>1, CacheAssumption
  <2>3. \A s \in Slot : slot'[s] # None <=> (slot[s] # None \/ s = at[t])
    BY <1>1, <1>3, <2>2 DEF CacheTypeOK
  <2>4. /\ CacheBytes' = CacheBytes \cup ({at[t]} \X (1 .. n))
        /\ CacheBytes \cap ({at[t]} \X (1 .. n)) = {}
    BY <1>1, <1>3, <2>2, <2>3 DEF CacheBytes
  <2>5. /\ ChargeBytes' = ChargeBytes \cup ({t} \X (1 .. n))
        /\ ChargeBytes \cap ({t} \X (1 .. n)) = {}
    BY <1>1, <2>1, <2>2 DEF ChargeBytes
  <2>6. Cardinality(CacheBytes') = Cardinality(CacheBytes) + n
    <3> HIDE DEF n
    <3> QED
      BY <2>2, <2>4, BytesFinite, OwnBytes
  <2>7. Cardinality(ChargeBytes') = Cardinality(ChargeBytes) + n
    <3> HIDE DEF n
    <3> QED
      BY <2>2, <2>5, BytesFinite, OwnBytes
  <2>8. Published' = Published + n /\ Uncharged' = Uncharged + n
    BY <2>6, <2>7 DEF Published, Uncharged
  <2>9. PICK garbage \in SizeAtStart \cup {0} : size + Uncharged = garbage + Published
    BY DEF SizeAccounts
  <2>10. size \in Nat /\ garbage \in Nat /\ size' = size
    BY <1>1, CacheAssumption DEF CacheTypeOK
  <2>11. size' + Uncharged' = garbage + Published'
    <3> HIDE DEF n
    <3> QED
      BY <2>2, <2>8, <2>9, <2>10, BytesFinite
  <2> QED
    BY <2>11 DEF SizeAccounts
<1> QED
  BY <1>1, <1>2, <1>3

\* A thread that adds its size has nothing left to add.
LEMMA ChargeAccounts ==
    ASSUME CacheInv, SizeAccounts, NEW t \in Thread, Charge(t) PROVE SizeAccounts'
<1> DEFINE n == Cost[at[t]]
<1>1. /\ CacheTypeOK /\ UNCHANGED <<slot, at>> /\ pc[t] = "charge" /\ at[t] \in Slot
      /\ Goto(t, "query") /\ size' = size + n
  BY DEF CacheInv, Charge, CacheTypeOK
<1>2. pc'[t] = "query" /\ \A u \in Thread \ {t} : pc'[u] = pc[u]
  BY <1>1, GotoType
<1>3. n \in Nat /\ n <= CostMax /\ CostMax \in Nat
  BY <1>1, CacheAssumption
<1>4. CacheBytes' = CacheBytes
  BY <1>1 DEF CacheBytes
<1>5. /\ ChargeBytes = ChargeBytes' \cup ({t} \X (1 .. n))
      /\ ChargeBytes' \cap ({t} \X (1 .. n)) = {}
      /\ ChargeBytes' \subseteq ChargeBytes
  BY <1>1, <1>2, <1>3 DEF ChargeBytes
<1>6. IsFiniteSet(ChargeBytes') /\ Cardinality(ChargeBytes') \in Nat
  BY <1>5, BytesFinite, FS_Subset, FS_CardinalityType
<1>7. Cardinality(ChargeBytes) = Cardinality(ChargeBytes') + n
  <2> DEFINE S == ChargeBytes'
  <2>1. IsFiniteSet(S) /\ S \cap ({t} \X (1 .. n)) = {} /\ ChargeBytes = S \cup ({t} \X (1 .. n))
    BY <1>5, <1>6
  <2> HIDE DEF n, S
  <2>2. Cardinality(ChargeBytes) = Cardinality(S) + n
    BY <1>3, <2>1, OwnBytes
  <2> QED
    BY <2>2 DEF S
<1>8. Published' = Published /\ Uncharged = Uncharged' + n /\ Uncharged' \in Nat
  BY <1>4, <1>6, <1>7 DEF Published, Uncharged
<1>9. PICK garbage \in SizeAtStart \cup {0} : size + Uncharged = garbage + Published
  BY DEF SizeAccounts
<1>10. size \in Nat /\ garbage \in Nat
  BY <1>1, CacheAssumption DEF CacheTypeOK
<1>11. size' + Uncharged' = garbage + Published'
  <2>1. size' = size + n /\ size' \in Nat /\ Published' \in Nat
    BY <1>1, <1>3, <1>8, <1>10, BytesFinite
  <2>2. size + (Uncharged' + n) = garbage + Published'
    BY <1>8, <1>9
  <2> HIDE DEF n
  <2>3. n \in Nat /\ size \in Nat /\ Uncharged' \in Nat
    BY <1>3, <1>8, <1>10
  <2>4. \A rest \in Nat : size + (rest + n) = (size + n) + rest
    BY <2>3
  <2>5. size + (Uncharged' + n) = (size + n) + Uncharged'
    BY <2>3, <2>4
  <2>6. (size + n) + Uncharged' = size' + Uncharged'
    BY <2>1, Zenon
  <2> QED
    BY <2>2, <2>5, <2>6, Zenon
<1> QED
  BY <1>11 DEF SizeAccounts

\* A cleared cache has size zero and holds nothing, and nobody charges.
LEMMA ClearAllAccounts == CacheInv /\ ClearAll => SizeAccounts'
<1> SUFFICES ASSUME CacheInv, ClearAll PROVE SizeAccounts'
  OBVIOUS
<1>1. /\ UNCHANGED pc /\ slot' = [s \in Slot |-> None] /\ size' = 0
      /\ \A t \in Thread : pc[t] = "idle"
  BY DEF ClearAll
<1>2. CacheBytes' = {}
  BY <1>1 DEF CacheBytes
<1>3. ChargeBytes' = {}
  BY <1>1 DEF ChargeBytes
<1>4. Published' = 0 /\ Uncharged' = 0
  BY <1>2, <1>3, FS_EmptySet DEF Published, Uncharged
<1>5. size' + Uncharged' = 0 + Published' /\ 0 \in SizeAtStart \cup {0}
  BY <1>1, <1>4
<1> QED
  BY <1>5 DEF SizeAccounts

\* No other action moves bytes.
LEMMA OtherAccounts ==
    ASSUME CacheInv, SizeAccounts, NEW t \in Thread,
           \/ BeginQuery(t) \/ EndQuery(t) \/ \E s \in Slot : Get(t, s)
           \/ Count(t) \/ StopCounting(t) \/ CheckSlot(t) \/ CheckSize(t)
    PROVE  SizeAccounts'
<1>1. CacheTypeOK /\ pc[t] # "charge" /\ UNCHANGED <<slot, size>>
  BY DEF CacheInv, BeginQuery, EndQuery, Get, Count, StopCounting, CheckSlot, CheckSize, cache
<1>2. /\ at' = at \/ \E s : at' = [at EXCEPT ![t] = s]
      /\ \E label \in {"idle", "query", "count", "stop", "checkSlot", "checkSize", "publish"} :
             Goto(t, label)
  BY DEF BeginQuery, EndQuery, Get, Count, StopCounting, CheckSlot, CheckSize
<1>3. PICK label \in {"idle", "query", "count", "stop", "checkSlot", "checkSize", "publish"} :
          Goto(t, label)
  BY <1>2
<1>4. pc'[t] # "charge" /\ \A u \in Thread \ {t} : pc'[u] = pc[u]
  BY <1>1, <1>3, GotoType
<1>5. \A u \in Thread \ {t} : at'[u] = at[u]
  BY <1>1, <1>2 DEF CacheTypeOK
<1>6. \A u \in Thread : (pc'[u] = "charge") = (pc[u] = "charge")
  BY <1>1, <1>4
<1> QED
  BY <1>1, <1>5, <1>6, SameBytes

\* A new cache holds nothing, whatever its counter says.
LEMMA AccountsInit == CacheInit => SizeAccounts
<1> SUFFICES ASSUME CacheInit PROVE SizeAccounts
  OBVIOUS
<1>1. CacheBytes = {}
  BY DEF CacheInit, CacheBytes
<1>2. ChargeBytes = {}
  BY DEF CacheInit, ChargeBytes
<1>3. Published = 0 /\ Uncharged = 0
  BY <1>1, <1>2, FS_EmptySet DEF Published, Uncharged
<1>4. size + Uncharged = size + Published /\ size \in SizeAtStart \cup {0}
  BY <1>3 DEF CacheInit
<1> QED
  BY <1>4 DEF SizeAccounts

\* Every step keeps the account.
LEMMA AccountsStep == CacheInv /\ SizeAccounts /\ [CacheNext]_cacheVars => SizeAccounts'
<1> SUFFICES ASSUME CacheInv, SizeAccounts, [CacheNext]_cacheVars PROVE SizeAccounts'
  OBVIOUS
<1>1. CASE UNCHANGED cacheVars
  BY <1>1, SameBytes DEF cacheVars, cache
<1>2. CASE CacheNext
  BY <1>2, OtherAccounts, PublishAccounts, ChargeAccounts, ClearAllAccounts DEF CacheNext
<1> QED
  BY <1>1, <1>2

\* m_uSize is the memory of the copies in the cache, less what is being added,
\* plus what the constructor left in it until the cache is first cleared.
THEOREM SizeIsMemory == CacheSpec => []SizeAccounts
<1> QED
  BY AccountsInit, AccountsStep, CacheInvariance, PTL DEF CacheSpec
----------------------------------------------------------------------------
(* The reuse counter stops.  Once it has reached the limit, each thread that *)
(* counts goes on to stop the counting, so before it is stopped only threads *)
(* that are not about to stop it can count, and afterwards only those that   *)
(* have passed the check: none of them twice.                                *)

\* The threads that may yet count.
MayCount ==
    IF stopCounting THEN {t \in Thread : pc[t] = "count"} ELSE {t \in Thread : pc[t] # "stop"}

\* The word has room for all of them.
RoomForCounting == reuse + Cardinality(MayCount) <= 2 * ReuseMax + 1

\* They are finitely many.
LEMMA MayCountFinite ==
    /\ IsFiniteSet(MayCount) /\ Cardinality(MayCount) \in Nat
    /\ Cardinality(MayCount) <= Cardinality(Thread) /\ Cardinality(Thread) \in Nat
<1>1. MayCount \subseteq Thread
  BY DEF MayCount
<1> QED
  BY <1>1, CacheAssumption, FS_Subset, FS_CardinalityType

\* The room suffices for fewer threads.
LEMMA FewerCount ==
    ASSUME CacheTypeOK, RoomForCounting, reuse' = reuse, MayCount' \subseteq MayCount
    PROVE  RoomForCounting'
<1>1. Cardinality(MayCount') <= Cardinality(MayCount) /\ Cardinality(MayCount') \in Nat
  BY MayCountFinite, FS_Subset, FS_CardinalityType
<1>2. reuse \in Nat /\ ReuseMax \in Nat /\ Cardinality(MayCount) \in Nat
  BY CacheAssumption, MayCountFinite DEF CacheTypeOK
<1> QED
  BY <1>1, <1>2 DEF RoomForCounting

\* A thread that counts does not wrap the word around, and counts no more
\* before it has stopped the counting or has been checked again.
LEMMA CountStops ==
    ASSUME CacheInv, ReuseRoom, RoomForCounting, NEW t \in Thread, Count(t)
    PROVE  RoomForCounting' /\ reuse' = reuse + 1
<1>1. /\ CacheTypeOK /\ pc[t] = "count" /\ UNCHANGED stopCounting
      /\ reuse' = (reuse + 1) % (2 * (ReuseMax + 1))
      /\ reuse \in Nat /\ ReuseMax \in Nat
      /\ Goto(t, IF reuse >= ReuseMax THEN "stop" ELSE "query")
  BY CacheAssumption DEF CacheInv, Count, CacheTypeOK
<1>2. t \in MayCount
  BY <1>1 DEF MayCount
<1> DEFINE n == Cardinality(MayCount)
           m == Cardinality(MayCount \ {t})
           thr == Cardinality(Thread)
<1>3. /\ m = n - 1 /\ m \in Nat /\ n \in Nat /\ thr \in Nat
  BY <1>2, MayCountFinite, FS_RemoveElement, FS_CardinalityType
<1>4. reuse + n <= 2 * ReuseMax + 1
  BY DEF RoomForCounting
<1>5. reuse + 1 <= 2 * ReuseMax + 1
  <2> HIDE DEF n, m
  <2> QED
    BY <1>1, <1>3, <1>4
<1>6. reuse' = reuse + 1
  <2>1. \A k \in Nat : reuse + 1 < k => (reuse + 1) % k = reuse + 1
    BY <1>1
  <2>2. 2 * (ReuseMax + 1) \in Nat /\ reuse + 1 < 2 * (ReuseMax + 1)
    BY <1>1, <1>5
  <2> QED
    BY <1>1, <2>1, <2>2
<1>7. \A u \in Thread \ {t} : pc'[u] = pc[u]
  BY <1>1, GotoType
<1>8. CASE stopCounting \/ reuse >= ReuseMax
  <2>1. pc'[t] # "count" /\ (~stopCounting => pc'[t] = "stop")
    BY <1>1, <1>8, GotoType
  <2>2. MayCount' = MayCount \ {t}
    BY <1>1, <1>7, <2>1 DEF MayCount
  <2>3. Cardinality(MayCount') = m
    BY <2>2
  <2>4. (reuse + 1) + m <= 2 * ReuseMax + 1
    <3> HIDE DEF n, m
    <3> QED
      BY <1>1, <1>3, <1>4
  <2> QED
    BY <1>6, <2>3, <2>4 DEF RoomForCounting
<1>9. CASE ~stopCounting /\ reuse < ReuseMax
  <2> DEFINE k == Cardinality(MayCount')
  <2>1. MayCount' \subseteq Thread
    BY DEF MayCount
  <2>2. k <= thr /\ k \in Nat
    BY <2>1, CacheAssumption, FS_Subset, FS_CardinalityType
  <2>3. ReuseMax + thr <= 2 * ReuseMax + 1
    BY DEF ReuseRoom
  <2>4. (reuse + 1) + k <= 2 * ReuseMax + 1
    <3> HIDE DEF k, thr
    <3> QED
      BY <1>1, <1>3, <1>9, <2>2, <2>3
  <2> QED
    BY <1>6, <2>4 DEF RoomForCounting
<1> QED
  BY <1>1, <1>6, <1>8, <1>9

\* No other step adds to the threads that may count.
LEMMA OthersCountLess ==
    ASSUME CacheInv, RoomForCounting, NEW t \in Thread,
           \/ BeginQuery(t) \/ EndQuery(t) \/ \E s \in Slot : Get(t, s)
           \/ StopCounting(t) \/ CheckSlot(t) \/ CheckSize(t) \/ Publish(t) \/ Charge(t)
    PROVE  RoomForCounting' /\ reuse' = reuse
<1>1. CacheTypeOK /\ reuse' = reuse
  BY DEF CacheInv, BeginQuery, EndQuery, Get, StopCounting, CheckSlot, CheckSize, Publish, Charge, cache
<1>2. CASE StopCounting(t)
  <2>1. pc[t] = "stop" /\ stopCounting' = TRUE /\ Goto(t, "query")
    BY <1>2 DEF StopCounting
  <2>2. pc'[t] = "query" /\ \A u \in Thread \ {t} : pc'[u] = pc[u]
    BY <1>1, <2>1, GotoType
  <2>3. MayCount' \subseteq MayCount
    BY <2>1, <2>2 DEF MayCount
  <2> QED
    BY <1>1, <2>3, FewerCount
<1>3. CASE ~StopCounting(t)
  <2>1. /\ pc[t] # "stop" /\ UNCHANGED stopCounting
        /\ \E label \in {"idle", "query", "checkSlot", "checkSize", "publish", "charge"} :
               Goto(t, label) \/ (~stopCounting /\ Goto(t, "count"))
    BY <1>3 DEF BeginQuery, EndQuery, Get, CheckSlot, CheckSize, Publish, Charge, cache
  <2>2. /\ \A u \in Thread \ {t} : pc'[u] = pc[u]
        /\ pc'[t] # "count" \/ ~stopCounting
    BY <1>1, <2>1, GotoType
  <2>3. MayCount' \subseteq MayCount
    BY <2>1, <2>2 DEF MayCount
  <2> QED
    BY <1>1, <2>3, FewerCount
<1> QED
  BY <1>2, <1>3

\* Clearing the cache does not touch the counter.
LEMMA ClearAllCounts ==
    ASSUME CacheInv, RoomForCounting, ClearAll
    PROVE  RoomForCounting' /\ reuse' = reuse
<1>1. UNCHANGED <<reuse, stopCounting, pc>>
  BY DEF ClearAll
<1>2. MayCount' = MayCount
  BY <1>1 DEF MayCount
<1> QED
  BY <1>1, <1>2 DEF RoomForCounting

\* The counter starts with room for all threads.
LEMMA CountingInit ==
    ASSUME ReuseRoom, CacheInit PROVE RoomForCounting
<1>1. reuse \in ReuseAtStart /\ reuse \in Nat /\ ReuseMax \in Nat
  BY CacheAssumption DEF CacheInit
<1>2. reuse + Cardinality(Thread) <= 2 * ReuseMax + 1
  BY <1>1 DEF ReuseRoom
<1> QED
  BY <1>1, <1>2, MayCountFinite DEF RoomForCounting

\* Every step keeps the room, and none lowers the counter.
LEMMA CountingStep ==
    ASSUME CacheInv, ReuseRoom, RoomForCounting, [CacheNext]_cacheVars
    PROVE  RoomForCounting' /\ reuse' >= reuse
<1>1. reuse \in Nat /\ reuse + 1 >= reuse /\ reuse >= reuse
  BY CacheAssumption DEF CacheInv, CacheTypeOK
<1>2. CASE UNCHANGED cacheVars
  BY <1>1, <1>2 DEF cacheVars, cache, RoomForCounting, MayCount
<1>3. CASE CacheNext
  <2>1. CASE ClearAll
    BY <1>1, <2>1, ClearAllCounts
  <2>2. CASE \E t \in Thread : Count(t)
    BY <1>1, <2>2, CountStops
  <2>3. CASE ~ClearAll /\ ~\E t \in Thread : Count(t)
    BY <1>1, <1>3, <2>3, OthersCountLess DEF CacheNext
  <2> QED
    BY <2>1, <2>2, <2>3
<1> QED
  BY <1>2, <1>3

\* m_uReuse never wraps around, although the check of m_bStopCounting and the
\* addition are apart and any number of threads may lie between them.
THEOREM ReuseNeverWraps == ReuseRoom => (CacheSpec => ReuseStops)
<1> SUFFICES ASSUME ReuseRoom PROVE CacheSpec => ReuseStops
  OBVIOUS
<1>1. CacheInit => RoomForCounting
  BY CountingInit
<1>2. CacheInv /\ RoomForCounting /\ [CacheNext]_cacheVars => RoomForCounting'
  BY CountingStep
<1>3. CacheInv /\ RoomForCounting /\ [CacheNext]_cacheVars => [reuse' >= reuse]_cacheVars
  BY CountingStep
<1> QED
  BY <1>1, <1>2, <1>3, CacheInvariance, PTL DEF CacheSpec, ReuseStops

----------------------------------------------------------------------------
(* Where the rows of a value lie.  All facts about blocks come from these. *)

\* The number of blocks is the rounded-up quotient.
LEMMA CeilDiv ==
    ASSUME NEW c \in Nat, NEW k \in Nat, c > 0, k > 0
    PROVE  LET n == (c + k - 1) \div k
           IN  n \in Nat \ {0} /\ (n - 1) * k < c /\ c <= n * k
<1> DEFINE n == (c + k - 1) \div k
           m == (c + k - 1) % k
<1>1. n \in Int /\ m \in 0 .. (k - 1) /\ c + k - 1 = k * n + m
  OBVIOUS
<1>2. n >= 1
  <2>1. k * n > 0
    BY <1>1
  <2> QED
    BY <1>1, <2>1
<1>3. (n - 1) * k = k * n - k /\ n * k = k * n
  BY <1>1
<1> QED
  BY <1>1, <1>2, <1>3

\* A later block starts after a whole block.
LEMMA BlockStride ==
    ASSUME NEW k \in Nat, NEW b \in Int, NEW c \in Int, b < c
    PROVE  b * k \in Int /\ c * k \in Int /\ b * k + k <= c * k
<1>1. \A d \in Nat : b * k + k <= (b + 1 + d) * k
  OBVIOUS
<1>2. c - b - 1 \in Nat /\ c = b + 1 + (c - b - 1)
  OBVIOUS
<1> QED
  BY <1>1, <1>2

\* The last block holds the remainder, or a whole block when there is none.
LEMMA LastBlockCount ==
    ASSUME NEW c \in Nat, NEW k \in Nat, NEW n \in Nat, c > 0, k > 0, n > 0,
           (n - 1) * k < c, c <= n * k
    PROVE  c - (n - 1) * k = IF c % k # 0 THEN c % k ELSE k
<1> DEFINE q == c \div k
           m == c % k
<1>1. q \in Int /\ m \in 0 .. (k - 1) /\ c = q * k + m
  OBVIOUS
<1>2. q * k <= c /\ c < q * k + k
  BY <1>1
<1>3. n - 1 <= q
  <2>1. SUFFICES ASSUME q < n - 1 PROVE FALSE
    BY <1>1
  <2> QED
    BY <1>1, <1>2, <2>1, BlockStride
<1>4. q <= n
  <2>1. SUFFICES ASSUME n < q PROVE FALSE
    BY <1>1
  <2> QED
    BY <1>1, <1>2, <2>1, BlockStride
<1>5. CASE q = n - 1
  BY <1>1, <1>5
<1>6. CASE q = n
  <2>1. m = 0
    BY <1>1, <1>6
  <2>2. (n - 1) * k = n * k - k
    OBVIOUS
  <2> QED
    BY <1>1, <1>6, <2>1, <2>2
<1> QED
  BY <1>1, <1>3, <1>4, <1>5, <1>6

\* The shape of one block: its rows are at consecutive positions of the value.
LEMMA BlockShape ==
    ASSUME val \in Value
    PROVE  /\ NumBlocks \in Nat \ {0}
           /\ \A b \in 0 .. NumBlocks - 1 :
                /\ CalcNumBlockRowids(b) = StoredInBlock(b)
                /\ StoredInBlock(b) \in 1 .. RowidsPerBlock
                /\ b * RowidsPerBlock \in Nat
                /\ b * RowidsPerBlock + StoredInBlock(b) <= uCount
<1> DEFINE k == RowidsPerBlock
           n == NumBlocks
<1>1. uCount \in Nat /\ uCount > 0 /\ k \in Nat /\ k > 0
  BY RowidsAssumption, ParamAssumption DEF uCount
<1>2. n \in Nat \ {0} /\ (n - 1) * k < uCount /\ uCount <= n * k
  BY <1>1, CeilDiv DEF NumBlocks
<1>3. ASSUME NEW b \in 0 .. n - 1
      PROVE  /\ CalcNumBlockRowids(b) = StoredInBlock(b)
             /\ StoredInBlock(b) \in 1 .. k
             /\ b * k \in Nat
             /\ b * k + StoredInBlock(b) <= uCount
  <2> HIDE DEF n
  <2>1. b * k \in Nat
    BY <1>1, <1>2, BlockStride, b = 0 \/ 0 < b
  <2>2. CASE b < n - 1
    <3>1. b * k + k <= (n - 1) * k
      BY <1>1, <1>2, <2>2, BlockStride
    <3>2. CalcNumBlockRowids(b) = k /\ StoredInBlock(b) = k
      BY <2>2 DEF n, CalcNumBlockRowids, StoredInBlock
    <3> QED
      BY <1>1, <1>2, <2>1, <3>1, <3>2
  <2>3. CASE b = n - 1
    <3>1. uCount - b * k = IF uCount % k # 0 THEN uCount % k ELSE k
      <4> HIDE DEF k
      <4>1. n \in Nat /\ n > 0
        BY <1>2
      <4>2. uCount - (n - 1) * k = IF uCount % k # 0 THEN uCount % k ELSE k
        BY <1>1, <1>2, <4>1, LastBlockCount, Zenon
      <4> QED
        BY <2>3, <4>2
    <3>2. StoredInBlock(b) = uCount - b * k
      BY <1>2, <2>3 DEF n, StoredInBlock
    <3>3. CalcNumBlockRowids(b) = IF uCount % k # 0 THEN uCount % k ELSE k
      BY <1>2, <2>3 DEF n, CalcNumBlockRowids
    <3>4. uCount % k \in 0 .. k - 1
      BY <1>1
    <3> QED
      BY <1>1, <2>1, <3>1, <3>2, <3>3, <3>4
  <2> QED
    BY <1>2, <2>2, <2>3
<1> QED
  BY <1>2, <1>3

\* Every row of a block is a stored row between the minimum and the maximum the
\* table keeps for the block, and both of these are rows of it.
LEMMA BlockRange ==
    ASSUME val \in Value, NEW b \in 0 .. NumBlocks - 1
    PROVE  /\ BlockRows(b) \subseteq AllRows
           /\ AllRows \subseteq Nat
           /\ BlockMin(b) \in BlockRows(b) /\ BlockMax(b) \in BlockRows(b)
           /\ \A r \in BlockRows(b) : BlockMin(b) <= r /\ r <= BlockMax(b)
<1> DEFINE k == RowidsPerBlock
           s == Rowids[val]
           base == b * k
           count == StoredInBlock(b)
<1>1. /\ base \in Nat /\ count \in Nat /\ 1 <= count /\ base + count <= uCount
      /\ CalcNumBlockRowids(b) = count
  BY BlockShape, ParamAssumption
<1>2. /\ s \in Seq(Nat) /\ uCount = Len(s)
      /\ \A i, j \in 1 .. Len(s) : i < j => s[i] < s[j]
      /\ \A i \in 1 .. Len(s) : s[i] \in Nat
  BY RowidsAssumption DEF uCount
<1> HIDE DEF base, count, s
<1>3. BlockRows(b) = {s[base + i] : i \in 1 .. count}
  BY <1>1 DEF BlockRows, base, s
<1>4. BlockMin(b) = s[base + 1] /\ BlockMax(b) = s[base + count]
  BY DEF BlockMin, BlockMax, base, count, s
<1>5. AllRows = {s[i] : i \in 1 .. Len(s)}
  BY <1>2 DEF AllRows, s
<1>6. \A i \in 1 .. count : base + i \in 1 .. Len(s)
  BY <1>1, <1>2
<1>7. \A i \in 1 .. count : s[base + 1] <= s[base + i] /\ s[base + i] <= s[base + count]
  <2> TAKE i \in 1 .. count
  <2>1. base + 1 \in 1 .. Len(s) /\ base + i \in 1 .. Len(s) /\ base + count \in 1 .. Len(s)
    BY <1>1, <1>6
  <2>2. s[base + 1] \in Nat /\ s[base + i] \in Nat /\ s[base + count] \in Nat
    BY <1>2, <2>1
  <2>3. s[base + 1] <= s[base + i]
    BY <1>1, <1>2, <2>1, <2>2, i = 1 \/ base + 1 < base + i
  <2>4. s[base + i] <= s[base + count]
    BY SMTT(30), <1>1, <1>2, <2>1, <2>2, i = count \/ base + i < base + count
  <2> QED
    BY <2>3, <2>4
<1>8. BlockRows(b) \subseteq AllRows
  BY <1>3, <1>5, <1>6
<1>9. AllRows \subseteq Nat
  BY <1>2, <1>5
<1>10. BlockMin(b) \in BlockRows(b) /\ BlockMax(b) \in BlockRows(b)
  BY <1>1, <1>3, <1>4
<1>11. \A r \in BlockRows(b) : BlockMin(b) <= r /\ r <= BlockMax(b)
  BY <1>3, <1>4, <1>7
<1> QED
  BY <1>8, <1>9, <1>10, <1>11

\* Blocks are in the order of their rows.
LEMMA BlocksAscend ==
    ASSUME val \in Value, NEW b \in 0 .. NumBlocks - 1, NEW c \in 0 .. NumBlocks - 1,
           b < c
    PROVE  BlockMax(b) < BlockMin(c)
<1> DEFINE k == RowidsPerBlock
           s == Rowids[val]
           i == b * k + StoredInBlock(b)
           j == c * k + 1
<1>1. k \in Nat /\ k > 0
  BY ParamAssumption
<1>2. b * k \in Nat /\ c * k \in Nat /\ b * k + k <= c * k
  BY <1>1, BlockStride, BlockShape
<1>3. i \in 1 .. uCount /\ j \in 1 .. uCount /\ i < j
  <2>1. /\ StoredInBlock(b) \in 1 .. k /\ b * k + StoredInBlock(b) <= uCount
        /\ StoredInBlock(c) \in 1 .. k /\ c * k + StoredInBlock(c) <= uCount
    BY BlockShape
  <2>2. uCount \in Nat
    BY RowidsAssumption DEF uCount
  <2> QED
    BY <1>1, <1>2, <2>1, <2>2
<1>4. s[i] < s[j]
  BY <1>3, RowidsAssumption DEF uCount
<1> QED
  BY <1>4 DEF BlockMin, BlockMax

\* Every stored row is in a block.
LEMMA BlocksCover ==
    ASSUME val \in Value, NEW r \in AllRows
    PROVE  \E b \in 0 .. NumBlocks - 1 : r \in BlockRows(b)
<1> DEFINE k == RowidsPerBlock
           n == NumBlocks
<1>1. k \in Nat /\ k > 0 /\ uCount \in Nat /\ uCount > 0
  BY ParamAssumption, RowidsAssumption DEF uCount
<1>2. n \in Nat \ {0} /\ (n - 1) * k < uCount /\ uCount <= n * k
  BY <1>1, CeilDiv DEF NumBlocks
<1>3. PICK p \in 1 .. uCount : r = Rowids[val][p]
  BY DEF AllRows
<1> DEFINE q == (p - 1) \div k
           m == (p - 1) % k
<1>4. q \in Int /\ m \in 0 .. k - 1 /\ p - 1 = q * k + m
  BY <1>1
<1>5. q >= 0
  <2>1. SUFFICES ASSUME q < 0 PROVE FALSE
    BY <1>4
  <2>2. q * k + k <= 0 * k
    BY <1>1, <1>4, <2>1, BlockStride
  <2> QED
    BY <1>1, <1>4, <2>2
<1>6. q <= n - 1
  <2> HIDE DEF n, q, m
  <2>1. SUFFICES ASSUME n - 1 < q PROVE FALSE
    BY <1>2, <1>4
  <2>2. (n - 1) * k + k <= q * k
    BY <1>1, <1>2, <1>4, <2>1, BlockStride
  <2>3. n * k = (n - 1) * k + k
    BY <1>1, <1>2
  <2> QED
    BY <1>1, <1>2, <1>3, <1>4, <2>2, <2>3
<1>7. q \in 0 .. n - 1
  BY <1>2, <1>4, <1>5, <1>6
<1>8. m + 1 \in 1 .. CalcNumBlockRowids(q)
  <2> HIDE DEF n, q, m
  <2>1. CalcNumBlockRowids(q) = StoredInBlock(q)
    BY <1>7, BlockShape DEF n
  <2>2. q < n - 1 => StoredInBlock(q) = k
    BY DEF StoredInBlock, n
  <2>3. ~(q < n - 1) => StoredInBlock(q) = uCount - q * k
    BY DEF StoredInBlock, n
  <2> QED
    BY <1>1, <1>3, <1>4, <2>1, <2>2, <2>3
<1>9. r = Rowids[val][q * k + (m + 1)]
  <2>1. p = q * k + (m + 1)
    BY <1>1, <1>3, <1>4
  <2> QED
    BY <1>3, <2>1
<1> QED
  BY <1>7, <1>8, <1>9 DEF BlockRows

----------------------------------------------------------------------------
(* What a step does to the rows owed. *)

\* While the iterator stays on a value, nothing the builder stored changes.
LEMMA SameValue ==
    ASSUME val' = val, bounds' = bounds
    PROVE  /\ AllRows' = AllRows /\ NumBlocks' = NumBlocks /\ Packing' = Packing
           /\ uMinRowID' = uMinRowID /\ uMaxRowID' = uMaxRowID
           /\ OverlappingBlocks' = OverlappingBlocks
           /\ BlockMin(curBlock)' = BlockMin(curBlock')
           /\ BlockMax(curBlock)' = BlockMax(curBlock')
           /\ Owed' = {r \in AllRows : InBounds(r) /\ r >= hint' /\ r \notin returned'}
BY DEF AllRows, NumBlocks, Packing, uMinRowID, uMaxRowID, uCount, OverlappingBlocks,
       Overlaps, BlockMin, BlockMax, StoredInBlock, Owed, InBounds

\* A row within the bounds is in a block that MarkMatchingBlocks marks.
LEMMA OwedInOverlapping ==
    ASSUME TypeOK, NEW r \in AllRows, InBounds(r)
    PROVE  \E c \in OverlappingBlocks :
              /\ c \in 0 .. NumBlocks - 1
              /\ r \in BlockRows(c) /\ BlockMin(c) <= r /\ r <= BlockMax(c)
<1>1. val \in Value
  BY DEF TypeOK
<1>2. PICK c \in 0 .. NumBlocks - 1 : r \in BlockRows(c)
  BY <1>1, BlocksCover
<1>3. BlockMin(c) <= r /\ r <= BlockMax(c)
  BY <1>1, <1>2, BlockRange
<1>4. /\ r \in Nat /\ BlockMin(c) \in Nat /\ BlockMax(c) \in Nat
  BY <1>1, BlockRange
<1>5. ASSUME bounds # NoBounds PROVE bounds \in [min : Nat, max : Nat]
  BY <1>5, ParamAssumption DEF TypeOK
<1>6. Overlaps(BlockMin(c), BlockMax(c))
  BY <1>3, <1>4, <1>5 DEF Overlaps, InBounds
<1> QED
  BY <1>2, <1>3, <1>6 DEF OverlappingBlocks

\* Reading block k, when no row owed lies before it, pays for exactly the rows
\* of the block and is a Deliver step of the contract.
LEMMA ReadsBlock ==
    ASSUME TypeOK, NEW k \in 0 .. NumBlocks - 1, Return(BlockRows(k)),
           val' = val, bounds' = bounds, ~ended,
           front <= BlockMin(k),
           \A r \in Owed : r <= BlockMax(k) => r \in BlockRows(k)
    PROVE  /\ front' = BlockMax(k) + 1 /\ front' \in Nat
           /\ disordered' = disordered /\ hint' = hint /\ ended' = ended
           /\ returned' \in SUBSET AllRows
           /\ \A r \in Owed' : BlockMax(k) < r
           /\ Stream!Deliver
<1>1. val \in Value
  BY DEF TypeOK
<1>2. /\ BlockRows(k) \subseteq AllRows /\ AllRows \subseteq Nat
      /\ BlockMin(k) \in BlockRows(k) /\ BlockMax(k) \in BlockRows(k)
      /\ \A r \in BlockRows(k) : BlockMin(k) <= r /\ r <= BlockMax(k)
  BY <1>1, BlockRange
<1>0. /\ front \in Nat /\ disordered \in BOOLEAN
      /\ BlockMin(k) \in Nat /\ BlockMax(k) \in Nat
      /\ \A r \in BlockRows(k) : r \in Nat
  BY <1>2 DEF TypeOK
<1>3. PICK last \in BlockRows(k) : (\A r \in BlockRows(k) : r <= last) /\ front' = last + 1
  BY DEF Return
<1>4. last = BlockMax(k)
  <2>1. last <= BlockMax(k) /\ BlockMax(k) <= last /\ last \in Nat /\ BlockMax(k) \in Nat
    BY <1>2, <1>3
  <2> QED
    BY <2>1
<1>5. front' = BlockMax(k) + 1 /\ front' \in Nat
  BY <1>0, <1>3, <1>4
<1>6. \A r \in BlockRows(k) : r >= front
  BY <1>0, <1>2
<1>7. disordered' = disordered /\ hint' = hint /\ ended' = ended
      /\ returned' = returned \cup BlockRows(k)
  <2>1. ~ \E r \in BlockRows(k) : r < front
    BY <1>0, <1>6
  <2> QED
    BY <1>0, <2>1 DEF Return
<1>8. Owed' = Owed \ BlockRows(k)
  BY <1>7, SameValue DEF Owed
<1>9. \A r \in Owed : r \in AllRows /\ r \in Nat
  BY <1>2 DEF Owed
<1>10. \A r \in Owed' : BlockMax(k) < r
  BY <1>0, <1>8, <1>9
<1>11. BlockMax(k) \in Row
  BY <1>1, <1>2 DEF AllRows, Row, uCount
<1>12. Stream!Deliver
  <2>1. \A r \in Owed : r <= BlockMax(k) => r >= front
    BY <1>6
  <2>2. Owed' = {r \in Owed : r > BlockMax(k)}
    BY <1>0, <1>2, <1>8, <1>9
  <2>3. BlockMax(k) >= front
    BY <1>2, <1>6
  <2> QED
    BY <1>5, <1>7, <1>11, <2>1, <2>2, <2>3 DEF Stream!Deliver
<1> QED
  BY <1>2, <1>5, <1>7, <1>10, <1>12 DEF TypeOK

----------------------------------------------------------------------------
(* Each action keeps the invariant and implements a step of the contract.  *)

StreamStep == [Stream!Next]_(Stream!streamVars)

\* A read that pays for block k and stays on it.
LEMMA AfterRead ==
    ASSUME IInv, NEW k \in 0 .. NumBlocks - 1, Return(BlockRows(k)),
           val' = val, bounds' = bounds, ~ended, ~stopped, stopped' = FALSE,
           started' = TRUE, needToRewind' = TRUE, curBlock' = k,
           Packing = "ROW_BLOCKS_LIST",
           OverlappingBlocks \subseteq matching', matching' \in SUBSET Nat, words' \in Nat,
           front <= BlockMin(k),
           \A r \in Owed : r <= BlockMax(k) => r \in BlockRows(k)
    PROVE  IInv' /\ StreamStep
<1>1. TypeOK /\ InOrder
  BY DEF IInv
<1>2. /\ front' = BlockMax(k) + 1 /\ front' \in Nat
      /\ disordered' = disordered /\ hint' = hint /\ ended' = ended
      /\ returned' \in SUBSET AllRows
      /\ \A r \in Owed' : BlockMax(k) < r
      /\ Stream!Deliver
  BY <1>1, ReadsBlock
<1>0. val \in Value /\ bounds \in Bounds \cup {NoBounds} /\ disordered \in BOOLEAN
      /\ hint \in Nat /\ ended \in BOOLEAN
  BY <1>1 DEF TypeOK
<1>a. NumBlocks \in Nat /\ k \in Nat /\ k < NumBlocks /\ BlockMax(k) \in Nat
  BY <1>0, BlockShape, BlockRange
<1>b. /\ NumBlocks' = NumBlocks /\ AllRows' = AllRows /\ Packing' = Packing
      /\ OverlappingBlocks' = OverlappingBlocks /\ BlockMax(curBlock)' = BlockMax(k)
  BY SameValue
<1>3. TypeOK'
  <2>1. /\ curBlock' \in Nat /\ curBlock' < NumBlocks'
    BY <1>a, <1>b
  <2>2. returned' \in SUBSET AllRows'
    BY <1>2, <1>b
  <2> QED
    BY <1>0, <1>2, <2>1, <2>2 DEF TypeOK
<1>4. OnBlock'
  <2>1. OwedAhead(curBlock)'
    <3>1. front' <= BlockMax(k) + 1
      BY <1>2, <1>a
    <3> QED
      BY <1>2, <1>b, <3>1 DEF OwedAhead
  <2> QED
    BY <1>b, <2>1 DEF OnBlock
<1>5. InOrder' /\ Fresh' /\ StoppedOwesNothing'
  BY <1>1, <1>2 DEF InOrder, Fresh, StoppedOwesNothing
<1> QED
  BY <1>2, <1>3, <1>4, <1>5 DEF IInv, StreamStep, Stream!Next

\* The first read of a value.
LEMMA StartStep == IInv /\ StartBlock => IInv' /\ StreamStep
<1> SUFFICES ASSUME IInv, StartBlock PROVE IInv' /\ StreamStep
  OBVIOUS
<1>1. /\ TypeOK /\ InOrder /\ val \in Value
      /\ ~started /\ ~stopped /\ ~ended /\ returned = {} /\ front = 0
      /\ started' = TRUE /\ val' = val /\ bounds' = bounds /\ needToRewind' = needToRewind
  BY DEF IInv, Fresh, StartBlock, TypeOK, InOrder
<1>2. AllRows \subseteq Nat
  BY <1>1, BlockRange, BlockShape
<1>3. CASE StartWhole
  <2>1. /\ stopped' = TRUE /\ UNCHANGED <<curBlock, matching, words, hint, ended>>
        /\ returned' = AllRows
    BY <1>1, <1>3 DEF StartWhole, Return
  <2>2. PICK last \in AllRows : (\A r \in AllRows : r <= last) /\ front' = last + 1
    BY <1>3 DEF StartWhole, Return
  <2>3. disordered' = disordered
    BY <1>1, <1>2, <1>3 DEF StartWhole, Return, TypeOK
  <2>4. Owed' = {}
    BY <1>1, <2>1, SameValue
  <2>5. TypeOK'
    BY <1>1, <1>2, <2>1, <2>2, <2>3, SameValue DEF TypeOK
  <2>6. IInv'
    BY <1>1, <2>1, <2>3, <2>4, <2>5 DEF IInv, InOrder, Fresh, StoppedOwesNothing, OnBlock
  <2>7. last \in Row /\ last \in Nat /\ Owed \subseteq AllRows
    BY <1>1, <1>2, <2>2 DEF AllRows, Row, uCount, Owed
  <2>9. Owed' = {r \in Owed : r > last}
    <3>1. \A r \in Owed : r \in Nat /\ r <= last
      BY <1>2, <2>2, <2>7
    <3>2. \A r \in Owed : ~ (r > last)
      BY <2>7, <3>1
    <3> QED
      BY <2>4, <3>2
  <2>8. Stream!Deliver
    BY <1>1, <1>2, <2>1, <2>2, <2>7, <2>9 DEF Stream!Deliver
  <2> QED
    BY <2>6, <2>8 DEF StreamStep, Stream!Next
<1>4. CASE StartList
  <2>1. Packing = "ROW_BLOCKS_LIST" /\ matching' = MarkedBits /\ words' = GrownTo(NumBlocks)
    BY <1>4 DEF StartList
  <2>2. NumBlocks \in Nat \ {0} /\ OverlappingBlocks \subseteq 0 .. NumBlocks - 1
    BY <1>1, BlockShape DEF OverlappingBlocks
  <2>3. WordsFor(NumBlocks) \in Nat /\ words' \in Nat
    BY <1>1, <2>1, <2>2, ParamAssumption, CeilDiv DEF WordsFor, GrownTo, TypeOK
  <2>4. MarkedBits \in SUBSET Nat /\ OverlappingBlocks \subseteq MarkedBits
    <3>1. CASE bounds = NoBounds
      <4>1. MarkedBits = 0 .. GrownTo(NumBlocks) * WordBits - 1
        BY <3>1 DEF MarkedBits
      <4>2. NumBlocks <= WordsFor(NumBlocks) * WordBits
        BY <2>2, ParamAssumption, CeilDiv DEF WordsFor
      <4>3. GrownTo(NumBlocks) >= WordsFor(NumBlocks) /\ GrownTo(NumBlocks) \in Nat
        BY <1>1, <2>3 DEF GrownTo, TypeOK
      <4>4. NumBlocks <= GrownTo(NumBlocks) * WordBits
        <5>1. WordsFor(NumBlocks) * WordBits <= GrownTo(NumBlocks) * WordBits
          <6>1. CASE WordsFor(NumBlocks) = GrownTo(NumBlocks)
            BY <2>3, <6>1, ParamAssumption
          <6>2. CASE WordsFor(NumBlocks) < GrownTo(NumBlocks)
            BY <2>3, <4>3, <6>2, ParamAssumption, BlockStride
          <6> QED
            BY <2>3, <4>3, <6>1, <6>2
        <5> QED
          BY <2>2, <2>3, <4>2, <4>3, <5>1, ParamAssumption
      <4> QED
        BY <2>2, <4>1, <4>4, <4>3, ParamAssumption
    <3>2. CASE bounds # NoBounds
      <4>1. MarkedBits = ResizedBits(NumBlocks) \cup OverlappingBlocks
        BY <3>2 DEF MarkedBits
      <4>2. ResizedBits(NumBlocks) \subseteq Nat
        BY <1>1 DEF ResizedBits, TypeOK
      <4>3. OverlappingBlocks \subseteq Nat
        BY <2>2
      <4> QED
        BY <4>1, <4>2, <4>3, Zenon
    <3> QED
      BY <3>1, <3>2
  <2>5. CASE OverlappingBlocks = {} /\ stopped' = TRUE /\ Deny /\ UNCHANGED curBlock
    <3>1. Owed = {}
      BY <1>1, <2>5, OwedInOverlapping DEF Owed
    <3>2. Owed' = {}
      BY <1>1, <2>5, <3>1, SameValue DEF Deny, Owed
    <3>3. TypeOK'
      BY <1>1, <2>1, <2>3, <2>4, <2>5, SameValue DEF TypeOK, Deny
    <3>4. IInv'
      BY <1>1, <2>5, <3>2, <3>3
      DEF IInv, InOrder, Fresh, StoppedOwesNothing, OnBlock, Deny
    <3>5. Stream!Exhaust
      BY <2>5, <3>1, <3>2 DEF Stream!Exhaust, Deny
    <3> QED
      BY <3>4, <3>5 DEF StreamStep, Stream!Next
  <2>6. CASE \E k \in OverlappingBlocks :
               /\ IsLeast(k, OverlappingBlocks)
               /\ curBlock' = k /\ Return(BlockRows(k)) /\ UNCHANGED stopped
    <3>1. PICK k \in OverlappingBlocks :
               /\ IsLeast(k, OverlappingBlocks)
               /\ curBlock' = k /\ Return(BlockRows(k)) /\ UNCHANGED stopped
      BY <2>6
    <3>2. k \in 0 .. NumBlocks - 1 /\ BlockMin(k) \in Nat /\ BlockMax(k) \in Nat
      BY <1>1, <2>2, <3>1, BlockRange
    <3>3. ASSUME NEW r \in Owed, r <= BlockMax(k) PROVE r \in BlockRows(k)
      <4>1. PICK c \in OverlappingBlocks : r \in BlockRows(c) /\ BlockMin(c) <= r
        BY <1>1, OwedInOverlapping DEF Owed
      <4>2. k <= c /\ c \in 0 .. NumBlocks - 1
        BY <2>2, <3>1, <4>1 DEF IsLeast
      <4>3. ~(k < c)
        <5>1. SUFFICES ASSUME k < c PROVE FALSE
          OBVIOUS
        <5>2. BlockMax(k) < BlockMin(c) /\ BlockMin(c) \in Nat /\ r \in Nat
          BY <1>1, <1>2, <3>2, <4>2, <5>1, BlocksAscend, BlockRange DEF Owed
        <5> QED
          BY <3>2, <3>3, <4>1, <5>2
      <4> QED
        BY <3>2, <4>1, <4>2, <4>3
    <3>4. needToRewind' = TRUE /\ stopped' = FALSE
      BY <1>1, <3>1 DEF IInv, Fresh, TypeOK
    <3>5. matching' \in SUBSET Nat /\ OverlappingBlocks \subseteq matching'
      BY <2>1, <2>4
    <3>6. front <= BlockMin(k)
      BY <1>1, <3>2
    <3> QED
      BY <1>1, <2>1, <2>3, <3>1, <3>2, <3>3, <3>4, <3>5, <3>6, AfterRead
  <2> QED
    BY <1>4, <2>5, <2>6 DEF StartList
<1> QED
  BY <1>3, <1>4 DEF StartBlock

\* A later read after RewindToNextMatchingBlock.
LEMMA RewindStep == IInv /\ NextRewind => IInv' /\ StreamStep
<1> SUFFICES ASSUME IInv, NextRewind PROVE IInv' /\ StreamStep
  OBVIOUS
<1>1. /\ TypeOK /\ val \in Value /\ started /\ ~stopped /\ needToRewind /\ ~ended
      /\ started' = started /\ stopped' = stopped /\ needToRewind' = needToRewind
      /\ val' = val /\ bounds' = bounds /\ matching' = matching /\ words' = words
      /\ Packing = "ROW_BLOCKS_LIST" /\ OverlappingBlocks \subseteq matching
      /\ OwedAhead(curBlock)
  BY DEF IInv, NextRewind, TypeOK, StoppedOwesNothing, OnBlock
<1>2. PICK k \in Later(curBlock) :
           IsLeast(k, Later(curBlock)) /\ curBlock' = k /\ Return(BlockRows(k))
  BY DEF NextRewind
<1>3. /\ started \in BOOLEAN /\ stopped \in BOOLEAN /\ needToRewind \in BOOLEAN
      /\ matching \in SUBSET Nat /\ words \in Nat /\ curBlock \in Nat /\ front \in Nat
      /\ curBlock < NumBlocks /\ NumBlocks \in Nat
  BY <1>1, BlockShape DEF TypeOK
<1>4. k \in 0 .. NumBlocks - 1 /\ curBlock \in 0 .. NumBlocks - 1 /\ curBlock < k
  BY <1>2, <1>3 DEF Later
<1>5. /\ BlockMin(k) \in Nat /\ BlockMax(k) \in Nat /\ BlockMax(curBlock) \in Nat
      /\ BlockMax(curBlock) < BlockMin(k) /\ AllRows \subseteq Nat
  BY <1>1, <1>4, BlockRange, BlocksAscend
<1>6. front <= BlockMax(curBlock) + 1 /\ \A r \in Owed : BlockMax(curBlock) < r
  BY <1>1, <1>3 DEF OwedAhead
<1>7. front <= BlockMin(k)
  BY <1>3, <1>5, <1>6
<1>8. ASSUME NEW r \in Owed, r <= BlockMax(k) PROVE r \in BlockRows(k)
  <2>1. PICK c \in OverlappingBlocks : /\ c \in 0 .. NumBlocks - 1
                                       /\ r \in BlockRows(c) /\ BlockMin(c) <= r /\ r <= BlockMax(c)
    BY <1>1, OwedInOverlapping DEF Owed
  <2>2. r \in Nat /\ BlockMin(c) \in Nat /\ BlockMax(c) \in Nat /\ BlockMax(curBlock) < r
    BY <1>1, <1>5, <1>6, <2>1, BlockRange DEF Owed
  <2>3. curBlock < c
    <3>1. SUFFICES ASSUME c <= curBlock PROVE FALSE
      BY <1>4, <2>1
    <3>2. c = curBlock \/ BlockMax(c) < BlockMin(curBlock)
      BY <1>1, <1>4, <2>1, <3>1, BlocksAscend
    <3>3. BlockMin(curBlock) <= BlockMax(curBlock) /\ BlockMin(curBlock) \in Nat
      BY <1>1, <1>4, BlockRange
    <3> QED
      BY <1>5, <2>1, <2>2, <3>2, <3>3
  <2>4. k <= c
    <3>1. c \in Later(curBlock)
      BY <1>1, <1>3, <2>1, <2>3 DEF Later
    <3> QED
      BY <1>2, <3>1 DEF IsLeast
  <2>5. ~(k < c)
    <3>1. SUFFICES ASSUME k < c PROVE FALSE
      OBVIOUS
    <3>2. BlockMax(k) < BlockMin(c)
      BY <1>1, <1>4, <2>1, <3>1, BlocksAscend
    <3> QED
      BY <1>5, <1>8, <2>1, <2>2, <3>2
  <2> QED
    BY <1>4, <2>1, <2>4, <2>5
<1>9. /\ stopped' = FALSE /\ started' = TRUE /\ needToRewind' = TRUE
      /\ OverlappingBlocks \subseteq matching' /\ matching' \in SUBSET Nat /\ words' \in Nat
  BY <1>1, <1>3
<1> QED
  BY <1>1, <1>2, <1>4, <1>7, <1>8, <1>9, AfterRead

\* The read of the block a hint has moved to.
LEMMA HintedStep == IInv /\ NextHinted => IInv' /\ StreamStep
<1> SUFFICES ASSUME IInv, NextHinted PROVE IInv' /\ StreamStep
  OBVIOUS
<1> DEFINE k == curBlock
<1>1. /\ TypeOK /\ val \in Value /\ started /\ ~stopped /\ ~needToRewind /\ ~ended
      /\ started' = started /\ stopped' = stopped /\ needToRewind' = TRUE
      /\ val' = val /\ bounds' = bounds /\ matching' = matching /\ words' = words
      /\ curBlock' = k /\ Return(BlockRows(k))
      /\ Packing = "ROW_BLOCKS_LIST" /\ OverlappingBlocks \subseteq matching
      /\ OwedAhead(k)
  BY DEF IInv, NextHinted, TypeOK, StoppedOwesNothing, OnBlock
<1>2. /\ started \in BOOLEAN /\ stopped \in BOOLEAN
      /\ matching \in SUBSET Nat /\ words \in Nat
      /\ k \in 0 .. NumBlocks - 1
  BY <1>1, BlockShape DEF TypeOK
<1>3. front <= BlockMin(k) /\ \A r \in Owed : BlockMin(k) <= r
  BY <1>1 DEF OwedAhead
<1>4. ASSUME NEW r \in Owed, r <= BlockMax(k) PROVE r \in BlockRows(k)
  <2>1. PICK c \in 0 .. NumBlocks - 1 :
             r \in BlockRows(c) /\ BlockMin(c) <= r /\ r <= BlockMax(c)
    BY <1>1, OwedInOverlapping DEF Owed
  <2>2. /\ r \in Nat /\ BlockMin(c) \in Nat /\ BlockMax(c) \in Nat
        /\ BlockMin(k) \in Nat /\ BlockMax(k) \in Nat
    BY <1>1, <1>2, <2>1, BlockRange
  <2>3. ~(k < c)
    <3>1. SUFFICES ASSUME k < c PROVE FALSE
      OBVIOUS
    <3>2. BlockMax(k) < BlockMin(c)
      BY <1>1, <1>2, <2>1, <3>1, BlocksAscend
    <3> QED
      BY <1>4, <2>1, <2>2, <3>2
  <2>4. ~(c < k)
    <3>1. SUFFICES ASSUME c < k PROVE FALSE
      OBVIOUS
    <3>2. BlockMax(c) < BlockMin(k) /\ BlockMin(k) <= r
      BY <1>1, <1>2, <1>3, <2>1, <3>1, BlocksAscend
    <3> QED
      BY <2>1, <2>2, <3>2
  <2> QED
    BY <1>2, <2>1, <2>3, <2>4
<1>5. /\ stopped' = FALSE /\ started' = TRUE
      /\ OverlappingBlocks \subseteq matching' /\ matching' \in SUBSET Nat /\ words' \in Nat
  BY <1>1, <1>2
<1> HIDE DEF k
<1> QED
  BY <1>1, <1>2, <1>3, <1>4, <1>5, AfterRead

\* A call that finds the iterator stopped.
LEMMA StoppedStep == IInv /\ NextStopped => IInv' /\ StreamStep
<1> SUFFICES ASSUME IInv, NextStopped PROVE IInv' /\ StreamStep
  OBVIOUS
<1>1. /\ TypeOK /\ InOrder /\ stopped /\ started /\ Owed = {}
      /\ UNCHANGED <<bounds, val, started, stopped, needToRewind, curBlock, matching, words>>
      /\ ended' = TRUE /\ UNCHANGED <<hint, returned, front, disordered>>
  BY DEF IInv, NextStopped, Deny, StoppedOwesNothing
<1>2. Owed' = {} /\ AllRows' = AllRows /\ NumBlocks' = NumBlocks
  BY <1>1, SameValue DEF Owed
<1>3. TypeOK'
  BY <1>1, <1>2 DEF TypeOK
<1>4. IInv'
  BY <1>1, <1>2, <1>3 DEF IInv, InOrder, Fresh, StoppedOwesNothing, OnBlock
<1>5. Stream!Exhaust
  BY <1>1, <1>2 DEF Stream!Exhaust
<1> QED
  BY <1>4, <1>5 DEF StreamStep, Stream!Next

\* A running iterator owes only rows of blocks RewindToNextMatchingBlock can reach.
LEMMA OwedIsLater ==
    ASSUME IInv, started, ~stopped, NEW r \in Owed
    PROVE  \E c \in Later(curBlock) \cup {curBlock} :
              /\ c \in 0 .. NumBlocks - 1
              /\ needToRewind => c # curBlock
              /\ r \in BlockRows(c) /\ BlockMin(c) <= r /\ r <= BlockMax(c)
<1>1. /\ TypeOK /\ val \in Value /\ OverlappingBlocks \subseteq matching
      /\ OwedAhead(curBlock)
  BY DEF IInv, TypeOK, OnBlock
<1>2. /\ needToRewind \in BOOLEAN /\ NumBlocks \in Nat /\ matching \in SUBSET Nat
      /\ curBlock \in 0 .. NumBlocks - 1
  BY <1>1, BlockShape DEF TypeOK
<1>3. PICK c \in OverlappingBlocks : /\ c \in 0 .. NumBlocks - 1
                                     /\ r \in BlockRows(c) /\ BlockMin(c) <= r /\ r <= BlockMax(c)
  BY <1>1, OwedInOverlapping DEF Owed
<1>4. /\ r \in Nat /\ BlockMin(c) \in Nat /\ BlockMax(c) \in Nat
      /\ BlockMin(curBlock) \in Nat /\ BlockMax(curBlock) \in Nat
      /\ BlockMin(curBlock) <= BlockMax(curBlock)
  BY <1>1, <1>2, <1>3, BlockRange
<1>5. needToRewind => BlockMax(curBlock) < r
  BY <1>1 DEF OwedAhead
<1>6. ~needToRewind => BlockMin(curBlock) <= r
  BY <1>1 DEF OwedAhead
<1>7. ~(c < curBlock)
  <2>1. SUFFICES ASSUME c < curBlock PROVE FALSE
    OBVIOUS
  <2>2. BlockMax(c) < BlockMin(curBlock)
    BY <1>1, <1>2, <1>3, <2>1, BlocksAscend
  <2> QED
    BY <1>2, <1>3, <1>4, <1>5, <1>6, <2>2
<1>8. needToRewind => c # curBlock
  BY <1>3, <1>4, <1>5
<1>9. c # curBlock => c \in Later(curBlock)
  BY <1>1, <1>2, <1>3, <1>7 DEF Later
<1> QED
  BY <1>3, <1>8, <1>9

\* A rewind that finds no block left.
LEMMA ExhaustedStep == IInv /\ NextExhausted => IInv' /\ StreamStep
<1> SUFFICES ASSUME IInv, NextExhausted PROVE IInv' /\ StreamStep
  OBVIOUS
<1>1. /\ TypeOK /\ InOrder /\ started /\ ~stopped /\ needToRewind /\ Later(curBlock) = {}
      /\ UNCHANGED <<bounds, val, started, needToRewind, matching, words>>
      /\ stopped' = TRUE /\ curBlock' = NumBlocks
      /\ ended' = TRUE /\ UNCHANGED <<hint, returned, front, disordered>>
  BY DEF IInv, NextExhausted, Deny
<1>2. Owed = {}
  <2>1. SUFFICES ASSUME NEW r \in Owed PROVE FALSE
    OBVIOUS
  <2> QED
    BY <1>1, <2>1, OwedIsLater
<1>3. Owed' = {} /\ AllRows' = AllRows /\ NumBlocks' = NumBlocks
  BY <1>1, <1>2, SameValue DEF Owed
<1>4. NumBlocks \in Nat
  BY <1>1, BlockShape DEF TypeOK
<1>5. TypeOK'
  BY <1>1, <1>3, <1>4 DEF TypeOK
<1>6. IInv'
  BY <1>1, <1>3, <1>5 DEF IInv, InOrder, Fresh, StoppedOwesNothing, OnBlock
<1>7. Stream!Exhaust
  BY <1>1, <1>2, <1>3 DEF Stream!Exhaust
<1> QED
  BY <1>6, <1>7 DEF StreamStep, Stream!Next
\* A hint waives the rows below it and changes nothing else of the stream.
LEMMA HintWaives ==
    ASSUME TypeOK, NEW r \in HintRow, Hinted(r), val' = val, bounds' = bounds
    PROVE  /\ Owed' = {x \in Owed : x >= r} /\ Owed' \subseteq Owed
           /\ AllRows \subseteq Nat
           /\ hint' \in Nat /\ r \in Nat
           /\ ended' = ended => Stream!Hint
           /\ Owed' = {} /\ ended' = TRUE => Stream!Hint
<1>1. r \in Nat /\ hint \in Nat /\ val \in Value
  BY ParamAssumption DEF TypeOK
<1>2. AllRows \subseteq Nat
  BY <1>1, BlockShape, BlockRange
<1>3. hint' = (IF r > hint THEN r ELSE hint) /\ returned' = returned /\ front' = front
  BY DEF Hinted
<1>4. \A x \in Nat : x >= hint' <=> x >= hint /\ x >= r
  BY <1>1, <1>3
<1>5. Owed' = {x \in AllRows : InBounds(x) /\ x >= hint' /\ x \notin returned}
  BY <1>3, SameValue
<1>6. Owed' = {x \in Owed : x >= r}
  BY <1>2, <1>4, <1>5 DEF Owed
<1>7. hint' \in Nat
  BY <1>1, <1>3
<1> QED
  BY <1>1, <1>2, <1>3, <1>6, <1>7 DEF Stream!Hint

\* A hint at or below the first row, or before the first read, moves nothing.
LEMMA HintIgnoredStep ==
    ASSUME IInv, NEW r \in HintRow, HintIgnored(r)
    PROVE  IInv' /\ StreamStep
<1>1. /\ TypeOK /\ InOrder /\ Fresh /\ StoppedOwesNothing /\ OnBlock /\ Hinted(r)
      /\ UNCHANGED <<ended, bounds, val, started, stopped, needToRewind, curBlock, matching, words>>
      /\ UNCHANGED <<returned, front, disordered>>
  BY DEF IInv, HintIgnored, Hinted
<1>2. Owed' \subseteq Owed /\ hint' \in Nat /\ Stream!Hint
  BY <1>1, HintWaives
<1>3. /\ AllRows' = AllRows /\ NumBlocks' = NumBlocks /\ Packing' = Packing
      /\ OverlappingBlocks' = OverlappingBlocks
      /\ BlockMin(curBlock)' = BlockMin(curBlock) /\ BlockMax(curBlock)' = BlockMax(curBlock)
  BY <1>1, SameValue
<1>4. TypeOK'
  BY <1>1, <1>2, <1>3 DEF TypeOK
<1>5. Fresh' /\ StoppedOwesNothing' /\ InOrder'
  BY <1>1, <1>2 DEF Fresh, StoppedOwesNothing, InOrder
<1>6. OwedAhead(curBlock) => OwedAhead(curBlock)'
  BY <1>1, <1>2, <1>3 DEF OwedAhead
<1>7. OnBlock'
  BY <1>1, <1>3, <1>6 DEF OnBlock
<1> QED
  BY <1>2, <1>4, <1>5, <1>7 DEF IInv, StreamStep, Stream!Next

\* A stopped iterator denies every hint, and owes nothing.
LEMMA HintStoppedStep ==
    ASSUME IInv, NEW r \in HintRow, HintStopped(r)
    PROVE  IInv' /\ StreamStep
<1>1. /\ TypeOK /\ InOrder /\ StoppedOwesNothing /\ Hinted(r) /\ started /\ stopped
      /\ UNCHANGED <<bounds, val, started, stopped, needToRewind, curBlock, matching, words>>
      /\ UNCHANGED <<returned, front, disordered>> /\ ended' = TRUE
  BY DEF IInv, HintStopped, Hinted
<1>2. Owed' = {} /\ hint' \in Nat /\ Stream!Hint
  <2>1. Owed = {}
    BY <1>1 DEF StoppedOwesNothing
  <2> QED
    BY <1>1, <2>1, HintWaives
<1>3. AllRows' = AllRows /\ NumBlocks' = NumBlocks
  BY <1>1, SameValue
<1>4. TypeOK'
  BY <1>1, <1>2, <1>3 DEF TypeOK
<1>5. IInv'
  BY <1>1, <1>2, <1>4 DEF IInv, Fresh, StoppedOwesNothing, InOrder, OnBlock
<1> QED
  BY <1>2, <1>5 DEF StreamStep, Stream!Next

\* A hint beyond the last row, or beyond every block left, waives all that is owed.
LEMMA HintPastEndStep ==
    ASSUME IInv, NEW r \in HintRow, HintPastEnd(r)
    PROVE  IInv' /\ StreamStep
<1>1. /\ TypeOK /\ InOrder /\ val \in Value /\ Hinted(r) /\ started /\ ~stopped /\ stopped' = TRUE
      /\ curBlock' = (IF r > uMaxRowID THEN curBlock ELSE NumBlocks)
      /\ UNCHANGED <<bounds, val, started, needToRewind, matching, words>>
      /\ UNCHANGED <<returned, front, disordered>> /\ ended' = TRUE
      /\ r > uMaxRowID \/ Reaching(r) = {}
  BY DEF IInv, HintPastEnd, Hinted, TypeOK
<1>2. Owed' = {x \in Owed : x >= r} /\ hint' \in Nat /\ r \in Nat /\ AllRows \subseteq Nat
  BY <1>1, HintWaives
<1>3. Owed' = {}
  <2>1. SUFFICES ASSUME NEW x \in Owed, x >= r PROVE FALSE
    BY <1>2
  <2>2. CASE r > uMaxRowID
    <3>1. x \in AllRows /\ x \in Nat
      BY <1>2 DEF Owed
    <3>2. PICK i \in 1 .. uCount : x = Rowids[val][i]
      BY <3>1 DEF AllRows
    <3>3. uCount \in Nat /\ uMaxRowID \in Nat /\ x <= uMaxRowID
      <4>1. i = uCount \/ i < uCount
        BY <1>1, RowidsAssumption DEF uCount
      <4> QED
        BY <1>1, <3>1, <3>2, <4>1, RowidsAssumption DEF uCount, uMaxRowID
    <3> QED
      BY <1>2, <2>1, <2>2, <3>1, <3>3
  <2>3. CASE Reaching(r) = {}
    <3>1. PICK c \in Later(curBlock) \cup {curBlock} :
               c \in 0 .. NumBlocks - 1 /\ x <= BlockMax(c)
      BY <1>1, OwedIsLater
    <3>2. x \in Nat /\ BlockMax(c) \in Nat
      BY <1>1, <1>2, <3>1, BlockRange DEF Owed
    <3>3. r <= BlockMax(c)
      BY <1>2, <2>1, <3>1, <3>2
    <3> QED
      BY <2>3, <3>1, <3>3 DEF Reaching
  <2> QED
    BY <1>1, <2>2, <2>3
<1>4. AllRows' = AllRows /\ NumBlocks' = NumBlocks /\ curBlock' \in Nat
  <2>1. NumBlocks \in Nat /\ curBlock \in Nat
    BY <1>1, BlockShape DEF TypeOK
  <2> QED
    BY <1>1, <2>1, SameValue
<1>5. TypeOK'
  BY <1>1, <1>2, <1>4 DEF TypeOK
<1>6. IInv'
  BY <1>1, <1>3, <1>5 DEF IInv, Fresh, StoppedOwesNothing, InOrder, OnBlock
<1>7. Stream!Hint
  BY <1>1, <1>3, HintWaives
<1> QED
  BY <1>6, <1>7 DEF StreamStep, Stream!Next

\* A hint that stops at the first block reaching up to it skips no row owed.
LEMMA HintMovesStep ==
    ASSUME IInv, NEW r \in HintRow, HintMoves(r)
    PROVE  IInv' /\ StreamStep
<1>1. /\ TypeOK /\ InOrder /\ StoppedOwesNothing /\ OnBlock /\ val \in Value /\ Hinted(r)
      /\ started /\ ~stopped
      /\ UNCHANGED <<ended, bounds, val, started, stopped, matching, words>>
      /\ UNCHANGED <<returned, front, disordered>>
  BY DEF IInv, HintMoves, Hinted, TypeOK
<1>2. PICK k \in Reaching(r) : /\ IsLeast(k, Reaching(r)) /\ curBlock' = k
                               /\ needToRewind' = (needToRewind /\ k = curBlock)
  BY DEF HintMoves
<1>3. /\ Owed' = {x \in Owed : x >= r} /\ Owed' \subseteq Owed /\ hint' \in Nat /\ r \in Nat
      /\ AllRows \subseteq Nat /\ Stream!Hint
  BY <1>1, HintWaives
<1>4. /\ needToRewind \in BOOLEAN /\ front \in Nat /\ NumBlocks \in Nat
      /\ curBlock \in 0 .. NumBlocks - 1 /\ matching \in SUBSET Nat
  BY <1>1, BlockShape DEF TypeOK
<1>5. k \in 0 .. NumBlocks - 1 /\ (k = curBlock \/ curBlock < k)
  BY <1>2, <1>4 DEF Reaching, Later
<1>6. /\ BlockMin(k) \in Nat /\ BlockMax(k) \in Nat /\ BlockMin(k) <= BlockMax(k)
      /\ BlockMin(curBlock) \in Nat /\ BlockMax(curBlock) \in Nat
      /\ BlockMin(curBlock) <= BlockMax(curBlock)
  BY <1>1, <1>4, <1>5, BlockRange
<1>7. /\ AllRows' = AllRows /\ NumBlocks' = NumBlocks /\ Packing' = Packing
      /\ OverlappingBlocks' = OverlappingBlocks
      /\ BlockMin(curBlock)' = BlockMin(k) /\ BlockMax(curBlock)' = BlockMax(k)
  BY <1>1, <1>2, SameValue
<1>8. OwedAhead(curBlock)
  BY <1>1 DEF OnBlock
<1>9. OwedAhead(curBlock)'
  <2>1. CASE k = curBlock
    <3>1. needToRewind' = needToRewind
      BY <1>2, <1>4, <2>1
    <3> QED
      BY <1>1, <1>3, <1>7, <1>8, <2>1, <3>1 DEF OwedAhead
  <2>2. CASE curBlock < k
    <3>1. BlockMax(curBlock) < BlockMin(k)
      BY <1>1, <1>4, <1>5, <2>2, BlocksAscend
    <3>2. front <= BlockMax(curBlock) + 1
      BY <1>4, <1>6, <1>8 DEF OwedAhead
    <3>3. front' <= BlockMin(k)
      BY <1>1, <1>4, <1>6, <3>1, <3>2
    <3>4. ASSUME NEW x \in Owed' PROVE BlockMin(k) <= x
      <4>1. x \in Owed /\ x >= r
        BY <1>3
      <4>2. PICK c \in Later(curBlock) \cup {curBlock} :
                 c \in 0 .. NumBlocks - 1 /\ BlockMin(c) <= x /\ x <= BlockMax(c)
        BY <1>1, <4>1, OwedIsLater
      <4>3. x \in Nat /\ BlockMin(c) \in Nat /\ BlockMax(c) \in Nat
        BY <1>1, <1>3, <4>1, <4>2, BlockRange DEF Owed
      <4>4. c \in Reaching(r)
        BY <1>3, <4>1, <4>2, <4>3 DEF Reaching
      <4>5. k <= c
        BY <1>2, <4>4 DEF IsLeast
      <4>6. k = c \/ BlockMax(k) < BlockMin(c)
        BY <1>1, <1>5, <4>2, <4>5, BlocksAscend
      <4> QED
        BY <1>6, <4>2, <4>3, <4>6
    <3>5. needToRewind' = FALSE
      <4>1. k # curBlock
        BY <1>4, <1>5, <2>2
      <4> QED
        BY <1>2, <4>1, Zenon
    <3> QED
      BY <1>7, <3>3, <3>4, <3>5 DEF OwedAhead
  <2> QED
    BY <1>5, <2>1, <2>2
<1>10. TypeOK'
  <2>1. curBlock' \in Nat /\ curBlock' < NumBlocks' /\ needToRewind' \in BOOLEAN
    BY <1>2, <1>4, <1>5, <1>7
  <2> QED
    BY <1>1, <1>3, <1>7, <2>1 DEF TypeOK
<1>11. Fresh' /\ StoppedOwesNothing' /\ InOrder'
  BY <1>1 DEF Fresh, StoppedOwesNothing, InOrder
<1>12. OnBlock'
  BY <1>1, <1>7, <1>9 DEF OnBlock
<1> QED
  BY <1>3, <1>10, <1>11, <1>12 DEF IInv, StreamStep, Stream!Next

\* Pointing the iterator at another value starts the stream afresh.
LEMMA SetupStep == IInv /\ Setup => IInv' /\ StreamStep
<1> SUFFICES ASSUME IInv, Setup PROVE IInv' /\ StreamStep
  OBVIOUS
<1>1. /\ TypeOK /\ val' \in Value /\ started' = FALSE /\ stopped' = FALSE
      /\ needToRewind' = TRUE /\ curBlock' = 0 /\ hint' = 0 /\ returned' = {} /\ front' = 0
      /\ disordered' = FALSE /\ ended' = FALSE /\ UNCHANGED <<bounds, matching, words>>
  BY DEF IInv, Setup
<1>2. TypeOK'
  BY <1>1 DEF TypeOK
<1>3. IInv'
  BY <1>1, <1>2 DEF IInv, InOrder, Fresh, StoppedOwesNothing, OnBlock
<1>4. Owed' \in SUBSET Row
  <2>1. Owed' \subseteq AllRows'
    BY DEF Owed
  <2>2. AllRows' \subseteq Row
    BY <1>1 DEF AllRows, Row, uCount
  <2> QED
    BY <2>1, <2>2
<1>5. Stream!Restart
  BY <1>1, <1>4 DEF Stream!Restart
<1> QED
  BY <1>3, <1>5 DEF StreamStep, Stream!Next

\* Steps of other parts leave the stream alone.
LEMMA StutterStep == IInv /\ UNCHANGED vars => IInv' /\ StreamStep
<1> SUFFICES ASSUME IInv, UNCHANGED vars PROVE IInv' /\ StreamStep
  OBVIOUS
<1>1. /\ TypeOK /\ InOrder /\ Fresh /\ StoppedOwesNothing /\ OnBlock
      /\ UNCHANGED <<bounds, val, started, stopped, needToRewind, curBlock, matching, words>>
      /\ UNCHANGED <<hint, returned, front, disordered, ended>>
  BY DEF IInv, vars, history
<1>2. /\ AllRows' = AllRows /\ NumBlocks' = NumBlocks /\ Packing' = Packing
      /\ OverlappingBlocks' = OverlappingBlocks /\ Owed' = Owed
      /\ BlockMin(curBlock)' = BlockMin(curBlock) /\ BlockMax(curBlock)' = BlockMax(curBlock)
  BY <1>1, SameValue DEF Owed
<1>3. TypeOK' /\ InOrder' /\ Fresh' /\ StoppedOwesNothing'
  BY <1>1, <1>2 DEF TypeOK, InOrder, Fresh, StoppedOwesNothing
<1>4. OwedAhead(curBlock) => OwedAhead(curBlock)'
  BY <1>1, <1>2 DEF OwedAhead
<1>5. OnBlock'
  BY <1>1, <1>2, <1>4 DEF OnBlock
<1>6. UNCHANGED Stream!streamVars
  BY <1>1, <1>2 DEF Stream!streamVars
<1> QED
  BY <1>3, <1>5, <1>6 DEF IInv, StreamStep

\* A new iterator satisfies the invariant, and its rows are a stream.
LEMMA Initially == Init => IInv /\ Stream!Init
<1> SUFFICES ASSUME Init PROVE IInv /\ Stream!Init
  OBVIOUS
<1>1. TypeOK
  BY DEF Init, TypeOK
<1>2. IInv
  BY <1>1 DEF Init, IInv, InOrder, Fresh, StoppedOwesNothing, OnBlock
<1>3. Owed \in SUBSET Row
  BY DEF Init, Owed, AllRows, Row, uCount
<1> QED
  BY <1>2, <1>3 DEF Init, Stream!Init

\* Every step keeps the invariant and is a step of the stream or none.
LEMMA Stepwise == IInv /\ [Next]_vars => IInv' /\ StreamStep
<1> SUFFICES ASSUME IInv, [Next]_vars PROVE IInv' /\ StreamStep
  OBVIOUS
<1>1. CASE GetNextRowIdBlock
  BY <1>1, StartStep, StoppedStep, RewindStep, ExhaustedStep, HintedStep
  DEF GetNextRowIdBlock
<1>2. CASE HintRowID
  BY <1>2, HintIgnoredStep, HintStoppedStep, HintPastEndStep, HintMovesStep DEF HintRowID
<1>3. CASE Setup
  BY <1>3, SetupStep
<1>4. CASE UNCHANGED vars
  BY <1>4, StutterStep
<1> QED
  BY <1>1, <1>2, <1>3, <1>4 DEF Next

----------------------------------------------------------------------------
(* Theorems. *)

\* IInv holds throughout.
LEMMA Invariance == Spec => []IInv
<1> QED
  BY Initially, Stepwise, PTL DEF Spec

\* The fields of the iterator keep their types; while it runs, m_iCurBlock names
\* a block of the current value, so no read leaves the block tables.
THEOREM TypeCorrect == Spec => []TypeOK
<1>1. IInv => TypeOK
  BY DEF IInv
<1> QED
  BY <1>1, Invariance, PTL

\* GetNextRowIdBlock and HintRowID answer "no more rows" only when every row of
\* the value within the bounds and at or above the largest hint was returned.
THEOREM NoRowLost == Spec => []NothingLost
<1>1. IInv => NothingLost
  BY DEF IInv, NothingLost, StoppedOwesNothing
<1> QED
  BY <1>1, Invariance, PTL

\* The rows of a value come out in ascending order and none comes twice.
THEOREM RowsInOrder == Spec => []InOrder
<1>1. IInv => InOrder
  BY DEF IInv
<1> QED
  BY <1>1, Invariance, PTL

\* The iterator implements the contract of BlockIterator_i.
THEOREM StreamRefinement == Spec => ImplementsStream
<1> QED
  BY Initially, Stepwise, Invariance, PTL DEF Spec, ImplementsStream, Stream!Spec, StreamStep
=============================================================================
