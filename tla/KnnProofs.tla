------------------------------ MODULE KnnProofs ------------------------------
(***************************************************************************)
(* TLAPS proofs about Knn, for any documents, threads and numbers of ids:   *)
(* threads compare only with forms that are in the pool, and what is loaded *)
(* and found leads to its documents.                                        *)
(***************************************************************************)
EXTENDS Knn, FiniteSetTheorems, SequenceTheorems, WellFoundedInduction, TLAPS

(* What a build has to come to, said of the build alone. *)

DocsOf(b) == 0 .. Len(b.counts) - 1
CountsOf(b) == [row \in DocsOf(b) |-> b.counts[row + 1]]
VectorsIn(b) == UNION {ToSet([i \in 1 .. b.counts[row + 1] |-> Vector(row, i - 1)]) : row \in DocsOf(b)}

\* The first ids of rows of which row r has c[r] vectors, and the map back.
IsFirst(f, n, c) == f = [row \in 0 .. n |-> IF row = 0 THEN 0 ELSE f[row - 1] + c[row - 1]]
FirstIds(n, c) ==
    LET first[row \in 0 .. n] == IF row = 0 THEN 0 ELSE first[row - 1] + c[row - 1] IN first

IsMap(m, n, c) ==
    m = [rows \in 0 .. n |-> IF rows = 0 THEN << >>
                             ELSE m[rows - 1] \o [i \in 1 .. c[rows - 1] |-> rows - 1]]
MapOf(n, c) ==
    LET map[rows \in 0 .. n] ==
            IF rows = 0 THEN << >>
            ELSE map[rows - 1] \o [i \in 1 .. c[rows - 1] |-> rows - 1]
    IN  map[n]

FirstOf(b) == FirstIds(Len(b.counts), CountsOf(b))
NumVecs(b) == IF b.multi THEN FirstOf(b)[Len(b.counts)] ELSE Len(b.counts)
IdOf(b, v) == IF b.multi THEN FirstOf(b)[v.row] + v.slot ELSE v.row

(* The invariant. *)

InTraining ==
    phase = "train" =>
        /\ trained \in 0 .. Len(build.counts)
        /\ build.multi => /\ counts \in [DocsOf(build) -> Nat] /\ overflow \in BOOLEAN
                          /\ overflow \/ \A row \in 0 .. trained - 1 : counts[row] = build.counts[row + 1]
        /\ ~build.multi => totalVecs = Len(build.counts)
        /\ pool = << >> /\ graph = << >> /\ todo = DocsOf(build)
        /\ work = [t \in Thread |-> << >>]
        /\ step = [t \in Thread |-> "idle"]
        /\ context = [t \in Thread |-> Nothing]

\* After training the counts and the bases are those of the documents.
Trained ==
    phase \in {"add", "saved", "refused", "loaded"} /\ build.multi =>
        counts = CountsOf(build) /\ base = FirstOf(build)

\* There is room for every vector, and an entry holds nothing or its own vector.
PoolOK ==
    HasPool =>
        /\ fetcher
        /\ VectorsIn(build) # {} => DOMAIN pool = 0 .. NumVecs(build) - 1
        /\ \A id \in DOMAIN pool :
              pool[id] = Nothing \/ (pool[id] \in VectorsIn(build) /\ IdOf(build, pool[id]) = id)

InPool(v) == IdOf(build, v) \in DOMAIN pool /\ pool[IdOf(build, v)] = v

GraphOK == \A id \in DOMAIN graph : graph[id] \in VectorsIn(build) /\ IdOf(build, graph[id]) = id

\* The vectors of a document that a thread still has, and how far it is with the first.
ThreadOK(t) ==
    /\ work[t] \in Seq(VectorsIn(build))
    /\ step[t] \in {"idle", "encode", "quantize", "add"}
    /\ step[t] = "idle" <=> work[t] = << >>
    /\ step[t] = "quantize" => HasPool
    /\ HasPool /\ step[t] \in {"quantize", "add"} => InPool(Head(work[t]))
    /\ step[t] = "add" => context[t] = Head(work[t])

InGraph(v) == \E id \in DOMAIN graph : graph[id] = v
InWork(v) == \E t \in Thread : v \in ToSet(work[t])

\* No vector is forgotten on its way into the graph.
NoneForgotten == \A v \in VectorsIn(build) : v.row \in todo \/ InWork(v) \/ InGraph(v)

\* Before threads add documents, and once they have, none has anything to do.
Resting == phase # "add" => \A t \in Thread : step[t] = "idle"

InAdding ==
    phase = "add" =>
        /\ PoolOK /\ GraphOK /\ todo \subseteq DocsOf(build)
        /\ HasPool => \A id \in DOMAIN graph : InPool(graph[id])
        /\ work = [t \in Thread |-> work[t]] /\ step = [t \in Thread |-> step[t]]
        /\ context = [t \in Thread |-> context[t]]
        /\ \A t \in Thread : ThreadOK(t)
        /\ NoneForgotten

InFile ==
    phase \in {"saved", "refused", "loaded"} =>
        /\ GraphOK /\ \A v \in VectorsIn(build) : InGraph(v)
        /\ file = [version |-> build.version, multi |-> build.multi, quantized |-> Quantized,
                   map |-> IF build.multi THEN MapOf(Len(build.counts), CountsOf(build)) ELSE << >>,
                   graph |-> graph]

InIndex ==
    phase = "loaded" =>
        index = [map |-> IF file.version >= 4 /\ file.multi THEN file.map ELSE << >>,
                 graph |-> file.graph]

\* What was found are documents with a vector, which the filter allows.
FoundOK ==
    \A row \in found :
        /\ \E v \in VectorsIn(build) : v.row = row
        /\ filter = Nothing \/ row \in filter

IInv ==
    /\ build \in Builds
    /\ phase \in {"train", "add", "saved", "failed", "refused", "loaded"}
    /\ InTraining /\ Trained /\ Resting /\ InAdding /\ InFile /\ InIndex /\ FoundOK
-----------------------------------------------------------------------------
(* Numbers. *)

\* Any set of natural numbers that is not empty has a least one.
LEMMA LeastNatural ==
    ASSUME NEW T, T \subseteq Nat, T # {}
    PROVE  \E m \in T : \A k \in T : m <= k
<1>1. IsWellFoundedOn(OpToRel(<, Nat), Nat)
  BY NatLessThanWellFounded
<1>2. PICK m \in T : \A k \in T : ~ (<<k, m>> \in OpToRel(<, Nat))
  BY <1>1, WFMin
<1>3. \A k \in T : ~ (k < m)
  BY <1>2 DEF OpToRel
<1> QED
  BY <1>3

\* A row more is one step more.
LEMMA FirstExtends ==
    ASSUME NEW k \in Nat \ {0}, NEW c, NEW f, IsFirst(f, k - 1, c)
    PROVE  IsFirst([row \in 0 .. k |-> IF row < k THEN f[row] ELSE f[k - 1] + c[k - 1]], k, c)
<1> DEFINE g == [row \in 0 .. k |-> IF row < k THEN f[row] ELSE f[k - 1] + c[k - 1]]
<1>1. \A row \in 0 .. k - 1 : f[row] = IF row = 0 THEN 0 ELSE f[row - 1] + c[row - 1]
  BY DEF IsFirst
<1>2. \A row \in 0 .. k : g[row] = IF row = 0 THEN 0 ELSE g[row - 1] + c[row - 1]
  <2> SUFFICES ASSUME NEW row \in 0 .. k
               PROVE  g[row] = IF row = 0 THEN 0 ELSE g[row - 1] + c[row - 1]
    OBVIOUS
  <2>1. CASE row = 0
    BY <1>1, <2>1
  <2>2. CASE row # 0
    <3>1. row - 1 \in 0 .. k /\ row - 1 < k
      BY <2>2
    <3>2. g[row - 1] = f[row - 1]
      BY <3>1
    <3>3. CASE row < k
      BY <1>1, <2>2, <3>2, <3>3
    <3>4. CASE row = k
      BY <2>2, <3>2, <3>4
    <3> QED
      BY <3>3, <3>4
  <2> QED
    BY <2>1, <2>2
<1> QED
  BY <1>2 DEF IsFirst

\* The bases that FinalizeTraining computes exist for any counts.
LEMMA FirstExists ==
    ASSUME NEW n \in Nat, NEW c
    PROVE  IsFirst(FirstIds(n, c), n, c)
<1> DEFINE T == {k \in Nat : ~ \E f : IsFirst(f, k, c)}
<1>1. T = {}
  <2> SUFFICES ASSUME T # {} PROVE FALSE
    OBVIOUS
  <2>1. PICK m \in T : \A k \in T : m <= k
    <3>1. T \subseteq Nat
      OBVIOUS
    <3> HIDE DEF T
    <3> QED
      BY <3>1, LeastNatural
  <2>2. m # 0
    <3>1. IsFirst([row \in 0 .. 0 |-> 0], 0, c)
      BY DEF IsFirst
    <3> QED
      BY <2>1, <3>1
  <2>3. m - 1 \in Nat /\ m - 1 \notin T
    BY <2>1, <2>2
  <2>4. PICK f : IsFirst(f, m - 1, c)
    BY <2>3
  <2>5. \E g : IsFirst(g, m, c)
    BY <2>2, <2>4, FirstExtends
  <2> QED
    BY <2>1, <2>5
<1>2. PICK f : IsFirst(f, n, c)
  BY <1>1
<1>3. FirstIds(n, c) = CHOOSE g : IsFirst(g, n, c)
  BY DEF FirstIds, IsFirst
<1> QED
  BY <1>2, <1>3

\* Bases are sums of the counts below them.
LEMMA FirstIs ==
    ASSUME NEW n \in Nat, NEW c \in [0 .. n - 1 -> Nat]
    PROVE  /\ DOMAIN FirstIds(n, c) = 0 .. n
           /\ FirstIds(n, c)[0] = 0
           /\ \A row \in 0 .. n - 1 : FirstIds(n, c)[row + 1] = FirstIds(n, c)[row] + c[row]
           /\ \A row \in 0 .. n : FirstIds(n, c)[row] \in Nat
<1> DEFINE f == FirstIds(n, c)
           T == {row \in 0 .. n : f[row] \notin Nat}
<1>1. IsFirst(f, n, c)
  BY FirstExists
<1> HIDE DEF f
<1>2. /\ DOMAIN f = 0 .. n
      /\ \A row \in 0 .. n : f[row] = IF row = 0 THEN 0 ELSE f[row - 1] + c[row - 1]
  BY <1>1 DEF IsFirst
<1>3. f[0] = 0 /\ \A row \in 0 .. n - 1 : f[row + 1] = f[row] + c[row]
  <2>1. f[0] = 0
    BY <1>2
  <2>2. ASSUME NEW row \in 0 .. n - 1 PROVE f[row + 1] = f[row] + c[row]
    <3>1. row + 1 \in 0 .. n /\ row + 1 # 0 /\ row + 1 - 1 = row
      OBVIOUS
    <3> QED
      BY <1>2, <3>1
  <2> QED
    BY <2>1, <2>2
<1>4. T = {}
  <2> SUFFICES ASSUME T # {} PROVE FALSE
    OBVIOUS
  <2>1. PICK m \in T : \A k \in T : m <= k
    <3>1. T \subseteq Nat
      OBVIOUS
    <3> HIDE DEF T
    <3> QED
      BY <3>1, LeastNatural
  <2>2. m \in 0 .. n /\ m # 0
    BY <1>3, <2>1
  <2>3. f[m - 1] \in Nat /\ c[m - 1] \in Nat
    BY <2>1, <2>2
  <2> QED
    BY <1>2, <2>1, <2>2, <2>3
<1> QED
  BY <1>2, <1>3, <1>4 DEF f

\* The ids of a row end before those of a later row start.
LEMMA FirstAscends ==
    ASSUME NEW n \in Nat, NEW c \in [0 .. n - 1 -> Nat],
           NEW a \in 0 .. n - 1, NEW b \in 0 .. n, a < b
    PROVE  FirstIds(n, c)[a] + c[a] <= FirstIds(n, c)[b]
<1> DEFINE f == FirstIds(n, c)
           T == {k \in a + 1 .. n : ~(f[a] + c[a] <= f[k])}
<1>1. /\ \A row \in 0 .. n - 1 : f[row + 1] = f[row] + c[row]
      /\ \A row \in 0 .. n : f[row] \in Nat
  BY FirstIs
<1> HIDE DEF f
<1>2. c[a] \in Nat /\ f[a] \in Nat
  BY <1>1
<1>3. T = {}
  <2> SUFFICES ASSUME T # {} PROVE FALSE
    OBVIOUS
  <2>1. PICK m \in T : \A k \in T : m <= k
    <3>1. T \subseteq Nat
      OBVIOUS
    <3> HIDE DEF T
    <3> QED
      BY <3>1, LeastNatural
  <2>2. m \in a + 1 .. n /\ f[m] \in Nat
    BY <1>1, <2>1
  <2>3. m - 1 \in 0 .. n - 1 /\ f[m - 1] \in Nat /\ c[m - 1] \in Nat /\ m - 1 + 1 = m
    BY <1>1, <2>2
  <2>4. f[m] = f[m - 1] + c[m - 1]
    BY <1>1, <2>3
  <2>5. CASE m = a + 1
    BY <1>2, <2>1, <2>2, <2>3, <2>4, <2>5
  <2>6. CASE m # a + 1
    <3>1. m - 1 \in a + 1 .. n /\ m - 1 \notin T
      BY <2>1, <2>2, <2>6
    <3>2. f[a] + c[a] <= f[m - 1]
      BY <3>1
    <3> QED
      BY <1>2, <2>1, <2>2, <2>3, <2>4, <3>2
  <2> QED
    BY <2>5, <2>6
<1> QED
  BY <1>3 DEF f

\* A row more appends its number, once for each vector.
LEMMA MapExtends ==
    ASSUME NEW k \in Nat \ {0}, NEW c, NEW m, IsMap(m, k - 1, c)
    PROVE  IsMap([rows \in 0 .. k |->
                     IF rows < k THEN m[rows]
                     ELSE m[k - 1] \o [i \in 1 .. c[k - 1] |-> k - 1]], k, c)
<1> DEFINE More(g, rows) == IF rows = 0 THEN << >> ELSE g[rows - 1] \o [i \in 1 .. c[rows - 1] |-> rows - 1]
           last == m[k - 1] \o [i \in 1 .. c[k - 1] |-> k - 1]
           g == [rows \in 0 .. k |-> IF rows < k THEN m[rows] ELSE last]
<1>1. \A rows \in 0 .. k - 1 : m[rows] = More(m, rows)
  <2>1. m = [rows \in 0 .. k - 1 |-> More(m, rows)]
    BY DEF IsMap
  <2> HIDE DEF More
  <2> QED
    BY <2>1
<1>2. \A rows \in 0 .. k : rows # 0 /\ m[rows - 1] = g[rows - 1] => More(g, rows) = More(m, rows)
  <2> HIDE DEF g
  <2> QED
    BY Zenon
<1>3. last = More(m, k) /\ More(m, 0) = More(g, 0)
  BY Zenon
<1> HIDE DEF More, last
<1>4. \A rows \in 0 .. k : g[rows] = More(g, rows)
  <2> SUFFICES ASSUME NEW rows \in 0 .. k PROVE g[rows] = More(g, rows)
    OBVIOUS
  <2>1. CASE rows = 0
    <3>1. g[0] = m[0] /\ 0 \in 0 .. k - 1
      OBVIOUS
    <3> QED
      BY <1>1, <1>3, <2>1, <3>1, Zenon
  <2>2. CASE rows # 0
    <3>1. rows - 1 \in 0 .. k /\ rows - 1 < k
      BY <2>2
    <3>2. g[rows - 1] = m[rows - 1]
      BY <3>1
    <3>3. More(g, rows) = More(m, rows)
      BY <1>2, <2>2, <3>2, Zenon
    <3>4. CASE rows < k
      <4>1. g[rows] = m[rows] /\ rows \in 0 .. k - 1
        BY <3>4
      <4> QED
        BY <1>1, <3>3, <4>1, Zenon
    <3>5. CASE rows = k
      <4>1. g[k] = last
        OBVIOUS
      <4> QED
        BY <1>3, <3>3, <3>5, <4>1, Zenon
    <3> QED
      BY <3>4, <3>5
  <2> QED
    BY <2>1, <2>2
<1>5. g = [rows \in 0 .. k |-> More(g, rows)]
  BY <1>4
<1> QED
  BY <1>5, Zenon DEF IsMap, More, last

\* The map that Save writes exists for any counts.
LEMMA MapExists ==
    ASSUME NEW n \in Nat, NEW c
    PROVE  \E m : IsMap(m, n, c) /\ MapOf(n, c) = m[n]
<1> DEFINE T == {k \in Nat : ~ \E m : IsMap(m, k, c)}
<1>1. T = {}
  <2> SUFFICES ASSUME T # {} PROVE FALSE
    OBVIOUS
  <2>1. PICK k \in T : \A l \in T : k <= l
    <3>1. T \subseteq Nat
      OBVIOUS
    <3> HIDE DEF T
    <3> QED
      BY <3>1, LeastNatural
  <2>2. k # 0
    <3>1. IsMap([rows \in 0 .. 0 |-> << >>], 0, c)
      BY DEF IsMap
    <3> QED
      BY <2>1, <3>1
  <2>3. k - 1 \in Nat /\ k - 1 \notin T
    BY <2>1, <2>2
  <2>4. PICK m : IsMap(m, k - 1, c)
    BY <2>3
  <2>5. \E g : IsMap(g, k, c)
    BY <2>2, <2>4, MapExtends
  <2> QED
    BY <2>1, <2>5
<1>2. PICK m : IsMap(m, n, c)
  BY <1>1
<1>3. MapOf(n, c) = (CHOOSE g : IsMap(g, n, c))[n]
  BY DEF MapOf, IsMap
<1> QED
  BY <1>2, <1>3

\* Behind the first id of a row the map names that row, once for each vector.
LEMMA MapLeads ==
    ASSUME NEW n \in Nat, NEW c \in [0 .. n - 1 -> Nat]
    PROVE  /\ MapOf(n, c) \in Seq(Nat)
           /\ Len(MapOf(n, c)) = FirstIds(n, c)[n]
           /\ \A row \in 0 .. n - 1 : \A slot \in 0 .. c[row] - 1 :
                  MapOf(n, c)[FirstIds(n, c)[row] + slot + 1] = row
<1> DEFINE f == FirstIds(n, c)
           Leads(s, k) == /\ s \in Seq(Nat) /\ Len(s) = f[k]
                          /\ \A row \in 0 .. k - 1 : \A slot \in 0 .. c[row] - 1 :
                                 s[f[row] + slot + 1] = row
<1>1. /\ f[0] = 0
      /\ \A row \in 0 .. n - 1 : f[row + 1] = f[row] + c[row]
      /\ \A row \in 0 .. n : f[row] \in Nat
  BY FirstIs
<1>2. \A a \in 0 .. n - 1, b \in 0 .. n : a < b => f[a] + c[a] <= f[b]
  BY FirstAscends
<1> HIDE DEF f
<1>3. PICK m : IsMap(m, n, c) /\ MapOf(n, c) = m[n]
  BY MapExists
<1>4. /\ m[0] = << >>
      /\ \A k \in 1 .. n : m[k] = m[k - 1] \o [i \in 1 .. c[k - 1] |-> k - 1]
  <2>1. \A rows \in 0 .. n : m[rows] = IF rows = 0 THEN << >>
                             ELSE m[rows - 1] \o [i \in 1 .. c[rows - 1] |-> rows - 1]
    BY <1>3 DEF IsMap
  <2>2. 0 \in 0 .. n /\ \A k \in 1 .. n : k \in 0 .. n /\ k # 0
    OBVIOUS
  <2> QED
    BY <2>1, <2>2, Zenon
<1> DEFINE T == {k \in 0 .. n : ~Leads(m[k], k)}
<1>8. Leads(<< >>, 0)
  BY <1>1
<1> HIDE DEF Leads
<1>5. T = {}
  <2> SUFFICES ASSUME T # {} PROVE FALSE
    OBVIOUS
  <2>1. PICK k \in T : \A l \in T : k <= l
    <3>1. T \subseteq Nat
      OBVIOUS
    <3> HIDE DEF T
    <3> QED
      BY <3>1, LeastNatural
  <2>2. k \in 0 .. n /\ ~Leads(m[k], k)
    BY <2>1
  <2>3. k # 0
    BY <1>8, <1>4, <2>2
  <2>4. k - 1 \in 0 .. n - 1 /\ k - 1 \in 0 .. n /\ k - 1 \notin T /\ k \in 1 .. n /\ k - 1 + 1 = k
    BY <2>1, <2>3
  <2>5. Leads(m[k - 1], k - 1)
    BY <2>4
  <2> DEFINE s == m[k - 1]
             r == k - 1
             t == [i \in 1 .. c[r] |-> r]
  <2>6. s \in Seq(Nat) /\ r \in Nat /\ c[r] \in Nat /\ f[k] = f[r] + c[r] /\ f[r] \in Nat
    <3>1. s \in Seq(Nat)
      BY <2>5 DEF Leads
    <3> QED
      BY <1>1, <2>4, <3>1
  <2>7. t \in Seq(Nat) /\ Len(t) = c[r] /\ \A i \in 1 .. c[r] : t[i] = r
    BY <2>6
  <2>8. m[k] = s \o t
    BY <1>4, <2>4
  <2>9. Len(s) = f[r] /\ \A row \in 0 .. r - 1 : \A slot \in 0 .. c[row] - 1 : s[f[row] + slot + 1] = row
    BY <2>5 DEF Leads
  <2> HIDE DEF s, t, r
  <2>10. /\ s \o t \in Seq(Nat) /\ Len(s \o t) = f[r] + c[r]
         /\ \A i \in 1 .. f[r] + c[r] : (s \o t)[i] = IF i <= f[r] THEN s[i] ELSE t[i - f[r]]
    <3>1. /\ s \o t \in Seq(Nat) /\ Len(s \o t) = Len(s) + Len(t)
          /\ \A i \in 1 .. Len(s) + Len(t) :
                 (s \o t)[i] = IF i <= Len(s) THEN s[i] ELSE t[i - Len(s)]
      BY <2>6, <2>7, ConcatProperties
    <3> QED
      BY <2>7, <2>9, <3>1, Zenon
  <2>13. r = k - 1 /\ r \in 0 .. n - 1
    BY <2>4 DEF r
  <2>11. ASSUME NEW row \in 0 .. k - 1, NEW slot \in 0 .. c[row] - 1
         PROVE  (s \o t)[f[row] + slot + 1] = row
    <3>1. row \in 0 .. n - 1 /\ f[row] \in Nat /\ c[row] \in Nat
      BY <1>1, <2>4
    <3>2. CASE row = r
      <4>1. f[r] + slot + 1 \in 1 .. f[r] + c[r] /\ ~(f[r] + slot + 1 <= f[r])
            /\ f[r] + slot + 1 - f[r] = slot + 1 /\ slot + 1 \in 1 .. c[r]
        BY <2>6, <3>2
      <4>2. (s \o t)[f[r] + slot + 1] = t[slot + 1]
        <5>1. PICK x : x = f[r] + slot + 1
          OBVIOUS
        <5>2. x \in 1 .. f[r] + c[r] /\ ~(x <= f[r]) /\ x - f[r] = slot + 1
          <6>1. slot \in Nat /\ slot < c[r]
            BY <2>6, <3>2
          <6>2. \A p, q, z \in Nat : z < q => /\ p + z + 1 \in 1 .. p + q
                                             /\ ~(p + z + 1 <= p) /\ (p + z + 1) - p = z + 1
            OBVIOUS
          <6> QED
            BY <2>6, <5>1, <6>1, <6>2, Zenon
        <5>3. (s \o t)[x] = t[slot + 1]
          BY <2>10, <5>2, Zenon
        <5> QED
          BY <5>1, <5>3, Zenon
      <4> QED
        BY <2>7, <3>2, <4>1, <4>2, Zenon
    <3>3. CASE row # r
      <4>1. row \in 0 .. r - 1 /\ f[row] + c[row] <= f[r]
        BY <1>2, <2>13, <3>1, <3>3
      <4>2. f[row] + slot + 1 \in 1 .. f[r] + c[r] /\ f[row] + slot + 1 <= f[r]
        <5>1. slot \in Nat /\ slot < c[row]
          BY <3>1
        <5>2. \A p, q, u, w, z \in Nat :
                  p + q <= u /\ z < q => p + z + 1 \in 1 .. u + w /\ p + z + 1 <= u
          OBVIOUS
        <5> QED
          BY <2>6, <3>1, <4>1, <5>1, <5>2, Zenon
      <4> QED
        BY <2>9, <2>10, <4>1, <4>2
    <3> QED
      BY <3>2, <3>3
  <2>12. Leads(m[k], k)
    BY <2>6, <2>8, <2>10, <2>11 DEF Leads
  <2> QED
    BY <2>2, <2>12
<1>6. Leads(m[n], n)
  BY <1>5
<1> QED
  BY <1>3, <1>6 DEF f, Leads

\* Vectors have their rows and places.
LEMMA BuildIs ==
    ASSUME NEW b \in Builds
    PROVE  /\ Len(b.counts) \in Nat /\ DocsOf(b) = 0 .. Len(b.counts) - 1
           /\ CountsOf(b) \in [0 .. Len(b.counts) - 1 -> Nat]
           /\ \A row \in DocsOf(b) : CountsOf(b)[row] = b.counts[row + 1]
           /\ ~b.multi => \A row \in DocsOf(b) : CountsOf(b)[row] = 1
           /\ b.multi \in BOOLEAN /\ (b.multi => b.version >= 4)
<1>1. /\ b.counts \in Seq(Nat) /\ b.multi \in BOOLEAN /\ b.version \in Nat
      /\ ~b.multi => \A i \in DOMAIN b.counts : b.counts[i] = 1
      /\ b.version < 4 => ~b.multi
  BY BuildsAssumption
<1>2. Len(b.counts) \in Nat /\ DOMAIN b.counts = 1 .. Len(b.counts)
  BY <1>1
<1>3. \A row \in 0 .. Len(b.counts) - 1 : row + 1 \in DOMAIN b.counts /\ b.counts[row + 1] \in Nat
  BY <1>1, <1>2
<1> QED
  BY <1>1, <1>2, <1>3 DEF DocsOf, CountsOf

LEMMA VectorsAre ==
    ASSUME NEW b \in Builds, NEW v
    PROVE  v \in VectorsIn(b) <=> \E row \in DocsOf(b) : \E slot \in 0 .. CountsOf(b)[row] - 1 :
                                      v = Vector(row, slot)
<1> DEFINE Of(row) == [i \in 1 .. b.counts[row + 1] |-> Vector(row, i - 1)]
<1>1. v \in VectorsIn(b) <=> \E row \in DocsOf(b) : v \in ToSet(Of(row))
  BY DEF VectorsIn
<1>2. ASSUME NEW row \in DocsOf(b)
      PROVE  v \in ToSet(Of(row)) <=> \E slot \in 0 .. CountsOf(b)[row] - 1 : v = Vector(row, slot)
  <2>1. CountsOf(b)[row] = b.counts[row + 1] /\ CountsOf(b)[row] \in Nat
    BY BuildIs
  <2>2. v \in ToSet(Of(row)) <=> \E i \in 1 .. b.counts[row + 1] : v = Vector(row, i - 1)
    BY DEF ToSet
  <2>3. ASSUME NEW i \in 1 .. b.counts[row + 1], v = Vector(row, i - 1)
        PROVE  \E slot \in 0 .. CountsOf(b)[row] - 1 : v = Vector(row, slot)
    <3>1. i - 1 \in 0 .. CountsOf(b)[row] - 1
      BY <2>1
    <3> QED
      BY <2>3, <3>1
  <2>4. ASSUME NEW slot \in 0 .. CountsOf(b)[row] - 1, v = Vector(row, slot)
        PROVE  \E i \in 1 .. b.counts[row + 1] : v = Vector(row, i - 1)
    <3>1. slot + 1 \in 1 .. b.counts[row + 1] /\ slot + 1 - 1 = slot
      BY <2>1
    <3> QED
      BY <2>4, <3>1
  <2> QED
    BY <2>2, <2>3, <2>4
<1> QED
  BY <1>1, <1>2

\* An id belongs to one vector, and there are as many ids as vectors.
LEMMA IdsAre ==
    ASSUME NEW b \in Builds
    PROVE  /\ \A v \in VectorsIn(b) : v.row \in DocsOf(b) /\ IdOf(b, v) \in 0 .. NumVecs(b) - 1
           /\ \A v, w \in VectorsIn(b) : IdOf(b, v) = IdOf(b, w) => v = w
<1> DEFINE n == Len(b.counts)
           c == CountsOf(b)
           f == FirstOf(b)
<1>1. n \in Nat /\ c \in [0 .. n - 1 -> Nat] /\ DocsOf(b) = 0 .. n - 1 /\ b.multi \in BOOLEAN
      /\ (~b.multi => \A row \in 0 .. n - 1 : c[row] = 1)
  BY BuildIs
<1>2. /\ \A row \in 0 .. n : f[row] \in Nat
      /\ \A x \in 0 .. n - 1, y \in 0 .. n : x < y => f[x] + c[x] <= f[y]
  <2>1. f = FirstIds(n, c)
    BY DEF FirstOf
  <2> HIDE DEF n, c
  <2> QED
    BY <1>1, <2>1, FirstIs, FirstAscends
<1>3. \A v \in VectorsIn(b) : \E row \in 0 .. n - 1 : \E slot \in 0 .. c[row] - 1 :
          v = [row |-> row, slot |-> slot]
  BY <1>1, VectorsAre DEF Vector
<1>4. \A v : IdOf(b, v) = IF b.multi THEN f[v.row] + v.slot ELSE v.row
  BY DEF IdOf
<1>5. NumVecs(b) = IF b.multi THEN f[n] ELSE n
  BY DEF NumVecs
<1> HIDE DEF n, c, f
<1>6. ASSUME NEW v \in VectorsIn(b)
      PROVE  /\ v.row \in 0 .. n - 1 /\ v.slot \in 0 .. c[v.row] - 1 /\ v = [row |-> v.row, slot |-> v.slot]
             /\ f[v.row] \in Nat /\ c[v.row] \in Nat
  BY <1>1, <1>2, <1>3
<1>7. ASSUME NEW v \in VectorsIn(b)
      PROVE  IdOf(b, v) \in 0 .. NumVecs(b) - 1
  <2>1. CASE b.multi
    <3>1. f[v.row] + c[v.row] <= f[n] /\ f[n] \in Nat
      BY <1>1, <1>2, <1>6
    <3> QED
      BY <1>4, <1>5, <1>6, <2>1, <3>1
  <2>2. CASE ~b.multi
    BY <1>1, <1>4, <1>5, <1>6, <2>2
  <2> QED
    BY <2>1, <2>2
<1>8. ASSUME NEW v \in VectorsIn(b), NEW w \in VectorsIn(b), IdOf(b, v) = IdOf(b, w)
      PROVE  v = w
  <2>1. /\ v.row \in 0 .. n - 1 /\ v.slot \in 0 .. c[v.row] - 1 /\ v = [row |-> v.row, slot |-> v.slot]
        /\ w.row \in 0 .. n - 1 /\ w.slot \in 0 .. c[w.row] - 1 /\ w = [row |-> w.row, slot |-> w.slot]
        /\ f[v.row] \in Nat /\ c[v.row] \in Nat /\ f[w.row] \in Nat /\ c[w.row] \in Nat
    BY <1>6
  <2>2. CASE b.multi
    <3>1. f[v.row] + v.slot = f[w.row] + w.slot
      BY <1>4, <1>8, <2>2
    <3>6. v.row \in 0 .. n /\ w.row \in 0 .. n
      BY <1>1, <2>1
    <3>2. v.row < w.row => f[v.row] + c[v.row] <= f[w.row]
      BY <1>2, <2>1, <3>6, Zenon
    <3>3. w.row < v.row => f[w.row] + c[w.row] <= f[v.row]
      BY <1>2, <2>1, <3>6, Zenon
    <3>4. v.row = w.row
      BY <2>1, <3>1, <3>2, <3>3
    <3>5. v.slot = w.slot
      BY <2>1, <3>1, <3>4
    <3> QED
      BY <2>1, <3>4, <3>5
  <2>3. CASE ~b.multi
    <3>1. v.row = w.row
      BY <1>4, <1>8, <2>3
    <3>2. v.slot = 0 /\ w.slot = 0
      BY <1>1, <2>1, <2>3
    <3> QED
      BY <2>1, <3>1, <3>2
  <2> QED
    BY <1>1, <2>2, <2>3
<1> QED
  BY <1>1, <1>6, <1>7, <1>8, Zenon

\* Where the map leads.
LEMMA RowsAre ==
    ASSUME NEW b \in Builds, b.multi, NEW v \in VectorsIn(b)
    PROVE  /\ MapOf(Len(b.counts), CountsOf(b)) # << >>
           /\ MapOf(Len(b.counts), CountsOf(b))[IdOf(b, v) + 1] = v.row
<1> DEFINE n == Len(b.counts)
           c == CountsOf(b)
           f == FirstOf(b)
           m == MapOf(n, c)
<1>1. n \in Nat /\ c \in [0 .. n - 1 -> Nat] /\ DocsOf(b) = 0 .. n - 1
  BY BuildIs
<1>2. PICK row \in 0 .. n - 1 : \E slot \in 0 .. c[row] - 1 : v = [row |-> row, slot |-> slot]
  BY <1>1, VectorsAre DEF Vector
<1>3. PICK slot \in 0 .. c[row] - 1 : v = [row |-> row, slot |-> slot]
  BY <1>2
<1>4. IdOf(b, v) = f[row] + slot /\ IdOf(b, v) \in 0 .. f[n] - 1
  <2>1. IdOf(b, v) = f[row] + slot
    BY <1>3 DEF IdOf
  <2> QED
    <3>1. NumVecs(b) = f[n]
      BY DEF NumVecs
    <3>2. IdOf(b, v) \in 0 .. NumVecs(b) - 1
      BY IdsAre
    <3> QED
      BY <2>1, <3>1, <3>2, Zenon
<1>5. m[f[row] + slot + 1] = row /\ m \in Seq(Nat) /\ Len(m) = f[n] /\ f[n] \in Nat
  <2>1. f = FirstIds(n, c)
    BY DEF FirstOf
  <2> HIDE DEF n, c, f, m
  <2> QED
    <3>1. m \in Seq(Nat) /\ Len(m) = f[n] /\ f[n] \in Nat
      <4>1. MapOf(n, c) \in Seq(Nat) /\ Len(MapOf(n, c)) = FirstIds(n, c)[n]
        BY <1>1, MapLeads, Zenon
      <4>2. n \in 0 .. n
        BY <1>1
      <4>3. FirstIds(n, c)[n] \in Nat
        BY <1>1, <4>2, FirstIs, Zenon
      <4> QED
        BY <2>1, <4>1, <4>3, Zenon DEF m
    <3>2. \A y \in 0 .. n - 1 : \A x \in 0 .. c[y] - 1 : m[f[y] + x + 1] = y
      <4> SUFFICES ASSUME NEW y \in 0 .. n - 1, NEW x \in 0 .. c[y] - 1
                   PROVE  m[f[y] + x + 1] = y
        OBVIOUS
      <4>1. MapOf(n, c)[FirstIds(n, c)[y] + x + 1] = y
        <5>1. n \in Nat /\ c \in [0 .. n - 1 -> Nat]
          BY <1>1
        <5>2. \A place \in 0 .. n - 1 : \A nth \in 0 .. c[place] - 1 :
                  MapOf(n, c)[FirstIds(n, c)[place] + nth + 1] = place
          BY <5>1, MapLeads
        <5> QED
          BY <5>2, Zenon
      <4> QED
        BY <2>1, <4>1, Zenon DEF m
    <3> QED
      BY <1>2, <1>3, <3>1, <3>2
<1>6. Len(m) # 0
  BY <1>4, <1>5
<1> QED
  BY <1>3, <1>4, <1>5, <1>6

\* A number below the modulus is its own remainder.
LEMMA ModSmall ==
    ASSUME NEW x \in Nat, NEW n \in Nat \ {0}
    PROVE  x % n \in Nat /\ (x < n => x % n = x)
<1>1. x % n \in 0 .. n - 1 /\ x \div n \in Int /\ x = n * (x \div n) + (x % n)
  OBVIOUS
<1> DEFINE q == x \div n
           m == x % n
<1>2. \A d \in Nat : n * (d + 1) >= n /\ n * (-(d + 1)) <= -n
  OBVIOUS
<1>3. ASSUME x < n PROVE m = x
  <2>1. q = 0 \/ q - 1 \in Nat \/ -q - 1 \in Nat
    BY <1>1
  <2>2. CASE q = 0
    BY <1>1, <2>2
  <2>3. CASE q - 1 \in Nat
    <3>1. n * ((q - 1) + 1) >= n /\ (q - 1) + 1 = q
      BY <1>1, <1>2, <2>3
    <3>2. n * q >= n /\ n * q \in Int
      BY <1>1, <3>1
    <3> HIDE DEF q, m
    <3> QED
      BY <1>1, <1>3, <3>2 DEF q, m
  <2>4. CASE -q - 1 \in Nat
    <3>1. n * (-((-q - 1) + 1)) <= -n /\ -((-q - 1) + 1) = q
      BY <1>1, <1>2, <2>4
    <3>2. n * q <= -n /\ n * q \in Int
      BY <1>1, <3>1
    <3> QED
      BY <1>1, <3>2
  <2> QED
    BY <2>1, <2>2, <2>3, <2>4
<1> QED
  BY <1>1, <1>3

\* A build that has something to encode has room for it.
LEMMA VectorsFinite ==
    ASSUME NEW b \in Builds
    PROVE  /\ NumVecs(b) \in Nat
           /\ VectorsIn(b) # {} => Cardinality(VectorsIn(b)) > 0 /\ NumVecs(b) > 0
<1>1. NumVecs(b) \in Nat
  <2>1. Len(b.counts) \in Nat /\ CountsOf(b) \in [0 .. Len(b.counts) - 1 -> Nat]
    BY BuildIs
  <2>2. Len(b.counts) \in 0 .. Len(b.counts)
    BY <2>1
  <2>3. FirstIds(Len(b.counts), CountsOf(b))[Len(b.counts)] \in Nat
    BY <2>1, <2>2, FirstIs, Zenon
  <2> QED
    BY <2>1, <2>3 DEF NumVecs, FirstOf
<1>2. ASSUME VectorsIn(b) # {}
      PROVE  Cardinality(VectorsIn(b)) > 0 /\ NumVecs(b) > 0
  <2> DEFINE f == [v \in VectorsIn(b) |-> IdOf(b, v)]
             ids == 0 .. NumVecs(b) - 1
  <2>1. f \in [VectorsIn(b) -> ids]
    BY IdsAre
  <2>2. \A v, w \in VectorsIn(b) : f[v] = f[w] => v = w
    BY IdsAre
  <2>3. f \in Injection(VectorsIn(b), ids)
    BY <2>1, <2>2 DEF Injection, IsInjective
  <2>4. IsFiniteSet(ids)
    BY <1>1, FS_Interval
  <2>5. IsFiniteSet(VectorsIn(b))
    <3> HIDE DEF f, ids
    <3> QED
      BY <2>3, <2>4, FS_Injection
  <2>6. Cardinality(VectorsIn(b)) \in Nat /\ Cardinality(VectorsIn(b)) # 0
    BY <1>2, <2>5, FS_CardinalityType, FS_EmptySet
  <2>7. ids # {}
    BY <1>2, <2>1
  <2> QED
    BY <1>1, <2>6, <2>7
<1> QED
  BY <1>1, <1>2

\* The names of the model and those of the proof.
LEMMA Links ==
    /\ NumDocs = Len(build.counts) /\ Docs = DocsOf(build) /\ AllVectors = VectorsIn(build)
    /\ Base = FirstIds(Len(build.counts), counts)
    /\ VidToRowid = MapOf(Len(build.counts), counts)
<1>1. NumDocs = Len(build.counts) /\ Docs = DocsOf(build) /\ AllVectors = VectorsIn(build)
  BY DEF NumDocs, Docs, DocsOf, AllVectors, VectorsIn, VectorsOf
<1>2. Base = FirstIds(Len(build.counts), counts)
  BY DEF Base, FirstIds, NumDocs
<1>3. VidToRowid = MapOf(Len(build.counts), counts)
  BY DEF VidToRowid, MapOf, NumDocs
<1> QED
  BY <1>1, <1>2, <1>3

LEMMA VecIs ==
    ASSUME build \in Builds, Trained, phase = "add", NEW v
    PROVE  VecID(v) = IdOf(build, v)
<1>1. build.multi => base = FirstOf(build)
  BY DEF Trained
<1> QED
  BY <1>1 DEF VecID, IdOf

\* The first of a sequence and the others.
LEMMA FirstAndRest ==
    ASSUME NEW S, NEW s \in Seq(S), s # << >>
    PROVE  /\ Head(s) \in S /\ Tail(s) \in Seq(S)
           /\ Len(s) > 1 <=> Tail(s) # << >>
           /\ \A v \in ToSet(s) : v = Head(s) \/ v \in ToSet(Tail(s))
<1>1. /\ Head(s) \in S /\ Tail(s) \in Seq(S) /\ Len(Tail(s)) = Len(s) - 1
      /\ \A i \in 1 .. Len(Tail(s)) : Tail(s)[i] = s[i + 1]
      /\ Len(s) \in Nat /\ Head(s) = s[1] /\ DOMAIN s = 1 .. Len(s)
  BY HeadTailProperties
<1>2. DOMAIN Tail(s) = 1 .. Len(s) - 1
  BY <1>1
<1>3. Len(s) > 1 <=> Tail(s) # << >>
  <2>1. Len(s) # 0
    BY EmptySeq
  <2>2. Tail(s) = << >> <=> Len(Tail(s)) = 0
    BY <1>1, EmptySeq
  <2> QED
    BY <1>1, <2>1, <2>2
<1>4. ASSUME NEW v \in ToSet(s) PROVE v = Head(s) \/ v \in ToSet(Tail(s))
  <2>1. PICK i \in 1 .. Len(s) : v = s[i]
    BY <1>1 DEF ToSet
  <2>2. CASE i = 1
    BY <1>1, <2>1, <2>2
  <2>3. CASE i # 1
    <3>1. i - 1 \in 1 .. Len(s) - 1 /\ i - 1 + 1 = i
      BY <1>1, <2>1, <2>3
    <3>2. Tail(s)[i - 1] = v
      BY <1>1, <2>1, <3>1
    <3> QED
      BY <1>2, <3>1, <3>2 DEF ToSet
  <2> QED
    BY <2>2, <2>3
<1> QED
  BY <1>1, <1>3, <1>4

\* A document is handed to a thread with all of its vectors.
LEMMA RowVectors ==
    ASSUME build \in Builds, NEW row \in DocsOf(build)
    PROVE  /\ VectorsOf(row) \in Seq(VectorsIn(build))
           /\ \A v \in VectorsIn(build) : v.row = row => v \in ToSet(VectorsOf(row))
<1> DEFINE s == VectorsOf(row)
           n == build.counts[row + 1]
<1>1. n \in Nat /\ n = CountsOf(build)[row]
  BY BuildIs
<1>2. s = [i \in 1 .. n |-> Vector(row, i - 1)]
  BY DEF VectorsOf
<1>3. \A i \in 1 .. n : s[i] \in VectorsIn(build)
  <2> SUFFICES ASSUME NEW i \in 1 .. n PROVE s[i] \in VectorsIn(build)
    OBVIOUS
  <2>1. i - 1 \in 0 .. CountsOf(build)[row] - 1
    BY <1>1
  <2>2. s[i] = Vector(row, i - 1)
    BY <1>2
  <2> QED
    BY <2>1, <2>2, VectorsAre
<1>4. s \in Seq(VectorsIn(build))
  <2>1. s \in [1 .. n -> VectorsIn(build)]
    BY <1>2, <1>3
  <2> QED
    BY <1>1, <2>1
<1>5. ASSUME NEW v \in VectorsIn(build), v.row = row PROVE v \in ToSet(s)
  <2>1. PICK r \in DocsOf(build) : \E slot \in 0 .. CountsOf(build)[r] - 1 : v = Vector(r, slot)
    BY VectorsAre
  <2>2. PICK slot \in 0 .. CountsOf(build)[r] - 1 : v = Vector(r, slot)
    BY <2>1
  <2>3. r = row
    BY <1>5, <2>2 DEF Vector
  <2>4. slot + 1 \in 1 .. n /\ slot + 1 - 1 = slot
    BY <1>1, <2>2, <2>3
  <2>5. s[slot + 1] = v /\ slot + 1 \in DOMAIN s
    BY <1>2, <2>2, <2>3, <2>4
  <2> QED
    BY <2>5 DEF ToSet
<1> QED
  BY <1>4, <1>5

-----------------------------------------------------------------------------
(* The steps of a build. *)

LEMMA Initially == InitAll => IInv
<1> SUFFICES ASSUME InitAll PROVE IInv
  OBVIOUS
<1>1. /\ build \in Builds /\ phase = "train" /\ found = {}
      /\ \A t \in Thread : step[t] = "idle"
  BY DEF InitAll, Init
<1>2. InTraining
  <2>1. Len(build.counts) \in Nat /\ build.multi \in BOOLEAN
    BY <1>1, BuildIs
  <2>2. NumDocs = Len(build.counts) /\ Docs = DocsOf(build)
    BY Links
  <2>3. /\ trained = 0 /\ overflow = FALSE /\ totalVecs = NumDocs
        /\ counts = IF build.multi THEN [row \in Docs |-> 0] ELSE << >>
        /\ pool = << >> /\ graph = << >> /\ todo = Docs
        /\ work = [t \in Thread |-> << >>] /\ step = [t \in Thread |-> "idle"]
        /\ context = [t \in Thread |-> Nothing]
    BY DEF InitAll, Init
  <2>4. trained \in 0 .. Len(build.counts) /\ 0 .. trained - 1 = {}
    BY <2>1, <2>3
  <2>5. build.multi => counts \in [DocsOf(build) -> Nat]
    BY <2>2, <2>3
  <2> QED
    BY <2>2, <2>3, <2>4, <2>5 DEF InTraining
<1> QED
  BY <1>1, <1>2 DEF IInv, Trained, Resting, InAdding, InFile, InIndex, FoundOK

\* The search is not touched by the build.
LEMMA FoundKept ==
    ASSUME build' = build, found' = found, filter' = filter, FoundOK
    PROVE  FoundOK'
BY DEF FoundOK

LEMMA TrainStep == IInv /\ Train /\ UNCHANGED <<file, index, iterator>> => IInv'
<1> SUFFICES ASSUME IInv, Train, UNCHANGED <<file, index, iterator>> PROVE IInv'
  OBVIOUS
<1>1. /\ build \in Builds /\ build' = build /\ phase = "train" /\ phase' = "train"
      /\ trained < NumDocs /\ trained' = trained + 1
      /\ totalVecs' = totalVecs /\ pool' = pool /\ graph' = graph
      /\ UNCHANGED <<todo, work, step, context>> /\ FoundOK
      /\ found' = found /\ filter' = filter
  BY DEF IInv, Train, threads, iterator
<1>2. Len(build.counts) \in Nat /\ DocsOf(build) = 0 .. Len(build.counts) - 1 /\ NumDocs = Len(build.counts)
      /\ build.multi \in BOOLEAN
  BY <1>1, BuildIs, Links
<1>3. /\ trained \in 0 .. Len(build.counts)
      /\ build.multi => /\ counts \in [DocsOf(build) -> Nat] /\ overflow \in BOOLEAN
                        /\ overflow \/ \A row \in 0 .. trained - 1 : counts[row] = build.counts[row + 1]
      /\ ~build.multi => totalVecs = Len(build.counts)
      /\ pool = << >> /\ graph = << >> /\ todo = DocsOf(build)
      /\ work = [t \in Thread |-> << >>] /\ step = [t \in Thread |-> "idle"]
      /\ context = [t \in Thread |-> Nothing]
  BY <1>1 DEF IInv, InTraining
<1>4. trained \in DocsOf(build) /\ trained' \in 0 .. Len(build.counts)
  BY <1>1, <1>2, <1>3
<1> DEFINE many == build.counts[trained + 1]
<1>5. ASSUME build.multi
      PROVE  /\ counts' \in [DocsOf(build) -> Nat] /\ overflow' \in BOOLEAN
             /\ overflow' \/ \A row \in 0 .. trained' - 1 : counts'[row] = build.counts[row + 1]
  <2>1. /\ counts' = [counts EXCEPT ![trained] = many % Ids]
        /\ overflow' = (overflow \/ many >= Ids)
    BY <1>5 DEF Train
  <2>2. many \in Nat /\ Ids \in Nat \ {0}
    BY <1>1, <1>4, BuildIs, BuildsAssumption
  <2>3. many % Ids \in Nat /\ (many < Ids => many % Ids = many)
    BY <2>2, ModSmall
  <2> HIDE DEF many
  <2>4. counts' \in [DocsOf(build) -> Nat] /\ overflow' \in BOOLEAN
    BY <1>3, <1>4, <1>5, <2>1, <2>3
  <2>5. ASSUME ~overflow', NEW row \in 0 .. trained' - 1
        PROVE  counts'[row] = build.counts[row + 1]
    <3>1. ~overflow /\ many < Ids
      <4>1. ~overflow /\ ~(many >= Ids)
        BY <2>1, <2>5, Zenon
      <4> QED
        BY <2>2, <4>1
    <3>2. trained \in Nat /\ row \in 0 .. trained
      BY <1>1, <1>2, <1>4
    <3>3. CASE row = trained
      <4>1. counts'[trained] = many
        BY <1>3, <1>4, <1>5, <2>1, <2>3, <3>1
      <4> QED
        BY <3>3, <4>1 DEF many
    <3>4. CASE row # trained
      <4>1. row \in 0 .. trained - 1 /\ row \in DocsOf(build)
        BY <1>2, <1>4, <3>2, <3>4
      <4>2. counts'[row] = counts[row]
        BY <1>3, <1>5, <2>1, <3>4, <4>1
      <4> QED
        BY <1>3, <1>5, <3>1, <4>1, <4>2
    <3> QED
      BY <3>3, <3>4
  <2> QED
    BY <2>4, <2>5
<1>6. InTraining'
  BY <1>1, <1>3, <1>4, <1>5 DEF InTraining
<1> QED
  BY <1>1, <1>3, <1>6, FoundKept DEF IInv, Trained, Resting, InAdding, InFile, InIndex

LEMMA TrainingEnds ==
    IInv /\ (TrainingRefused \/ TrainingFails) /\ UNCHANGED <<file, index, iterator>> => IInv'
<1> SUFFICES ASSUME IInv, TrainingRefused \/ TrainingFails, UNCHANGED <<file, index, iterator>>
             PROVE  IInv'
  OBVIOUS
<1>1. /\ build \in Builds /\ build' = build /\ phase = "train"
      /\ FoundOK /\ found' = found /\ filter' = filter /\ InTraining
  BY DEF IInv, TrainingRefused, TrainingFails, iterator
<1>2. FoundOK'
  BY <1>1, FoundKept
<1>3. CASE TrainingRefused
  BY <1>1, <1>2, <1>3 DEF TrainingRefused, threads, IInv, InTraining, Trained, Resting, InAdding, InFile, InIndex
<1>4. CASE TrainingFails
  <2>1. ~build.multi => totalVecs' = totalVecs
    BY <1>4 DEF TrainingFails, TotalVectors
  <2>2. /\ phase' = "train" /\ UNCHANGED <<trained, counts, overflow, pool, graph, todo, work, step, context>>
    BY <1>1, <1>4 DEF TrainingFails, threads
  <2>3. InTraining'
    BY <1>1, <2>1, <2>2 DEF InTraining
  <2> QED
    BY <1>1, <1>2, <2>2, <2>3 DEF IInv, Trained, Resting, InAdding, InFile, InIndex
<1> QED
  BY <1>3, <1>4

\* When training is over the bases are right and the pool has room for every vector.
LEMMA FinalizeTrainingStep == IInv /\ FinalizeTraining /\ UNCHANGED <<file, index, iterator>> => IInv'
<1> SUFFICES ASSUME IInv, FinalizeTraining, UNCHANGED <<file, index, iterator>> PROVE IInv'
  OBVIOUS
<1>1. /\ build \in Builds /\ build' = build /\ phase = "train" /\ phase' = "add"
      /\ trained = NumDocs /\ ~TooMany /\ SetBase /\ totalVecs' = TotalVectors /\ fetcher' = HasPool
      /\ pool' = IF HasPool /\ TrainedVecs > 0 THEN [id \in 0 .. totalVecs' - 1 |-> Nothing] ELSE pool
      /\ UNCHANGED <<counts, overflow, todo, work, step, context, graph>>
      /\ FoundOK /\ found' = found /\ filter' = filter
  BY DEF IInv, FinalizeTraining, threads, iterator
<1>2. /\ build.multi => /\ counts \in [DocsOf(build) -> Nat] /\ overflow \in BOOLEAN
                        /\ overflow \/ \A row \in 0 .. trained - 1 : counts[row] = build.counts[row + 1]
      /\ ~build.multi => totalVecs = Len(build.counts)
      /\ pool = << >> /\ graph = << >> /\ todo = DocsOf(build)
      /\ work = [t \in Thread |-> << >>] /\ step = [t \in Thread |-> "idle"]
      /\ context = [t \in Thread |-> Nothing]
  BY <1>1 DEF IInv, InTraining
<1>3. NumDocs = Len(build.counts) /\ Base = FirstIds(Len(build.counts), counts) /\ AllVectors = VectorsIn(build)
  BY Links
<1>4. ASSUME build.multi PROVE counts = CountsOf(build) /\ Base = FirstOf(build)
  <2>1. ~overflow
    BY <1>1, <1>4 DEF TooMany
  <2>2. \A row \in 0 .. Len(build.counts) - 1 : counts[row] = build.counts[row + 1]
    BY <1>1, <1>2, <1>3, <1>4, <2>1
  <2>3. \A row \in DocsOf(build) : counts[row] = CountsOf(build)[row]
    BY <1>1, <2>2, BuildIs
  <2>4. counts = CountsOf(build)
    BY <1>2, <1>4, <2>3 DEF CountsOf
  <2> QED
    BY <1>3, <2>4 DEF FirstOf
<1>5. Trained'
  BY <1>1, <1>4 DEF Trained, SetBase
<1>6. ASSUME HasPool, VectorsIn(build) # {}
      PROVE  pool' = [id \in 0 .. NumVecs(build) - 1 |-> Nothing]
  <2>1. TrainedVecs > 0 /\ NumVecs(build) > 0
    BY <1>1, <1>3, <1>6, VectorsFinite DEF TrainedVecs
  <2>2. TotalVectors = NumVecs(build)
    <3>1. Quantized
      BY <1>6 DEF HasPool, Quantized
    <3> QED
      BY <1>2, <1>3, <1>4, <2>1, <3>1 DEF TotalVectors, NumVecs
  <2> QED
    BY <1>1, <1>6, <2>1, <2>2
<1>7. \A id \in DOMAIN pool' : pool'[id] = Nothing
  BY <1>1, <1>2
<1>8. PoolOK'
  <2>1. HasPool' = HasPool
    BY <1>1 DEF HasPool
  <2>2. HasPool /\ VectorsIn(build) # {} => DOMAIN pool' = 0 .. NumVecs(build) - 1
    BY <1>6
  <2> QED
    BY <1>1, <1>7, <2>1, <2>2 DEF PoolOK
<1>9. graph' = << >> /\ DOMAIN graph' = {}
  BY <1>1, <1>2
<1>10. /\ todo' = DocsOf(build) /\ work' = [t \in Thread |-> << >>] /\ step' = [t \in Thread |-> "idle"]
       /\ context' = [t \in Thread |-> Nothing]
  BY <1>1, <1>2
<1>11. \A t \in Thread : ThreadOK(t)'
  <2> SUFFICES ASSUME NEW t \in Thread PROVE ThreadOK(t)'
    OBVIOUS
  <2>1. work'[t] = << >> /\ step'[t] = "idle"
    BY <1>10
  <2>2. work'[t] \in Seq(VectorsIn(build'))
    BY <2>1
  <2> QED
    BY <2>1, <2>2 DEF ThreadOK
<1>12. NoneForgotten'
  BY <1>1, <1>10, IdsAre DEF NoneForgotten
<1>13. InAdding'
  BY <1>1, <1>8, <1>9, <1>10, <1>11, <1>12 DEF InAdding, GraphOK
<1> QED
  BY <1>1, <1>5, <1>13, FoundKept DEF IInv, InTraining, Resting, InFile, InIndex

\* What a step of a thread has to show.
LEMMA WhileAdding ==
    ASSUME IInv, phase = "add", phase' = "add",
           UNCHANGED <<build, counts, base, found, filter>>, InAdding'
    PROVE  IInv'
<1>1. build \in Builds /\ FoundOK /\ Trained
  BY DEF IInv
<1>2. Trained'
  BY <1>1 DEF Trained
<1> QED
  BY <1>1, <1>2, FoundKept DEF IInv, InTraining, Resting, InFile, InIndex

\* What is known while documents are added.
LEMMA Adding ==
    ASSUME IInv, phase = "add"
    PROVE  /\ build \in Builds /\ Trained
           /\ PoolOK /\ GraphOK /\ todo \subseteq DocsOf(build)
           /\ HasPool => \A id \in DOMAIN graph : InPool(graph[id])
           /\ work = [t \in Thread |-> work[t]] /\ step = [t \in Thread |-> step[t]]
           /\ context = [t \in Thread |-> context[t]]
           /\ \A t \in Thread : ThreadOK(t)
           /\ NoneForgotten
BY DEF IInv, InAdding

\* A thread of which nothing changes.
LEMMA ThreadKept ==
    ASSUME NEW t \in Thread, ThreadOK(t), UNCHANGED <<build, pool>>,
           work'[t] = work[t], step'[t] = step[t], context'[t] = context[t]
    PROVE  ThreadOK(t)'
BY DEF ThreadOK, InPool, HasPool

LEMMA AddDocStep ==
    ASSUME NEW t \in Thread
    PROVE  IInv /\ AddDoc(t) /\ UNCHANGED <<file, index, iterator>> => IInv'
<1> SUFFICES ASSUME IInv, AddDoc(t), UNCHANGED <<file, index, iterator>> PROVE IInv'
  OBVIOUS
<1>1. /\ phase = "add" /\ phase' = "add" /\ step[t] = "idle"
      /\ UNCHANGED <<build, counts, base, found, filter, fetcher, pool, graph, context>>
  BY DEF AddDoc, training, iterator
<1>2. PICK row \in todo :
          /\ todo' = todo \ {row}
          /\ work' = [work EXCEPT ![t] = VectorsOf(row)]
          /\ step' = IF VectorsOf(row) = << >> THEN step ELSE [step EXCEPT ![t] = "encode"]
  BY DEF AddDoc
<1>3. /\ build \in Builds /\ Trained /\ PoolOK /\ GraphOK /\ todo \subseteq DocsOf(build)
      /\ HasPool => \A id \in DOMAIN graph : InPool(graph[id])
      /\ work = [u \in Thread |-> work[u]] /\ step = [u \in Thread |-> step[u]]
      /\ context = [u \in Thread |-> context[u]]
      /\ \A u \in Thread : ThreadOK(u)
      /\ NoneForgotten
  BY <1>1, Adding
<1> DEFINE vecs == VectorsOf(row)
<1>4. vecs \in Seq(VectorsIn(build)) /\ \A v \in VectorsIn(build) : v.row = row => v \in ToSet(vecs)
  BY <1>2, <1>3, RowVectors
<1> HIDE DEF vecs
<1>5. /\ work'[t] = vecs /\ step'[t] = (IF vecs = << >> THEN "idle" ELSE "encode")
      /\ \A u \in Thread : u # t => work'[u] = work[u] /\ step'[u] = step[u]
      /\ work' = [u \in Thread |-> work'[u]] /\ step' = [u \in Thread |-> step'[u]]
  BY <1>1, <1>2, <1>3 DEF vecs
<1>6. ASSUME NEW u \in Thread PROVE ThreadOK(u)'
  <2>1. CASE u = t
    BY <1>1, <1>4, <1>5, <2>1 DEF ThreadOK
  <2>2. CASE u # t
    BY <1>1, <1>3, <1>5, <2>2, ThreadKept
  <2> QED
    BY <2>1, <2>2
<1>7. ASSUME NEW v \in VectorsIn(build) PROVE v.row \in todo' \/ InWork(v)' \/ InGraph(v)'
  <2>1. CASE v.row \in todo
    <3>1. v.row = row => v \in ToSet(work'[t])
      BY <1>4, <1>5
    <3> QED
      BY <1>2, <2>1, <3>1 DEF InWork
  <2>2. CASE InWork(v)
    <3>1. PICK u \in Thread : v \in ToSet(work[u])
      BY <2>2 DEF InWork
    <3>2. u # t
      <4>1. work[t] = << >>
        BY <1>1, <1>3 DEF ThreadOK
      <4> QED
        BY <3>1, <4>1 DEF ToSet
    <3> QED
      BY <1>5, <3>1, <3>2 DEF InWork
  <2>3. CASE InGraph(v)
    BY <1>1, <2>3 DEF InGraph
  <2> QED
    BY <1>3, <2>1, <2>2, <2>3 DEF NoneForgotten
<1>8. PoolOK' /\ GraphOK' /\ (HasPool' => \A id \in DOMAIN graph' : InPool(graph[id])')
  BY <1>1, <1>3 DEF PoolOK, GraphOK, InPool, HasPool
<1>9. InAdding'
  BY <1>1, <1>2, <1>3, <1>5, <1>6, <1>7, <1>8 DEF InAdding, NoneForgotten
<1> QED
  BY <1>1, <1>9, WhileAdding

\* A form is written where no other vector lies.
LEMMA EncodeToPoolStep ==
    ASSUME NEW t \in Thread
    PROVE  IInv /\ phase = "add" /\ EncodeToPool(t) /\ UNCHANGED <<file, index, iterator>> => IInv'
<1> SUFFICES ASSUME IInv, phase = "add", EncodeToPool(t), UNCHANGED <<file, index, iterator>> PROVE IInv'
  OBVIOUS
<1> DEFINE v == Head(work[t])
           id == IdOf(build, v)
<1>1. /\ phase' = "add" /\ step[t] = "encode" /\ HasPool
      /\ UNCHANGED <<build, counts, base, found, filter, fetcher, graph, context, todo, work>>
      /\ pool' = IF VecID(v) \in DOMAIN pool THEN Put(pool, VecID(v), v) ELSE pool
      /\ step' = [step EXCEPT ![t] = "quantize"]
  BY DEF EncodeToPool, training, iterator
<1>2. /\ build \in Builds /\ Trained /\ PoolOK /\ GraphOK /\ todo \subseteq DocsOf(build)
      /\ \A i \in DOMAIN graph : InPool(graph[i])
      /\ work = [u \in Thread |-> work[u]] /\ step = [u \in Thread |-> step[u]]
      /\ context = [u \in Thread |-> context[u]]
      /\ \A u \in Thread : ThreadOK(u)
      /\ NoneForgotten
  BY <1>1, Adding
<1>3. work[t] \in Seq(VectorsIn(build)) /\ work[t] # << >> /\ v \in VectorsIn(build)
  <2>1. work[t] \in Seq(VectorsIn(build)) /\ work[t] # << >>
    BY <1>1, <1>2 DEF ThreadOK
  <2> QED
    BY <2>1, FirstAndRest
<1>4. VecID(v) = id
  BY <1>2, VecIs
<1>5. id \in DOMAIN pool
  BY <1>1, <1>2, <1>3, IdsAre DEF PoolOK
<1> HIDE DEF v, id
<1>6. /\ DOMAIN pool' = DOMAIN pool /\ pool'[id] = v
      /\ \A i \in DOMAIN pool : i # id => pool'[i] = pool[i]
  <2>1. pool' = Put(pool, id, v)
    BY <1>1, <1>4, <1>5 DEF v
  <2>2. /\ DOMAIN Put(pool, id, v) = DOMAIN pool \cup {id} /\ Put(pool, id, v)[id] = v
        /\ \A i \in DOMAIN pool : i # id => Put(pool, id, v)[i] = pool[i]
    BY DEF Put
  <2>3. DOMAIN pool \cup {id} = DOMAIN pool
    BY <1>5
  <2> QED
    BY <2>1, <2>2, <2>3, Zenon
<1>7. /\ step'[t] = "quantize"
      /\ \A u \in Thread : u # t => step'[u] = step[u]
      /\ step' = [u \in Thread |-> step'[u]]
  BY <1>1, <1>2
<1>8. ASSUME NEW w \in VectorsIn(build), InPool(w) PROVE InPool(w)'
  <2>1. CASE IdOf(build, w) = id
    <3>1. w = v
      BY <1>2, <1>3, <1>8, <2>1, IdsAre DEF id
    <3> QED
      BY <1>1, <1>5, <1>6, <2>1, <3>1 DEF InPool
  <2>2. CASE IdOf(build, w) # id
    BY <1>1, <1>6, <1>8, <2>2 DEF InPool
  <2> QED
    BY <2>1, <2>2
<1>9. InPool(v)'
  <2>1. IdOf(build', v) = id /\ v' = v
    BY <1>1 DEF id, v
  <2>2. id \in DOMAIN pool' /\ pool'[id] = v
    BY <1>5, <1>6
  <2>3. InPool(v)' <=> IdOf(build', v') \in DOMAIN pool' /\ pool'[IdOf(build', v')] = v'
    BY DEF InPool
  <2> QED
    BY <2>1, <2>2, <2>3
<1>10. ASSUME NEW u \in Thread PROVE ThreadOK(u)'
  <2>1. CASE u = t
    <3>1. work'[t] = work[t]
      BY <1>1
    <3>2. HasPool'
      BY <1>1 DEF HasPool
    <3>3. work'[t] \in Seq(VectorsIn(build')) /\ work'[t] # << >> /\ InPool(Head(work[t]))'
      BY <1>1, <1>3, <1>9, <3>1 DEF v
    <3>4. ThreadOK(t)'
      BY <1>7, <3>2, <3>3 DEF ThreadOK
    <3> QED
      BY <2>1, <3>4
  <2>2. CASE u # t
    <3>1. step'[u] = step[u] /\ work'[u] = work[u] /\ context'[u] = context[u] /\ ThreadOK(u)
      BY <1>1, <1>2, <1>7, <2>2
    <3>2. ASSUME step[u] \in {"quantize", "add"} PROVE InPool(Head(work[u]))'
      <4>1. work[u] # << >> /\ work[u] \in Seq(VectorsIn(build)) /\ InPool(Head(work[u]))
        BY <1>1, <3>1, <3>2 DEF ThreadOK
      <4>2. Head(work[u]) \in VectorsIn(build)
        BY <4>1, FirstAndRest
      <4> QED
        BY <1>1, <1>8, <4>1, <4>2
    <3>3. HasPool' = HasPool
      BY <1>1 DEF HasPool
    <3> QED
      BY <1>1, <3>1, <3>2, <3>3 DEF ThreadOK
  <2> QED
    BY <2>1, <2>2
<1>11. PoolOK'
  <2>1. HasPool' = HasPool /\ fetcher'
    BY <1>1, <1>2 DEF HasPool, PoolOK
  <2>2. ASSUME NEW i \in DOMAIN pool'
        PROVE  pool'[i] = Nothing \/ (pool'[i] \in VectorsIn(build) /\ IdOf(build, pool'[i]) = i)
    <3>1. CASE i = id
      BY <1>3, <1>6, <3>1 DEF id
    <3>2. CASE i # id
      BY <1>1, <1>2, <1>6, <3>2 DEF PoolOK
    <3> QED
      BY <3>1, <3>2
  <2> QED
    BY <1>1, <1>2, <1>6, <2>1, <2>2 DEF PoolOK
<1>12. \A i \in DOMAIN graph' : InPool(graph[i])'
  <2> SUFFICES ASSUME NEW i \in DOMAIN graph PROVE InPool(graph[i])'
    BY <1>1
  <2>1. graph[i] \in VectorsIn(build) /\ InPool(graph[i])
    BY <1>2 DEF GraphOK
  <2> QED
    BY <1>1, <1>8, <2>1
<1>13. GraphOK' /\ NoneForgotten'
  BY <1>1, <1>2 DEF GraphOK, NoneForgotten, InWork, InGraph
<1>14. InAdding'
  BY <1>1, <1>2, <1>7, <1>10, <1>11, <1>12, <1>13 DEF InAdding
<1> QED
  BY <1>1, <1>14, WhileAdding

LEMMA EncodeStep ==
    ASSUME NEW t \in Thread
    PROVE  IInv /\ phase = "add" /\ Encode(t) /\ UNCHANGED <<file, index, iterator>> => IInv'
<1> SUFFICES ASSUME IInv, phase = "add", Encode(t), UNCHANGED <<file, index, iterator>> PROVE IInv'
  OBVIOUS
<1>1. /\ phase' = "add" /\ step[t] = (IF HasPool THEN "quantize" ELSE "encode") /\ work[t] # << >>
      /\ UNCHANGED <<build, counts, base, found, filter, fetcher, pool, graph, todo, work>>
      /\ context' = [context EXCEPT ![t] = Head(work[t])]
      /\ step' = [step EXCEPT ![t] = "add"]
  BY DEF Encode, training, iterator
<1>2. /\ build \in Builds /\ Trained /\ PoolOK /\ GraphOK /\ todo \subseteq DocsOf(build)
      /\ HasPool => \A i \in DOMAIN graph : InPool(graph[i])
      /\ work = [u \in Thread |-> work[u]] /\ step = [u \in Thread |-> step[u]]
      /\ context = [u \in Thread |-> context[u]]
      /\ \A u \in Thread : ThreadOK(u)
      /\ NoneForgotten
  BY <1>1, Adding
<1>3. /\ step'[t] = "add" /\ context'[t] = Head(work[t])
      /\ \A u \in Thread : u # t => step'[u] = step[u] /\ context'[u] = context[u]
      /\ step' = [u \in Thread |-> step'[u]] /\ context' = [u \in Thread |-> context'[u]]
  BY <1>1, <1>2
<1>4. ASSUME NEW u \in Thread PROVE ThreadOK(u)'
  <2>1. CASE u = t
    <3>1. work'[t] = work[t] /\ work[t] \in Seq(VectorsIn(build))
      BY <1>1, <1>2 DEF ThreadOK
    <3>2. HasPool => InPool(Head(work[t]))
      BY <1>1, <1>2 DEF ThreadOK
    <3>3. HasPool' => InPool(Head(work[t]))'
      BY <1>1, <3>2 DEF HasPool, InPool
    <3>4. ThreadOK(t)'
      BY <1>1, <1>3, <3>1, <3>3 DEF ThreadOK
    <3> QED
      BY <2>1, <3>4
  <2>2. CASE u # t
    BY <1>1, <1>2, <1>3, <2>2, ThreadKept
  <2> QED
    BY <2>1, <2>2
<1>5. PoolOK' /\ GraphOK' /\ (HasPool' => \A id \in DOMAIN graph' : InPool(graph[id])')
  BY <1>1, <1>2 DEF PoolOK, GraphOK, InPool, HasPool
<1>6. NoneForgotten'
  BY <1>1, <1>2 DEF NoneForgotten, InWork, InGraph
<1>7. InAdding'
  BY <1>1, <1>2, <1>3, <1>4, <1>5, <1>6 DEF InAdding
<1> QED
  BY <1>1, <1>7, WhileAdding

\* A vector enters the graph under its own id, with its form in the pool.
LEMMA AddPointStep ==
    ASSUME NEW t \in Thread
    PROVE  IInv /\ phase = "add" /\ AddPoint(t) /\ UNCHANGED <<file, index, iterator>> => IInv'
<1> SUFFICES ASSUME IInv, phase = "add", AddPoint(t), UNCHANGED <<file, index, iterator>> PROVE IInv'
  OBVIOUS
<1> DEFINE v == Head(work[t])
           id == IdOf(build, v)
           rest == Tail(work[t])
<1>1. /\ phase' = "add" /\ step[t] = "add"
      /\ UNCHANGED <<build, counts, base, found, filter, fetcher, pool, context, todo>>
      /\ graph' = Put(graph, VecID(v), context[t])
      /\ work' = [work EXCEPT ![t] = rest]
      /\ step' = [step EXCEPT ![t] = IF Len(work[t]) > 1 THEN "encode" ELSE "idle"]
  BY DEF AddPoint, training, iterator
<1>2. /\ build \in Builds /\ Trained /\ PoolOK /\ GraphOK /\ todo \subseteq DocsOf(build)
      /\ HasPool => \A i \in DOMAIN graph : InPool(graph[i])
      /\ work = [u \in Thread |-> work[u]] /\ step = [u \in Thread |-> step[u]]
      /\ context = [u \in Thread |-> context[u]]
      /\ \A u \in Thread : ThreadOK(u)
      /\ NoneForgotten
  BY <1>1, Adding
<1>3. /\ work[t] \in Seq(VectorsIn(build)) /\ work[t] # << >> /\ context[t] = v
      /\ HasPool => InPool(v)
  BY <1>1, <1>2 DEF ThreadOK
<1>4. /\ v \in VectorsIn(build) /\ rest \in Seq(VectorsIn(build))
      /\ Len(work[t]) > 1 <=> rest # << >>
      /\ \A w \in ToSet(work[t]) : w = v \/ w \in ToSet(rest)
  BY <1>3, FirstAndRest
<1>5. VecID(v) = id
  BY <1>2, VecIs
<1> HIDE DEF v, id, rest
<1>6. /\ DOMAIN graph' = DOMAIN graph \cup {id} /\ graph'[id] = v
      /\ \A i \in DOMAIN graph : i # id => graph'[i] = graph[i]
  <2>1. graph' = Put(graph, id, v)
    BY <1>1, <1>3, <1>5
  <2>2. /\ DOMAIN Put(graph, id, v) = DOMAIN graph \cup {id} /\ Put(graph, id, v)[id] = v
        /\ \A i \in DOMAIN graph : i # id => Put(graph, id, v)[i] = graph[i]
    BY DEF Put
  <2> QED
    BY <2>1, <2>2, Zenon
<1>7. /\ work'[t] = rest /\ step'[t] = (IF rest = << >> THEN "idle" ELSE "encode")
      /\ \A u \in Thread : u # t => work'[u] = work[u] /\ step'[u] = step[u]
      /\ work' = [u \in Thread |-> work'[u]] /\ step' = [u \in Thread |-> step'[u]]
  BY <1>1, <1>2, <1>4
<1>8. ASSUME NEW u \in Thread PROVE ThreadOK(u)'
  <2>1. CASE u = t
    BY <1>1, <1>4, <1>7, <2>1 DEF ThreadOK
  <2>2. CASE u # t
    BY <1>1, <1>2, <1>7, <2>2, ThreadKept
  <2> QED
    BY <2>1, <2>2
<1>9. GraphOK'
  <2> SUFFICES ASSUME NEW i \in DOMAIN graph'
               PROVE  graph'[i] \in VectorsIn(build) /\ IdOf(build, graph'[i]) = i
    BY <1>1 DEF GraphOK
  <2>1. CASE i = id
    BY <1>4, <1>6, <2>1 DEF id
  <2>2. CASE i # id
    BY <1>2, <1>6, <2>2 DEF GraphOK
  <2> QED
    BY <2>1, <2>2
<1>10. HasPool' => \A i \in DOMAIN graph' : InPool(graph[i])'
  <2> SUFFICES ASSUME HasPool', NEW i \in DOMAIN graph' PROVE InPool(graph[i])'
    OBVIOUS
  <2>1. HasPool
    BY <1>1 DEF HasPool
  <2>2. InPool(graph'[i])
    <3>1. CASE i = id
      BY <1>3, <1>6, <2>1, <3>1
    <3>2. CASE i # id
      BY <1>2, <1>6, <2>1, <3>2
    <3> QED
      BY <3>1, <3>2
  <2> QED
    BY <1>1, <2>2 DEF InPool
<1>11. ASSUME NEW w \in VectorsIn(build) PROVE w.row \in todo' \/ InWork(w)' \/ InGraph(w)'
  <2>1. CASE w.row \in todo
    BY <1>1, <2>1
  <2>2. CASE InWork(w)
    <3>1. PICK u \in Thread : w \in ToSet(work[u])
      BY <2>2 DEF InWork
    <3>2. CASE u # t
      BY <1>7, <3>1, <3>2 DEF InWork
    <3>3. CASE u = t
      <4>1. CASE w = v
        BY <1>6, <4>1 DEF InGraph
      <4>2. CASE w \in ToSet(rest)
        BY <1>7, <4>2 DEF InWork
      <4> QED
        BY <1>4, <3>1, <3>3, <4>1, <4>2
    <3> QED
      BY <3>2, <3>3
  <2>3. CASE InGraph(w)
    <3>1. PICK i \in DOMAIN graph : graph[i] = w
      BY <2>3 DEF InGraph
    <3>2. CASE i # id
      BY <1>6, <3>1, <3>2 DEF InGraph
    <3>3. CASE i = id
      <4>1. w = v
        BY <1>2, <1>4, <3>1, <3>3, IdsAre DEF GraphOK, id
      <4> QED
        BY <1>6, <4>1 DEF InGraph
    <3> QED
      BY <3>2, <3>3
  <2> QED
    BY <1>2, <2>1, <2>2, <2>3 DEF NoneForgotten
<1>12. PoolOK'
  BY <1>1, <1>2 DEF PoolOK, HasPool
<1>13. InAdding'
  BY <1>1, <1>2, <1>7, <1>8, <1>9, <1>10, <1>11, <1>12 DEF InAdding, NoneForgotten
<1> QED
  BY <1>1, <1>13, WhileAdding

-----------------------------------------------------------------------------
(* The steps that follow a build. *)

\* What was built and is loaded stays.
LEMMA IndexKept ==
    ASSUME IInv, UNCHANGED <<buildVars, file, index>>, FoundOK'
    PROVE  IInv'
<1>1. /\ UNCHANGED <<build, phase, trained, counts, overflow, base, totalVecs, finalized, fetcher, pool,
                     todo, work, step, context, graph, file, index>>
  BY DEF buildVars, training, threads
<1>2. build' \in Builds /\ phase' \in {"train", "add", "saved", "failed", "refused", "loaded"}
  BY <1>1 DEF IInv
<1>3. InTraining' /\ Trained' /\ Resting' /\ InIndex'
  BY <1>1 DEF IInv, InTraining, Trained, Resting, InIndex
<1>4. InFile'
  BY <1>1 DEF IInv, InFile, GraphOK, InGraph, Quantized
<1>5. PoolOK = PoolOK' /\ GraphOK = GraphOK' /\ HasPool = HasPool' /\ NoneForgotten = NoneForgotten'
  BY <1>1 DEF PoolOK, GraphOK, HasPool, NoneForgotten, InWork, InGraph
<1>6. (\A t \in Thread : ThreadOK(t)) = (\A t \in Thread : ThreadOK(t)')
  BY <1>1 DEF ThreadOK, InPool, HasPool
<1>7. (\A id \in DOMAIN graph : InPool(graph[id])) = (\A id \in DOMAIN graph' : InPool(graph[id])')
  BY <1>1 DEF InPool
<1>8. InAdding'
  BY <1>1, <1>5, <1>6, <1>7 DEF IInv, InAdding
<1> QED
  BY <1>2, <1>3, <1>4, <1>8 DEF IInv

\* Once all threads are done every vector is in the graph, and so in the file.
LEMMA SaveStep == IInv /\ Save => IInv'
<1> SUFFICES ASSUME IInv, Save PROVE IInv'
  OBVIOUS
<1>1. /\ phase = "add" /\ phase' = "saved" /\ todo = {} /\ \A t \in Thread : step[t] = "idle"
      /\ UNCHANGED <<build, counts, base, step, graph, found, filter>>
      /\ file' = [version |-> build.version, multi |-> build.multi, quantized |-> Quantized,
                  map |-> IF build.multi THEN VidToRowid ELSE << >>, graph |-> graph]
  BY DEF Save, Added, training, threads, iterator
<1>2. /\ build \in Builds /\ Trained /\ GraphOK /\ NoneForgotten /\ \A t \in Thread : ThreadOK(t)
  BY <1>1, Adding
<1>3. ASSUME NEW v \in VectorsIn(build) PROVE InGraph(v)
  <2>1. ~InWork(v)
    <3>1. \A t \in Thread : work[t] = << >>
      BY <1>1, <1>2 DEF ThreadOK
    <3> QED
      BY <3>1 DEF InWork, ToSet
  <2> QED
    BY <1>1, <1>2, <2>1 DEF NoneForgotten
<1>4. VidToRowid = MapOf(Len(build.counts), counts)
  BY Links
<1>5. build.multi => counts = CountsOf(build)
  BY <1>1, <1>2 DEF Trained
<1>6. InFile'
  <2>1. GraphOK' /\ (\A v \in VectorsIn(build') : InGraph(v)') /\ Quantized' = Quantized
    BY <1>1, <1>2, <1>3 DEF GraphOK, InGraph, Quantized
  <2>2. file' = [version |-> build'.version, multi |-> build'.multi, quantized |-> Quantized',
                 map |-> IF build'.multi THEN MapOf(Len(build'.counts), CountsOf(build')) ELSE << >>,
                 graph |-> graph']
    BY <1>1, <1>4, <1>5, <2>1
  <2> QED
    BY <2>1, <2>2 DEF InFile
<1>7. Trained' /\ Resting'
  BY <1>1, <1>2 DEF Trained, Resting
<1>8. FoundOK'
  BY <1>1, FoundKept DEF IInv
<1> QED
  BY <1>1, <1>2, <1>6, <1>7, <1>8 DEF IInv, InTraining, InAdding, InIndex

LEMMA SaveFailsStep == IInv /\ SaveFails => IInv'
<1> SUFFICES ASSUME IInv, SaveFails PROVE IInv'
  OBVIOUS
<1>1. /\ phase' = "failed" /\ \A t \in Thread : step[t] = "idle"
      /\ UNCHANGED <<build, step, found, filter>>
  BY DEF SaveFails, Added, threads, iterator
<1>2. FoundOK' /\ build \in Builds
  BY <1>1, FoundKept DEF IInv
<1> QED
  BY <1>1, <1>2 DEF IInv, InTraining, Trained, Resting, InAdding, InFile, InIndex

LEMMA LoadStep == IInv /\ (Load \/ LoadRefuses) => IInv'
<1> SUFFICES ASSUME IInv, Load \/ LoadRefuses PROVE IInv'
  OBVIOUS
<1>1. /\ phase = "saved" /\ phase' \in {"loaded", "refused"}
      /\ UNCHANGED <<build, counts, base, step, graph, file, found, filter>>
      /\ phase' = "loaded" =>
             index' = [map |-> IF file.version >= 4 /\ file.multi THEN file.map ELSE << >>,
                       graph |-> file.graph]
  BY DEF Load, LoadRefuses, training, threads, iterator
<1>2. FoundOK' /\ build \in Builds
  BY <1>1, FoundKept DEF IInv
<1>3. InFile'
  BY <1>1 DEF IInv, InFile, GraphOK, InGraph, Quantized
<1>4. Trained' /\ Resting' /\ InIndex'
  BY <1>1 DEF IInv, Trained, Resting, InIndex
<1> QED
  BY <1>1, <1>2, <1>3, <1>4 DEF IInv, InTraining, InAdding

\* What is loaded leads from the ids to the documents.
LEMMA Loaded ==
    ASSUME IInv, phase = "loaded"
    PROVE  /\ index.graph = graph /\ GraphOK
           /\ \A v \in VectorsIn(build) : InGraph(v)
           /\ \A id \in DOMAIN graph : RowOf(id) = graph[id].row
<1>1. /\ build \in Builds /\ GraphOK /\ \A v \in VectorsIn(build) : InGraph(v)
      /\ file = [version |-> build.version, multi |-> build.multi, quantized |-> Quantized,
                 map |-> IF build.multi THEN MapOf(Len(build.counts), CountsOf(build)) ELSE << >>,
                 graph |-> graph]
      /\ index = [map |-> IF file.version >= 4 /\ file.multi THEN file.map ELSE << >>,
                  graph |-> file.graph]
  BY DEF IInv, InFile, InIndex
<1>2. build.multi \in BOOLEAN /\ (build.multi => build.version >= 4)
  BY <1>1, BuildIs
<1>3. /\ index.graph = graph
      /\ index.map = IF build.multi THEN MapOf(Len(build.counts), CountsOf(build)) ELSE << >>
  <2>1. file.version = build.version /\ file.multi = build.multi /\ file.graph = graph
        /\ file.map = IF build.multi THEN MapOf(Len(build.counts), CountsOf(build)) ELSE << >>
    BY <1>1
  <2>2. index.graph = file.graph /\ index.map = IF file.version >= 4 /\ file.multi THEN file.map ELSE << >>
    BY <1>1
  <2> QED
    BY <1>2, <2>1, <2>2
<1>4. ASSUME NEW id \in DOMAIN graph PROVE RowOf(id) = graph[id].row
  <2>1. graph[id] \in VectorsIn(build) /\ IdOf(build, graph[id]) = id
    BY <1>1 DEF GraphOK
  <2>2. CASE build.multi
    <3>1. /\ MapOf(Len(build.counts), CountsOf(build)) # << >>
          /\ MapOf(Len(build.counts), CountsOf(build))[IdOf(build, graph[id]) + 1] = graph[id].row
      BY <1>1, <2>1, <2>2, RowsAre
    <3> QED
      BY <1>3, <2>1, <2>2, <3>1 DEF RowOf
  <2>3. CASE ~build.multi
    BY <1>3, <2>1, <2>3 DEF RowOf, IdOf
  <2> QED
    BY <2>2, <2>3
<1> QED
  BY <1>1, <1>3, <1>4

\* A search finds documents, not ids, and only those that are allowed.
LEMMA SearchStep == IInv /\ CreateIterator => IInv'
<1> SUFFICES ASSUME IInv, CreateIterator PROVE IInv'
  OBVIOUS
<1>1. phase = "loaded" /\ UNCHANGED <<buildVars, file, index>> /\ build' = build
  BY DEF CreateIterator, buildVars
<1>2. PICK k \in Results : found' \in SearchKnn(k)
  BY DEF CreateIterator
<1>3. ASSUME NEW row \in found'
      PROVE  /\ \E v \in VectorsIn(build) : v.row = row
             /\ filter' = Nothing \/ row \in filter'
  <2>1. PICK id \in DOMAIN index.graph : IsAllowed(id) /\ row = RowOf(id)
    BY <1>2, <1>3 DEF SearchKnn
  <2>2. id \in DOMAIN graph /\ graph[id] \in VectorsIn(build) /\ graph[id].row = row
    BY <1>1, <2>1, Loaded DEF GraphOK
  <2>3. filter' = Nothing \/ row \in filter'
    BY <2>1 DEF IsAllowed
  <2> QED
    BY <2>2, <2>3
<1>4. FoundOK'
  BY <1>1, <1>3 DEF FoundOK
<1> QED
  BY <1>1, <1>4, IndexKept

LEMMA IteratorStep == IInv /\ (GetNextRowIdBlock \/ HintRowID \/ UNCHANGED vars) => IInv'
<1> SUFFICES ASSUME IInv, GetNextRowIdBlock \/ HintRowID \/ UNCHANGED vars PROVE IInv'
  OBVIOUS
<1>1. UNCHANGED <<buildVars, file, index>> /\ build' = build /\ found' = found /\ filter' = filter
  BY DEF GetNextRowIdBlock, HintRowID, vars, iterator, buildVars
<1>2. FoundOK'
  BY <1>1, FoundKept DEF IInv
<1> QED
  BY <1>1, <1>2, IndexKept

LEMMA BuildStep == IInv /\ Build => IInv'
<1> SUFFICES ASSUME IInv, Build PROVE IInv'
  OBVIOUS
<1>1. BuildNext /\ UNCHANGED <<file, index, iterator>>
  BY DEF Build
<1>2. CASE Train
  BY <1>1, <1>2, TrainStep
<1>3. CASE TrainingRefused \/ TrainingFails
  BY <1>1, <1>3, TrainingEnds
<1>4. CASE FinalizeTraining
  BY <1>1, <1>4, FinalizeTrainingStep
<1>5. ASSUME NEW t \in Thread, AddDoc(t) PROVE IInv'
  BY <1>1, <1>5, AddDocStep
<1>6. ASSUME NEW t \in Thread, AddVector(t) PROVE IInv'
  <2>1. phase = "add"
    <3>1. step[t] # "idle"
      BY <1>6 DEF AddVector, EncodeToPool, Encode, AddPoint
    <3> QED
      BY <3>1 DEF IInv, Resting
  <2> QED
    BY <1>1, <1>6, <2>1, EncodeToPoolStep, EncodeStep, AddPointStep DEF AddVector
<1> QED
  BY <1>1, <1>2, <1>3, <1>4, <1>5, <1>6 DEF BuildNext

LEMMA Stepwise == IInv /\ [Next]_vars => IInv'
<1> SUFFICES ASSUME IInv, [Next]_vars PROVE IInv'
  OBVIOUS
<1> QED
  BY BuildStep, SaveStep, SaveFailsStep, LoadStep, SearchStep, IteratorStep DEF Next

LEMMA Inductive == Spec => []IInv
<1> QED
  BY Initially, Stepwise, PTL DEF Spec
-----------------------------------------------------------------------------
(* Theorems. *)

\* Whatever the threads do, the pool holds the own form of every vector that one of
\* them can meet in the graph, and it can be fetched (HNSWIndexBuilder_c::AddDoc,
\* ScalarQuantizer_T::Encode).
THEOREM FormsAreThere == Spec => []FetchesOwnCode
<1>1. IInv => FetchesOwnCode
  <2> SUFFICES ASSUME IInv, phase = "add", HasPool, NEW id \in DOMAIN graph
               PROVE  fetcher /\ id \in DOMAIN pool /\ pool[id] = graph[id]
    BY DEF FetchesOwnCode
  <2>1. fetcher /\ IdOf(build, graph[id]) = id /\ InPool(graph[id])
    BY Adding DEF PoolOK, GraphOK
  <2> QED
    BY <2>1 DEF InPool
<1> QED
  BY <1>1, Inductive, PTL

\* A loaded index holds every vector under an id that leads to its document, and a
\* search finds documents that have a vector and that its filter allows
\* (HNSWIndexBuilder_c::Save, KNN_c::Load, HNSWIndex_c::Search).
THEOREM DocsAreFound == Spec => []FindsItsDocs
<1>1. IInv => FindsItsDocs
  <2> SUFFICES ASSUME IInv, phase = "loaded" PROVE FindsItsDocs
    BY DEF FindsItsDocs
  <2>1. /\ index.graph = graph /\ GraphOK
        /\ \A v \in VectorsIn(build) : InGraph(v)
        /\ \A id \in DOMAIN graph : RowOf(id) = graph[id].row
    BY Loaded
  <2>2. AllVectors = VectorsIn(build)
    BY Links
  <2>3. {graph[id] : id \in DOMAIN graph} = VectorsIn(build)
    BY <2>1 DEF GraphOK, InGraph
  <2>4. FoundOK
    BY DEF IInv
  <2> QED
    BY <2>1, <2>2, <2>3, <2>4 DEF FindsItsDocs, FoundOK
<1> QED
  BY <1>1, Inductive, PTL
=============================================================================
