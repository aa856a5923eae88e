--------------------------- MODULE SIBuilderProofs ---------------------------
(***************************************************************************)
(* TLAPS proofs about SIBuilder, for any documents and sizes of runs,       *)
(* blocks and buffers: nothing of the documents is lost on its way to the   *)
(* index, which is searchable, describes its rows and is the inverse of the *)
(* documents.                                                               *)
(***************************************************************************)
EXTENDS SIBuilder, FiniteSetTheorems, FunctionTheorems, SequenceTheorems, WellFoundedInduction, TLAPS

(* The invariant. *)

Pairs == [value : Int, row : Nat]
Item == [value : Int, packing : {"ROW", "ROW_BLOCK", "ROW_BLOCKS_LIST"}, count : Nat,
         min : Nat, max : Nat, table : Seq(Nat \X Nat), pieces : Seq(Seq(Nat))]

Different(s) == \A i, j \in DOMAIN s : s[i] = s[j] => i = j
InOrder(s) == \A i, j \in DOMAIN s : i < j => ~Before(s[j], s[i])
Rising(s) == \A i, j \in DOMAIN s : i < j => s[i] < s[j]

\* What is left of run c.
Taken(c) == IF c \in DOMAIN read THEN read[c] ELSE 0
Left(c) == Taken(c) + 1 .. Len(runs[c])

\* The documents, and what of them is in memory and in runs.
CollectedFit ==
    /\ isFloat \in BOOLEAN /\ phase \in {"collect", "fill", "merge", "done"}
    /\ docs \in Seq(Doc) /\ Len(docs) <= MaxDocs
    /\ ~isFloat => \A i \in DOMAIN docs : docs[i] \notin Vector
    /\ rows \in Seq(Pairs) /\ runs \in Seq(Seq(Pairs))
    /\ \A i \in DOMAIN rows : rows[i].row < Len(docs)
    /\ \A c \in DOMAIN runs : runs[c] # << >> /\ InOrder(runs[c])
    /\ ~isFloat => Different(rows) /\ \A c \in DOMAIN runs : Different(runs[c])
    /\ IF phase = "collect" THEN read = << >>
       ELSE /\ rows = << >> /\ read \in [DOMAIN runs -> Nat]
            /\ \A c \in DOMAIN runs : read[c] <= Len(runs[c])

\* The rows of a value in the writer are those from its start to the next.
RowsAt(item) == [k \in 1 .. RowCount(item) |-> wRows[wRowStart[item] + k]]

WriterFits ==
    /\ wValues \in Seq(Int) /\ wRowStart \in Seq(Nat) /\ wRows \in Seq(Nat)
    /\ Len(wRowStart) = Len(wValues) /\ Len(wValues) <= ValuesPerBlock
    /\ Rising(wRowStart) /\ \A i \in DOMAIN wRowStart : wRowStart[i] < Len(wRows)
    /\ Rising(wValues)
    /\ ~isFloat => \A i \in DOMAIN wValues : Rising(RowsAt(i))

\* An item of the index says what its rows are.
Described(item) ==
    /\ RowsOf(item) \in Seq(Nat) /\ RowsOf(item) # << >>
    /\ item.count = Len(RowsOf(item))
    /\ item.min = RowsOf(item)[1] /\ item.max = Last(RowsOf(item))
    /\ item.packing = "ROW_BLOCKS_LIST" =>
          item.table = [k \in DOMAIN item.pieces |-> <<item.pieces[k][1], Last(item.pieces[k])>>]
    /\ ~isFloat => Rising(RowsOf(item))

IndexFits ==
    /\ index \in Seq(Seq(Item)) /\ totalValues = Len(Items)
    /\ \A b \in DOMAIN index :
          IF b < Len(index) \/ phase # "done" THEN Len(index[b]) = ValuesPerBlock ELSE index[b] # << >>
    /\ \A i \in DOMAIN Items : Described(Items[i])
    /\ \A i, j \in DOMAIN Items : i < j => Items[i].value < Items[j].value
    /\ wValues # << >> => \A i \in DOMAIN Items : Items[i].value < wValues[1]

\* What is still to merge comes after what was merged last.
MergeFits ==
    /\ phase \in {"collect", "fill"} => wValues = << >> /\ wRowStart = << >> /\ wRows = << >> /\ index = << >>
    /\ phase = "merge" /\ wValues = << >> => runs = << >> /\ index = << >>
    /\ phase = "merge" /\ wValues # << >> =>
          \A c \in DOMAIN runs : \A i \in Left(c) :
              /\ runs[c][i].value >= wValues[Len(wValues)]
              /\ ~isFloat => Before(Pair(wValues[Len(wValues)], wRows[Len(wRows)]), runs[c][i])
    /\ phase = "done" => wValues = << >> /\ Unread = {}

\* Every pair of a value and a row is where it should be.
PairsOfDocs == UNION {{Pair(docs[i][k], i - 1) : k \in DOMAIN docs[i]} : i \in DOMAIN docs}
PairsLeft == UNION {{runs[c][i] : i \in Left(c)} : c \in DOMAIN runs}
PairsWritten == UNION {{Pair(wValues[i], RowsAt(i)[k]) : k \in DOMAIN RowsAt(i)} : i \in DOMAIN wValues}
PairsOf(items) ==
    UNION {{Pair(items[i].value, RowsOf(items[i])[k]) : k \in DOMAIN RowsOf(items[i])} : i \in DOMAIN items}
PairsIndexed == PairsOf(Items)

PairsKept ==
    ~isFloat => ToSet(rows) \cup PairsLeft \cup PairsWritten \cup PairsIndexed = PairsOfDocs

IInv == CollectedFit /\ WriterFits /\ IndexFits /\ MergeFits /\ PairsKept

-----------------------------------------------------------------------------
(* Numbers and sequences. *)

\* Any set of natural numbers that is not empty has a least one.
LEMMA LeastNatural ==
    ASSUME NEW T, T \subseteq Nat, T # {}
    PROVE  \E m \in T : \A k \in T : m <= k
<1>1. IsWellFoundedOn(OpToRel(<, Nat), Nat)
  BY NatLessThanWellFounded
<1>2. PICK m \in T : \A k \in T : ~ (<<k, m>> \in OpToRel(<, Nat))
  BY <1>1, WFMin
<1>3. \A k \in T : ~ (k < m)
  BY <1>2 DEF OpToRel
<1> QED
  BY <1>3

\* FlattenSeq joins one sequence after the other: f[i] is the first i of s joined.
IsJoin(f, n, s) == f = [i \in 1 .. n |-> IF i = 1 THEN s[i] ELSE f[i - 1] \o s[i]]

\* One sequence more is joined.
LEMMA JoinExtends ==
    ASSUME NEW k \in Nat \ {0}, NEW s, NEW f, IsJoin(f, k - 1, s)
    PROVE  \E g : IsJoin(g, k, s)
<1> DEFINE More(h, i) == IF i = 1 THEN s[i] ELSE h[i - 1] \o s[i]
           last == More(f, k)
           g == [i \in 1 .. k |-> IF i < k THEN f[i] ELSE last]
<1>1. \A i \in 1 .. k - 1 : f[i] = More(f, i)
  <2>1. f = [i \in 1 .. k - 1 |-> More(f, i)]
    BY DEF IsJoin
  <2> HIDE DEF More
  <2> QED
    BY <2>1
<1>2. \A i \in 1 .. k : i = 1 \/ f[i - 1] = g[i - 1] => More(g, i) = More(f, i)
  <2> HIDE DEF g
  <2> QED
    BY Zenon
<1> HIDE DEF More
<1>3. \A i \in 1 .. k : g[i] = More(g, i)
  <2> SUFFICES ASSUME NEW i \in 1 .. k PROVE g[i] = More(g, i)
    OBVIOUS
  <2>1. i = 1 \/ f[i - 1] = g[i - 1]
    OBVIOUS
  <2>2. More(g, i) = More(f, i)
    BY <1>2, <2>1
  <2>3. CASE i < k
    BY <1>1, <2>2, <2>3
  <2>4. CASE i = k
    BY <2>2, <2>4
  <2> QED
    BY <2>3, <2>4
<1>4. g = [i \in 1 .. k |-> More(g, i)]
  BY <1>3
<1>5. IsJoin(g, k, s)
  BY <1>4, Zenon DEF IsJoin, More
<1> QED
  BY <1>5, Zenon

\* There is such a function for any number of sequences.
LEMMA JoinExists ==
    ASSUME NEW n \in Nat, NEW s
    PROVE  \E f : IsJoin(f, n, s)
<1> DEFINE T == {k \in Nat : ~ \E f : IsJoin(f, k, s)}
<1>1. T = {}
  <2> SUFFICES ASSUME T # {} PROVE FALSE
    OBVIOUS
  <2>1. PICK m \in T : \A k \in T : m <= k
    <3>1. T \subseteq Nat
      OBVIOUS
    <3> HIDE DEF T
    <3> QED
      BY <3>1, LeastNatural
  <2>2. m # 0
    <3>1. IsJoin([i \in 1 .. 0 |-> 0], 0, s)
      BY DEF IsJoin
    <3> QED
      BY <2>1, <3>1
  <2>3. m - 1 \in Nat /\ m - 1 \notin T
    BY <2>1, <2>2
  <2>4. PICK f : IsJoin(f, m - 1, s)
    BY <2>3
  <2>5. \E g : IsJoin(g, m, s)
    BY <2>1, <2>2, <2>4, JoinExtends
  <2> QED
    BY <2>1, <2>5
<1> QED
  BY <1>1

\* Each of its values follows from the one before it.
LEMMA JoinAt ==
    ASSUME NEW n \in Nat, NEW s, NEW f, IsJoin(f, n, s), NEW i \in 1 .. n
    PROVE  f[i] = IF i = 1 THEN s[i] ELSE f[i - 1] \o s[i]
<1> DEFINE More(j) == IF j = 1 THEN s[j] ELSE f[j - 1] \o s[j]
<1>1. f = [j \in 1 .. n |-> More(j)]
  BY DEF IsJoin
<1>2. f[i] = More(i)
  <2> HIDE DEF More
  <2> QED
    BY <1>1
<1> QED
  BY <1>2

\* Sequences with the same beginning are joined alike.
LEMMA JoinSame ==
    ASSUME NEW n \in Nat, NEW m \in Nat, NEW s, NEW t, NEW f, NEW g, n <= m,
           IsJoin(f, n, s), IsJoin(g, m, t), \A i \in 1 .. n : s[i] = t[i]
    PROVE  \A i \in 1 .. n : f[i] = g[i]
<1> DEFINE T == {i \in 1 .. n : f[i] # g[i]}
<1>1. T = {}
  <2> SUFFICES ASSUME T # {} PROVE FALSE
    OBVIOUS
  <2>1. PICK i \in T : \A k \in T : i <= k
    <3>1. T \subseteq Nat
      OBVIOUS
    <3> HIDE DEF T
    <3> QED
      BY <3>1, LeastNatural
  <2>2. i \in 1 .. n /\ i \in 1 .. m /\ s[i] = t[i]
    BY <2>1
  <2>3. f[i] = (IF i = 1 THEN s[i] ELSE f[i - 1] \o s[i])
    BY <2>2, JoinAt
  <2>4. g[i] = (IF i = 1 THEN t[i] ELSE g[i - 1] \o t[i])
    BY <2>2, JoinAt
  <2>5. i # 1 => f[i - 1] = g[i - 1]
    <3> SUFFICES ASSUME i # 1 PROVE i - 1 \in 1 .. n /\ i - 1 \notin T
      OBVIOUS
    <3> QED
      BY <2>1, <2>2
  <2>6. f[i] = g[i]
    BY <2>2, <2>3, <2>4, <2>5
  <2> QED
    BY <2>1, <2>6
<1> QED
  BY <1>1

\* It joins sequences of T into a sequence of T.
LEMMA JoinType ==
    ASSUME NEW T, NEW s \in Seq(Seq(T)), NEW f, IsJoin(f, Len(s), s)
    PROVE  \A i \in 1 .. Len(s) : f[i] \in Seq(T)
<1> DEFINE U == {i \in 1 .. Len(s) : f[i] \notin Seq(T)}
<1>1. U = {}
  <2> SUFFICES ASSUME U # {} PROVE FALSE
    OBVIOUS
  <2>1. PICK i \in U : \A k \in U : i <= k
    <3>1. U \subseteq Nat
      OBVIOUS
    <3> HIDE DEF U
    <3> QED
      BY <3>1, LeastNatural
  <2>2. i \in 1 .. Len(s) /\ s[i] \in Seq(T) /\ Len(s) \in Nat
    BY <2>1
  <2>3. f[i] = (IF i = 1 THEN s[i] ELSE f[i - 1] \o s[i])
    BY <2>2, JoinAt
  <2>4. i # 1 => f[i - 1] \in Seq(T)
    <3> SUFFICES ASSUME i # 1 PROVE i - 1 \in 1 .. Len(s) /\ i - 1 \notin U
      OBVIOUS
    <3> QED
      BY <2>1, <2>2
  <2>5. f[i] \in Seq(T)
    BY <2>2, <2>3, <2>4, ConcatProperties
  <2> QED
    BY <2>1, <2>5
<1> QED
  BY <1>1

\* FlattenSeq is the last of its values.
LEMMA FlattenIs ==
    ASSUME NEW T, NEW s \in Seq(Seq(T)), s # << >>
    PROVE  \E f : IsJoin(f, Len(s), s) /\ FlattenSeq(s) = f[Len(s)]
<1>1. Len(s) \in Nat /\ Len(s) # 0
  OBVIOUS
<1> DEFINE f == CHOOSE g : IsJoin(g, Len(s), s)
<1>2. IsJoin(f, Len(s), s)
  BY <1>1, JoinExists
<1>3. FlattenSeq(s) = f[Len(s)]
  BY <1>1, Zenon DEF FlattenSeq, IsJoin
<1> HIDE DEF f
<1> QED
  BY <1>2, <1>3

\* FlattenSeq joins sequences of T into a sequence of T.
LEMMA FlattenType ==
    ASSUME NEW T, NEW s \in Seq(Seq(T))
    PROVE  FlattenSeq(s) \in Seq(T)
<1>1. CASE s = << >>
  BY <1>1 DEF FlattenSeq
<1>2. CASE s # << >>
  <2>1. PICK f : IsJoin(f, Len(s), s) /\ FlattenSeq(s) = f[Len(s)]
    BY <1>2, FlattenIs
  <2>2. Len(s) \in 1 .. Len(s)
    BY <1>2
  <2> QED
    BY <2>1, <2>2, JoinType
<1> QED
  BY <1>1, <1>2

\* What is appended to a sequence of sequences comes last in what they are joined to.
LEMMA FlattenAppend ==
    ASSUME NEW T, NEW s \in Seq(Seq(T)), NEW x \in Seq(T)
    PROVE  FlattenSeq(Append(s, x)) = FlattenSeq(s) \o x
<1> DEFINE t == Append(s, x)
           n == Len(s)
           m == Len(t)
<1>1. /\ t \in Seq(Seq(T)) /\ n \in Nat /\ m = n + 1 /\ t # << >>
      /\ t[m] = x /\ \A i \in 1 .. n : t[i] = s[i]
  <2>1. n \in Nat /\ t \in Seq(Seq(T)) /\ m = n + 1
    BY AppendProperties
  <2>2. t[m] = x /\ \A i \in 1 .. n : t[i] = s[i]
    BY AppendProperties
  <2>3. t # << >>
    BY <2>1
  <2> QED
    BY <2>1, <2>2, <2>3
<1> HIDE DEF t
<1>2. PICK g : IsJoin(g, m, t) /\ FlattenSeq(t) = g[m]
  BY <1>1, FlattenIs
<1>3. m \in Nat /\ m \in 1 .. m /\ n <= m
  BY <1>1
<1> HIDE DEF n, m
<1>4. g[m] = (IF m = 1 THEN t[m] ELSE g[m - 1] \o t[m])
  BY <1>2, <1>3, JoinAt
<1>5. CASE s = << >>
  <2>1. n = 0 /\ FlattenSeq(s) = << >>
    BY <1>5 DEF FlattenSeq, n
  <2>2. FlattenSeq(t) = x
    BY <1>1, <1>2, <1>4, <2>1
  <2> QED
    BY <2>1, <2>2, ConcatEmptySeq DEF t
<1>6. CASE s # << >>
  <2>1. PICK f : IsJoin(f, n, s) /\ FlattenSeq(s) = f[n]
    BY <1>6, FlattenIs DEF n
  <2>2. n \in 1 .. n /\ n # 0
    BY <1>1, <1>6 DEF n
  <2>3. \A i \in 1 .. n : f[i] = g[i]
    <3>1. \A i \in 1 .. n : s[i] = t[i]
      BY <1>1
    <3>2. \A k \in Nat, l \in Nat :
            /\ k <= l /\ (\A i \in 1 .. k : s[i] = t[i])
            /\ IsJoin(f, k, s) /\ IsJoin(g, l, t)
            => \A i \in 1 .. k : f[i] = g[i]
      BY JoinSame
    <3> QED
      BY <1>1, <1>2, <1>3, <2>1, <3>1, <3>2
  <2>4. g[m] = g[n] \o x
    BY <1>1, <1>4, <2>2
  <2> QED
    BY <1>2, <2>1, <2>2, <2>3, <2>4 DEF t
<1> QED
  BY <1>5, <1>6

-----------------------------------------------------------------------------
(* Sorting. *)

\* Before is a strict order of pairs, in which any two different ones can be compared.
LEMMA BeforeOrders ==
    ASSUME NEW a \in Pairs, NEW b \in Pairs, NEW c \in Pairs
    PROVE  /\ ~Before(a, a)
           /\ Before(a, b) => ~Before(b, a)
           /\ Before(a, b) /\ Before(b, c) => Before(a, c)
           /\ ~Before(b, a) /\ Before(b, c) => Before(a, c)
           /\ Before(a, b) /\ ~Before(c, b) => Before(a, c)
           /\ a = b \/ Before(a, b) \/ Before(b, a)
<1>1. /\ a.value \in Int /\ b.value \in Int /\ c.value \in Int
      /\ a.row \in Nat /\ b.row \in Nat /\ c.row \in Nat
  BY DEF Pairs
<1>2. a.value = b.value /\ a.row = b.row => a = b
  BY DEF Pairs
<1> QED
  BY <1>1, <1>2 DEF Before

\* An order of the first n pairs of s.
Orders(p, n, s) ==
    /\ p \in [1 .. n -> 1 .. n]
    /\ \A i, j \in 1 .. n : p[i] = p[j] => i = j
    /\ \A k \in 1 .. n : \E i \in 1 .. n : p[i] = k
    /\ \A i, j \in 1 .. n : i < j => ~Before(s[p[j]], s[p[i]])

\* One pair more is inserted before the first that comes after it.
LEMMA OrderExtends ==
    ASSUME NEW s \in Seq(Pairs), NEW n \in Nat, n + 1 <= Len(s), NEW p, Orders(p, n, s)
    PROVE  \E q : Orders(q, n + 1, s)
<1> DEFINE e == s[n + 1]
           Later == {i \in 1 .. n : Before(e, s[p[i]])} \cup {n + 1}
<1>1. PICK at \in Later : \A k \in Later : at <= k
  <2>1. Later \subseteq Nat /\ Later # {}
    OBVIOUS
  <2> HIDE DEF Later
  <2> QED
    BY <2>1, LeastNatural
<1> DEFINE q == [i \in 1 .. n + 1 |-> IF i < at THEN p[i] ELSE IF i = at THEN n + 1 ELSE p[i - 1]]
<1>2. at \in 1 .. n + 1 /\ (at # n + 1 => Before(e, s[p[at]]))
  BY <1>1
<1>3. \A i \in 1 .. n : i < at => ~Before(e, s[p[i]])
  BY <1>1
<1>4. /\ p \in [1 .. n -> 1 .. n]
      /\ \A i, j \in 1 .. n : p[i] = p[j] => i = j
      /\ \A k \in 1 .. n : \E i \in 1 .. n : p[i] = k
      /\ \A i, j \in 1 .. n : i < j => ~Before(s[p[j]], s[p[i]])
  BY DEF Orders
<1>5. e \in Pairs /\ \A i \in 1 .. n : s[p[i]] \in Pairs
  <2>1. n + 1 \in 1 .. Len(s) /\ \A k \in 1 .. n : k \in 1 .. Len(s)
    OBVIOUS
  <2>2. \A k \in 1 .. Len(s) : s[k] \in Pairs
    OBVIOUS
  <2> QED
    BY <1>4, <2>1, <2>2
<1> HIDE DEF Later, e
<1>6. /\ \A i \in 1 .. n + 1 : i < at => q[i] = p[i] /\ i \in 1 .. n
      /\ q[at] = n + 1
      /\ \A i \in 1 .. n + 1 : i > at => q[i] = p[i - 1] /\ i - 1 \in 1 .. n
  BY <1>2
<1>7. q \in [1 .. n + 1 -> 1 .. n + 1]
  <2>1. \A k \in 1 .. n : k \in 1 .. n + 1
    OBVIOUS
  <2>2. ASSUME NEW i \in 1 .. n + 1 PROVE q[i] \in 1 .. n + 1
    <3>1. n + 1 \in 1 .. n + 1
      OBVIOUS
    <3>2. CASE i < at
      BY <1>4, <1>6, <2>1, <3>2
    <3>3. CASE i = at
      BY <1>6, <3>1, <3>3
    <3>4. CASE i > at
      BY <1>4, <1>6, <2>1, <3>4
    <3> QED
      BY <1>2, <3>2, <3>3, <3>4
  <2> QED
    BY <2>2
<1> HIDE DEF q
<1>8. \A i, j \in 1 .. n + 1 : q[i] = q[j] => i = j
  <2>1. ASSUME NEW i \in 1 .. n + 1, NEW j \in 1 .. n + 1, i < j, q[i] = q[j] PROVE FALSE
    <3>1. \A k \in 1 .. n : p[k] # n + 1
      BY <1>4
    <3>2. CASE j < at
      <4>1. i < at /\ q[i] = p[i] /\ q[j] = p[j] /\ i \in 1 .. n /\ j \in 1 .. n
        BY <1>2, <1>6, <2>1, <3>2
      <4>2. p[i] = p[j]
        BY <2>1, <4>1, Zenon
      <4>3. i # j
        BY <2>1
      <4> QED
        BY <1>4, <4>1, <4>2, <4>3
    <3>3. CASE j = at
      BY <1>6, <2>1, <3>1, <3>3
    <3>4. CASE j > at /\ i < at
      <4>1. q[i] = p[i] /\ q[j] = p[j - 1] /\ i \in 1 .. n /\ j - 1 \in 1 .. n /\ i < j - 1
        BY <1>2, <1>6, <2>1, <3>4
      <4>2. p[i] = p[j - 1]
        BY <2>1, <4>1, Zenon
      <4>3. i # j - 1
        BY <4>1
      <4> QED
        BY <1>4, <4>1, <4>2, <4>3
    <3>5. CASE i = at
      BY <1>6, <2>1, <3>1, <3>5
    <3>6. CASE i > at
      <4>1. /\ q[i] = p[i - 1] /\ q[j] = p[j - 1] /\ i - 1 \in 1 .. n /\ j - 1 \in 1 .. n
            /\ i - 1 < j - 1
        BY <1>2, <1>6, <2>1, <3>6
      <4>2. p[i - 1] = p[j - 1]
        BY <2>1, <4>1, Zenon
      <4>3. i - 1 # j - 1
        BY <2>1
      <4> QED
        BY <1>4, <4>1, <4>2, <4>3
    <3> QED
      BY <1>2, <3>2, <3>3, <3>4, <3>5, <3>6
  <2> QED
    BY <2>1
<1>9. \A k \in 1 .. n + 1 : \E i \in 1 .. n + 1 : q[i] = k
  <2> SUFFICES ASSUME NEW k \in 1 .. n + 1 PROVE \E i \in 1 .. n + 1 : q[i] = k
    OBVIOUS
  <2>1. CASE k = n + 1
    BY <1>2, <1>6, <2>1
  <2>2. CASE k # n + 1
    <3>1. PICK i \in 1 .. n : p[i] = k
      BY <1>4, <2>2
    <3>2. CASE i < at
      <4>1. i \in 1 .. n + 1
        OBVIOUS
      <4> QED
        BY <1>6, <3>1, <3>2, <4>1
    <3>3. CASE ~(i < at)
      <4>1. i + 1 \in 1 .. n + 1 /\ i + 1 > at /\ i + 1 - 1 = i
        BY <1>2, <3>3
      <4> QED
        BY <1>6, <3>1, <4>1
    <3> QED
      BY <3>2, <3>3
  <2> QED
    BY <2>1, <2>2
<1>10. \A i, j \in 1 .. n + 1 : i < j => ~Before(s[q[j]], s[q[i]])
  <2> SUFFICES ASSUME NEW i \in 1 .. n + 1, NEW j \in 1 .. n + 1, i < j
               PROVE  ~Before(s[q[j]], s[q[i]])
    OBVIOUS
  <2>1. CASE j < at
    <3>1. q[i] = p[i] /\ q[j] = p[j] /\ i \in 1 .. n /\ j \in 1 .. n
      BY <1>2, <1>6, <2>1
    <3> QED
      BY <1>4, <3>1
  <2>2. CASE j = at
    <3>1. s[q[j]] = e /\ q[i] = p[i] /\ i \in 1 .. n /\ i < at
      BY <1>6, <2>2 DEF e
    <3> QED
      BY <1>3, <3>1
  <2>3. CASE j > at /\ i < at
    <3>1. q[i] = p[i] /\ q[j] = p[j - 1] /\ i \in 1 .. n /\ j - 1 \in 1 .. n /\ i < j - 1
      BY <1>2, <1>6, <2>3
    <3> QED
      BY <1>4, <3>1
  <2>4. CASE i = at
    <3>1. s[q[i]] = e /\ q[j] = p[j - 1] /\ j - 1 \in 1 .. n /\ at <= j - 1 /\ at \in 1 .. n
      BY <1>2, <1>6, <2>4 DEF e
    <3>2. Before(e, s[p[at]])
      BY <1>2, <3>1
    <3>3. at = j - 1 \/ ~Before(s[p[j - 1]], s[p[at]])
      BY <1>4, <3>1
    <3>4. Before(e, s[p[j - 1]])
      BY <1>5, <3>1, <3>2, <3>3, BeforeOrders
    <3> QED
      BY <1>5, <3>1, <3>4, BeforeOrders
  <2>5. CASE i > at
    <3>1. /\ q[i] = p[i - 1] /\ q[j] = p[j - 1] /\ i - 1 \in 1 .. n /\ j - 1 \in 1 .. n
          /\ i - 1 < j - 1
      BY <1>2, <1>6, <2>5
    <3> QED
      BY <1>4, <3>1
  <2> QED
    BY <1>2, <2>1, <2>2, <2>3, <2>4, <2>5
<1>11. Orders(q, n + 1, s)
  BY <1>7, <1>8, <1>9, <1>10, Zenon DEF Orders
<1> QED
  BY <1>11

\* Any sequence of pairs has an order.
LEMMA OrderExists ==
    ASSUME NEW s \in Seq(Pairs)
    PROVE  \E p : Orders(p, Len(s), s)
<1> DEFINE T == {k \in 0 .. Len(s) : ~ \E p : Orders(p, k, s)}
<1>1. T = {}
  <2> SUFFICES ASSUME T # {} PROVE FALSE
    OBVIOUS
  <2>1. PICK m \in T : \A k \in T : m <= k
    <3>1. T \subseteq Nat
      OBVIOUS
    <3> HIDE DEF T
    <3> QED
      BY <3>1, LeastNatural
  <2>2. m # 0
    <3>1. Orders([i \in 1 .. 0 |-> 0], 0, s)
      BY DEF Orders
    <3> QED
      BY <2>1, <3>1
  <2>3. m - 1 \in Nat /\ m - 1 \in 0 .. Len(s) /\ m - 1 \notin T /\ m - 1 + 1 = m /\ m <= Len(s)
    BY <2>1, <2>2
  <2>4. PICK p : Orders(p, m - 1, s)
    BY <2>3
  <2>5. \E q : Orders(q, m - 1 + 1, s)
    BY <2>3, <2>4, OrderExtends
  <2> QED
    BY <2>1, <2>3, <2>5
<1>2. Len(s) \in 0 .. Len(s)
  OBVIOUS
<1> QED
  BY <1>1, <1>2

\* Sorted puts the pairs in an order.
LEMMA SortedOrder ==
    ASSUME NEW s \in Seq(Pairs)
    PROVE  \E o \in [DOMAIN s -> DOMAIN s] :
              /\ \A i, j \in DOMAIN s : o[i] = o[j] => i = j
              /\ \A k \in DOMAIN s : \E i \in DOMAIN s : o[i] = k
              /\ \A i, j \in DOMAIN s : i < j => ~Before(s[o[j]], s[o[i]])
              /\ Sorted(s) = [i \in DOMAIN s |-> s[o[i]]]
<1> DEFINE n == Len(s)
           Fits(p) == /\ p \in Bijection(DOMAIN s, DOMAIN s)
                      /\ \A i, j \in DOMAIN s : i < j => ~Before(s[p[j]], s[p[i]])
           o == CHOOSE p : Fits(p)
<1>1. n \in Nat /\ DOMAIN s = 1 .. n
  OBVIOUS
<1>2. PICK p : Orders(p, n, s)
  BY OrderExists
<1>3. Fits(p)
  BY <1>1, <1>2, Zenon DEF Orders, Bijection, Injection, Surjection, IsInjective
<1>4. Fits(o)
  <2> HIDE DEF Fits
  <2> QED
    BY <1>3
<1>5. Sorted(s) = [i \in DOMAIN s |-> s[o[i]]]
  <2>1. o = CHOOSE q \in Bijection(DOMAIN s, DOMAIN s) :
                \A i, j \in DOMAIN s : i < j => ~Before(s[q[j]], s[q[i]])
    BY Zenon
  <2> QED
    BY <2>1 DEF Sorted
<1> HIDE DEF o, n
<1>6. /\ o \in [DOMAIN s -> DOMAIN s]
      /\ \A i, j \in DOMAIN s : o[i] = o[j] => i = j
      /\ \A k \in DOMAIN s : \E i \in DOMAIN s : o[i] = k
      /\ \A i, j \in DOMAIN s : i < j => ~Before(s[o[j]], s[o[i]])
  BY <1>1, <1>4 DEF Bijection, Injection, Surjection, IsInjective
<1> QED
  BY <1>5, <1>6

\* A run has the pairs that were in memory, in order.
LEMMA SortedIs ==
    ASSUME NEW s \in Seq(Pairs)
    PROVE  /\ Sorted(s) \in Seq(Pairs) /\ Len(Sorted(s)) = Len(s)
           /\ InOrder(Sorted(s)) /\ ToSet(Sorted(s)) = ToSet(s)
           /\ Different(s) => Different(Sorted(s))
<1> DEFINE n == Len(s)
<1>1. n \in Nat /\ DOMAIN s = 1 .. n
  OBVIOUS
<1>2. PICK o \in [DOMAIN s -> DOMAIN s] :
              /\ \A i, j \in DOMAIN s : o[i] = o[j] => i = j
              /\ \A k \in DOMAIN s : \E i \in DOMAIN s : o[i] = k
              /\ \A i, j \in DOMAIN s : i < j => ~Before(s[o[j]], s[o[i]])
              /\ Sorted(s) = [i \in DOMAIN s |-> s[o[i]]]
  BY SortedOrder
<1> HIDE DEF n
<1>3. Sorted(s) = [i \in 1 .. n |-> s[o[i]]]
  BY <1>1, <1>2
<1>4. /\ o \in [1 .. n -> 1 .. n]
      /\ \A i, j \in 1 .. n : o[i] = o[j] => i = j
      /\ \A k \in 1 .. n : \E i \in 1 .. n : o[i] = k
      /\ \A i, j \in 1 .. n : i < j => ~Before(s[o[j]], s[o[i]])
  BY <1>1, <1>2
<1> DEFINE t == Sorted(s)
<1>5. t \in Seq(Pairs) /\ Len(t) = n /\ DOMAIN t = 1 .. n /\ \A i \in 1 .. n : t[i] = s[o[i]]
  <2>1. \A i \in 1 .. n : s[o[i]] \in Pairs
    BY <1>1, <1>4
  <2> QED
    BY <1>1, <1>3, <2>1
<1> HIDE DEF t
<1>6. InOrder(t)
  <2>1. ASSUME NEW i \in 1 .. n, NEW j \in 1 .. n, i < j PROVE ~Before(t[j], t[i])
    <3>1. t[i] = s[o[i]] /\ t[j] = s[o[j]]
      BY <1>5
    <3> QED
      BY <1>4, <2>1, <3>1
  <2> QED
    BY <1>5, <2>1 DEF InOrder
<1>7. ToSet(t) = ToSet(s)
  BY <1>1, <1>4, <1>5 DEF ToSet
<1>8. Different(s) => Different(t)
  BY <1>1, <1>4, <1>5 DEF Different
<1> QED
  BY <1>5, <1>6, <1>7, <1>8 DEF t, n

-----------------------------------------------------------------------------
(* The pieces of the rows of a value. *)

\* Multiples are as far apart as their factors.
LEMMA MultiplesApart ==
    ASSUME NEW k \in Nat, NEW b \in Nat, NEW c \in Nat, b < c
    PROVE  b * k \in Nat /\ c * k \in Nat /\ b * k + k <= c * k
<1>1. \A d \in Nat : b * k + k <= (b + 1 + d) * k
  OBVIOUS
<1>2. c - b - 1 \in Nat /\ c = b + 1 + (c - b - 1)
  OBVIOUS
<1>3. b * k + k <= (b + 1 + (c - b - 1)) * k
  BY <1>1, <1>2
<1> QED
  BY <1>2, <1>3

\* A number lies between the multiples its quotient names.
LEMMA Quotient ==
    ASSUME NEW a \in Nat, NEW d \in Nat \ {0}
    PROVE  /\ a \div d \in Nat
           /\ (a \div d) * d \in Nat
           /\ (a \div d) * d <= a /\ a < (a \div d) * d + d
<1>1. a \div d \in Int /\ a % d \in 0 .. d - 1 /\ a = d * (a \div d) + (a % d)
  OBVIOUS
<1>2. a \div d \in Nat
  <2> SUFFICES ASSUME a \div d < 0 PROVE FALSE
    BY <1>1
  <2> DEFINE q == a \div d
             m == -q - 1
  <2>1. m \in Nat /\ q = -(m + 1)
    BY <1>1
  <2> HIDE DEF q, m
  <2>2. d * (-(m + 1)) <= -d
    <3>1. \A x \in Nat : d * (-(x + 1)) <= -d
      OBVIOUS
    <3> QED
      BY <2>1, <3>1
  <2>3. d * q <= -d
    BY <2>1, <2>2
  <2> QED
    BY <1>1, <2>3 DEF q
<1>3. d * (a \div d) = (a \div d) * d /\ (a \div d) * d \in Nat
  BY <1>2
<1> QED
  BY <1>1, <1>2, <1>3

\* Where piece k of count rows from start on ends.
PieceEnd(start, count, k) == IF k < PieceCount(count) THEN start + k * RowidsPerBlock ELSE start + count

\* Pieces follow one another and none is empty.
LEMMA PiecesFollow ==
    ASSUME NEW start \in Nat, NEW count \in Nat \ {0}
    PROVE  /\ PieceCount(count) \in Nat \ {0}
           /\ PieceEnd(start, count, 0) = start
           /\ PieceEnd(start, count, PieceCount(count)) = start + count
           /\ \A k \in 0 .. PieceCount(count) :
                 PieceEnd(start, count, k) \in start .. start + count
           /\ \A k \in 1 .. PieceCount(count) :
                 /\ PieceStart(start, k) = PieceEnd(start, count, k - 1)
                 /\ PieceLength(count, k) \in Nat \ {0}
                 /\ PieceStart(start, k) + PieceLength(count, k) = PieceEnd(start, count, k)
<1> DEFINE R == RowidsPerBlock
           n == PieceCount(count)
<1>1. R \in Nat \ {0}
  BY BuilderAssumption
<1> HIDE DEF R
<1>2. n \in Nat /\ n * R \in Nat /\ n * R <= count + R - 1 /\ count + R - 1 < n * R + R
  <2>1. count + R - 1 \in Nat
    BY <1>1
  <2> QED
    BY <1>1, <2>1, Quotient DEF PieceCount, R
<1> HIDE DEF n
<1>3. n # 0 /\ count <= n * R
  BY <1>1, <1>2
<1>4. \A k \in Nat : k < n => k * R \in Nat /\ k * R < count /\ k * R + R <= n * R
  <2> SUFFICES ASSUME NEW k \in Nat, k < n
               PROVE  k * R \in Nat /\ k * R < count /\ k * R + R <= n * R
    OBVIOUS
  <2>1. k * R \in Nat /\ k * R + R <= n * R
    BY <1>1, <1>2, MultiplesApart
  <2> QED
    BY <1>1, <1>2, <2>1
<1>5. \A k \in Nat : k + 1 < n => (k + 1) * R = k * R + R
  BY <1>1
<1> DEFINE End(k) == IF k < n THEN start + k * R ELSE start + count
<1>6. \A k : PieceEnd(start, count, k) = End(k)
  BY DEF PieceEnd, n, R
<1>7. End(0) = start /\ End(n) = start + count
  BY <1>1, <1>2, <1>3
<1>8. ASSUME NEW k \in 0 .. n PROVE End(k) \in start .. start + count
  BY <1>2, <1>4
<1>9. ASSUME NEW k \in 1 .. n
      PROVE  /\ PieceStart(start, k) = End(k - 1)
             /\ PieceLength(count, k) \in Nat \ {0}
             /\ PieceStart(start, k) + PieceLength(count, k) = End(k)
  <2>1. PICK j \in Nat : k = j + 1
    BY <1>2
  <2>2. j < n /\ j * R \in Nat /\ j * R < count
    BY <1>2, <1>4, <2>1
  <2>3. PieceStart(start, k) = start + j * R
    BY <2>1 DEF PieceStart, R
  <2>4. PieceLength(count, k) = IF j + 1 < n THEN R ELSE count - j * R
    BY <2>1 DEF PieceLength, R, n
  <2>5. End(k - 1) = start + j * R
    BY <2>1, <2>2
  <2>6. CASE j + 1 < n
    <3>1. (j + 1) * R = j * R + R
      BY <1>5, <2>6
    <3>2. End(k) = start + (j * R + R)
      BY <2>1, <2>6, <3>1
    <3>3. PieceLength(count, k) = R
      BY <2>4, <2>6
    <3> QED
      BY <1>1, <2>2, <2>3, <2>5, <3>2, <3>3
  <2>7. CASE ~(j + 1 < n)
    <3>1. End(k) = start + count
      BY <2>1, <2>7
    <3>2. PieceLength(count, k) = count - j * R
      BY <2>4, <2>7
    <3> QED
      BY <2>2, <2>3, <2>5, <3>1, <3>2
  <2> QED
    BY <2>6, <2>7
<1> HIDE DEF End
<1> QED
  BY <1>2, <1>3, <1>6, <1>7, <1>8, <1>9 DEF n

-----------------------------------------------------------------------------
(* Encoding in the buffer. *)

\* A buffer is what the rows were, past what has been encoded.
Cells == Nat \cup {Spoilt}
Keeps(buffer, w, at) ==
    /\ buffer \in Seq(Cells) /\ Len(buffer) = Len(w)
    /\ \A i \in 1 .. Len(w) : i > at => buffer[i] = w[i]

\* A piece is taken over whole, and what follows it stays.
Encoding(after, before, w, offset, count) ==
    /\ Keeps(after.buffer, w, offset + count)
    /\ after.pieces = Append(before.pieces, SubSeq(w, offset + 1, offset + count))
KeepsIn(state, w, at) == Keeps(state.buffer, w, at)

\* EncodeRowsBlock takes the rows at the offset as a piece: encoding in place
\* overwrites only what was read.
LEMMA PieceEncoded ==
    ASSUME NEW w \in Seq(Nat), NEW state, NEW offset \in Nat, NEW count \in Nat,
           KeepsIn(state, w, offset), offset + count <= Len(w)
    PROVE  Encoding(EncodeRowsBlock(state, offset, count), state, w, offset, count)
<1> DEFINE b == state.buffer
           n == Len(w)
           moved == offset % Align # 0
           c == IF moved THEN AtStart(b, offset, count) ELSE b
           from == IF moved THEN 0 ELSE offset
           d == SpoiltAt(c, from, count)
<1>1. n \in Nat /\ b \in Seq(Cells) /\ DOMAIN b = 1 .. n
  BY DEF Keeps, KeepsIn
<1>2. \A i \in 1 .. n : b[i] \in Cells /\ (i > offset => b[i] = w[i])
  BY <1>1 DEF Keeps, KeepsIn
<1>3. /\ EncodeRowsBlock(state, offset, count).buffer = d
      /\ EncodeRowsBlock(state, offset, count).pieces = Append(state.pieces, SubSeq(c, from + 1, from + count))
  BY DEF EncodeRowsBlock
<1> HIDE DEF b, n
<1>4. /\ offset + count <= n
      /\ \A i \in 1 .. count : offset + i \in 1 .. n
  BY DEF n
<1>9. from \in {0, offset}
  OBVIOUS
<1>5. /\ c \in Seq(Cells) /\ Len(c) = n
      /\ \A i \in 1 .. n : i > offset + count => c[i] = w[i]
      /\ \A i \in 1 .. count : c[from + i] = w[offset + i]
  <2>1. CASE moved
    <3>1. c = [i \in 1 .. n |-> IF i <= count THEN b[offset + i] ELSE b[i]]
      BY <1>1, <2>1 DEF AtStart
    <3>2. \A i \in 1 .. n : c[i] = IF i <= count THEN b[offset + i] ELSE b[i]
      BY <3>1
    <3>3. ASSUME NEW i \in 1 .. n PROVE c[i] \in Cells
      <4>1. i <= count => offset + i \in 1 .. n
        BY <1>1, <1>4
      <4> HIDE DEF c
      <4> QED
        BY <1>2, <3>2, <4>1
    <3>4. c \in Seq(Cells) /\ Len(c) = n
      <4>1. c = [i \in 1 .. n |-> c[i]]
        BY <3>1
      <4> HIDE DEF c
      <4> QED
        BY <1>1, <3>3, <4>1
    <3>5. \A i \in 1 .. n : i > offset + count => c[i] = w[i]
      BY <1>2, <3>2
    <3>6. ASSUME NEW i \in 1 .. count PROVE c[from + i] = w[offset + i]
      <4>1. from + i = i /\ i \in 1 .. n /\ i <= count /\ offset + i \in 1 .. n /\ offset + i > offset
        BY <1>1, <1>4, <2>1
      <4> QED
        BY <1>2, <3>2, <4>1
    <3> QED
      BY <3>4, <3>5, <3>6
  <2>2. CASE ~moved
    <3>1. c = b /\ from = offset
      BY <2>2
    <3>2. Len(b) = n
      BY <1>1
    <3>3. \A i \in 1 .. count : offset + i > offset
      OBVIOUS
    <3>4. \A i \in 1 .. count : offset + i \in 1 .. n
      BY <1>4, Zenon
    <3>5. \A i \in 1 .. count : b[offset + i] = w[offset + i]
      BY <1>2, <3>3, <3>4
    <3>6. \A i \in 1 .. n : i > offset + count => i > offset
      BY <1>1
    <3> HIDE DEF c, from
    <3> QED
      BY <1>1, <1>2, <3>1, <3>2, <3>5, <3>6
  <2> QED
    BY <2>1, <2>2
<1>6. from + count <= n
  BY <1>1, <1>4, <1>9
<1> HIDE DEF c, from
<1>7. Keeps(d, w, offset + count)
  <2>1. d = [i \in 1 .. n |-> IF from < i /\ i <= from + count THEN Spoilt ELSE c[i]]
    BY <1>1, <1>5 DEF SpoiltAt
  <2> HIDE DEF d
  <2>2. \A i \in 1 .. n : d[i] = IF from < i /\ i <= from + count THEN Spoilt ELSE c[i]
    BY <2>1
  <2>3. \A i \in 1 .. n : c[i] \in Cells
    BY <1>1, <1>5
  <2>4. \A i \in 1 .. n : d[i] \in Cells
    BY <2>2, <2>3 DEF Cells
  <2>5. d \in Seq(Cells) /\ Len(d) = n
    BY <1>1, <2>1, <2>4
  <2>6. ASSUME NEW i \in 1 .. n, i > offset + count PROVE d[i] = w[i]
    <3>1. i > from + count
      BY <1>1, <1>4, <1>9, <2>6
    <3> QED
      BY <1>1, <1>4, <1>9, <1>5, <2>2, <2>6, <3>1
  <2> QED
    BY <2>5, <2>6 DEF Keeps, n
<1>8. SubSeq(c, from + 1, from + count) = SubSeq(w, offset + 1, offset + count)
  <2>1. from \in Nat
    BY <1>9
  <2>2. SubSeq(c, from + 1, from + count) = [i \in 1 .. count |-> c[from + i]]
    <3>1. SubSeq(c, from + 1, from + count) = [i \in 1 .. (from + count - (from + 1) + 1) |-> c[from + 1 + i - 1]]
      BY <1>5, <2>1
    <3>2. from + count - (from + 1) + 1 = count /\ \A i \in 1 .. count : from + 1 + i - 1 = from + i
      BY <2>1
    <3> QED
      BY <3>1, <3>2
  <2>3. SubSeq(w, offset + 1, offset + count) = [i \in 1 .. count |-> w[offset + i]]
    <3>1. SubSeq(w, offset + 1, offset + count) = [i \in 1 .. (offset + count - (offset + 1) + 1) |-> w[offset + 1 + i - 1]]
      OBVIOUS
    <3>2. offset + count - (offset + 1) + 1 = count /\ \A i \in 1 .. count : offset + 1 + i - 1 = offset + i
      OBVIOUS
    <3> QED
      BY <3>1, <3>2
  <2> QED
    BY <1>5, <2>2, <2>3
<1> QED
  BY <1>3, <1>7, <1>8 DEF Encoding

\* EncodeRows: f[k] is what the first k pieces leave.
NoPieces(buffer) == [buffer |-> buffer, pieces |-> << >>]
IsEncoding(f, m, buffer, start, count) ==
    f = [k \in 0 .. m |-> IF k = 0 THEN [buffer |-> buffer, pieces |-> << >>]
                          ELSE EncodeRowsBlock(f[k - 1], PieceStart(start, k), PieceLength(count, k))]

\* One piece more is encoded.
LEMMA EncodingExtends ==
    ASSUME NEW m \in Nat \ {0}, NEW buffer, NEW start, NEW count, NEW f, IsEncoding(f, m - 1, buffer, start, count)
    PROVE  \E g : IsEncoding(g, m, buffer, start, count)
<1> DEFINE More(h, k) == IF k = 0 THEN [buffer |-> buffer, pieces |-> << >>]
                         ELSE EncodeRowsBlock(h[k - 1], PieceStart(start, k), PieceLength(count, k))
           last == More(f, m)
           g == [k \in 0 .. m |-> IF k < m THEN f[k] ELSE last]
<1>1. \A k \in 0 .. m - 1 : f[k] = More(f, k)
  <2>1. f = [k \in 0 .. m - 1 |-> More(f, k)]
    BY Zenon DEF IsEncoding
  <2> HIDE DEF More
  <2> QED
    BY <2>1
<1>2. \A k \in 0 .. m : k = 0 \/ f[k - 1] = g[k - 1] => More(g, k) = More(f, k)
  <2> HIDE DEF g
  <2> QED
    BY Zenon
<1> HIDE DEF More
<1>3. \A k \in 0 .. m : g[k] = More(g, k)
  <2> SUFFICES ASSUME NEW k \in 0 .. m PROVE g[k] = More(g, k)
    OBVIOUS
  <2>1. k = 0 \/ f[k - 1] = g[k - 1]
    OBVIOUS
  <2>2. More(g, k) = More(f, k)
    BY <1>2, <2>1
  <2>3. CASE k < m
    BY <1>1, <2>2, <2>3
  <2>4. CASE k = m
    BY <2>2, <2>4
  <2> QED
    BY <2>3, <2>4
<1>4. g = [k \in 0 .. m |-> More(g, k)]
  BY <1>3
<1>5. IsEncoding(g, m, buffer, start, count)
  BY <1>4, Zenon DEF IsEncoding, More
<1> QED
  BY <1>5, Zenon

\* Any number of pieces is encoded.
LEMMA EncodingExists ==
    ASSUME NEW n \in Nat, NEW buffer, NEW start, NEW count
    PROVE  \E f : IsEncoding(f, n, buffer, start, count)
<1> DEFINE T == {m \in Nat : ~ \E f : IsEncoding(f, m, buffer, start, count)}
<1>1. T = {}
  <2> SUFFICES ASSUME T # {} PROVE FALSE
    OBVIOUS
  <2>1. PICK m \in T : \A k \in T : m <= k
    <3>1. T \subseteq Nat
      OBVIOUS
    <3> HIDE DEF T
    <3> QED
      BY <3>1, LeastNatural
  <2>2. m # 0
    <3> DEFINE f == [k \in 0 .. 0 |-> [buffer |-> buffer, pieces |-> << >>]]
    <3>1. IsEncoding(f, 0, buffer, start, count)
      BY DEF IsEncoding
    <3> QED
      BY <2>1, <3>1
  <2>3. m - 1 \in Nat /\ m - 1 \notin T
    BY <2>1, <2>2
  <2>4. PICK f : IsEncoding(f, m - 1, buffer, start, count)
    BY <2>3
  <2>5. \E g : IsEncoding(g, m, buffer, start, count)
    BY <2>1, <2>2, <2>4, EncodingExtends
  <2> QED
    BY <2>1, <2>5
<1> QED
  BY <1>1

\* What EncodeRows leaves is what its last piece leaves.
Encodes(f, buffer, start, count) ==
    /\ EncodeRows(buffer, start, count) = f[PieceCount(count)]
    /\ f[0] = NoPieces(buffer)
    /\ \A k \in 1 .. PieceCount(count) :
          f[k] = EncodeRowsBlock(f[k - 1], PieceStart(start, k), PieceLength(count, k))

\* EncodeRows encodes the pieces one after the other.
LEMMA EncodeRowsIs ==
    ASSUME NEW buffer, NEW start \in Nat, NEW count \in Nat \ {0}
    PROVE  \E f : Encodes(f, buffer, start, count)
<1> DEFINE n == PieceCount(count)
           f == CHOOSE g : IsEncoding(g, n, buffer, start, count)
<1>1. n \in Nat
  BY PiecesFollow
<1>2. IsEncoding(f, n, buffer, start, count)
  BY <1>1, EncodingExists
<1>3. EncodeRows(buffer, start, count) = f[n]
  BY Zenon DEF EncodeRows, IsEncoding
<1> HIDE DEF f, n
<1> DEFINE More(k) == IF k = 0 THEN [buffer |-> buffer, pieces |-> << >>]
                      ELSE EncodeRowsBlock(f[k - 1], PieceStart(start, k), PieceLength(count, k))
<1>4. \A k \in 0 .. n : f[k] = More(k)
  <2>1. f = [k \in 0 .. n |-> More(k)]
    BY <1>2, Zenon DEF IsEncoding
  <2> HIDE DEF More
  <2> QED
    BY <2>1
<1>5. f[0] = NoPieces(buffer)
  <2>1. 0 \in 0 .. n
    BY <1>1
  <2> QED
    BY <1>4, <2>1, Zenon DEF NoPieces
<1>6. ASSUME NEW k \in 1 .. n
      PROVE  f[k] = EncodeRowsBlock(f[k - 1], PieceStart(start, k), PieceLength(count, k))
  <2>1. k \in 0 .. n /\ k # 0
    BY <1>1
  <2> QED
    BY <1>4, <2>1, Zenon
<1> QED
  BY <1>3, <1>5, <1>6 DEF n, Encodes

\* The pieces are those of the rows, one after the other.
LEMMA RowsEncoded ==
    ASSUME NEW w \in Seq(Nat), NEW buffer, NEW start \in Nat, NEW count \in Nat \ {0},
           Keeps(buffer, w, start), start + count <= Len(w)
    PROVE  /\ Keeps(EncodeRows(buffer, start, count).buffer, w, start + count)
           /\ EncodeRows(buffer, start, count).pieces
                 = [k \in 1 .. PieceCount(count) |->
                       SubSeq(w, PieceStart(start, k) + 1, PieceEnd(start, count, k))]
<1> DEFINE n == PieceCount(count)
           End(k) == PieceEnd(start, count, k)
           Piece(k) == SubSeq(w, PieceStart(start, k) + 1, End(k))
<1>1. /\ n \in Nat \ {0} /\ End(0) = start /\ End(n) = start + count
      /\ \A k \in 0 .. n : End(k) \in start .. start + count
      /\ \A k \in 1 .. n : /\ PieceStart(start, k) = End(k - 1)
                           /\ PieceLength(count, k) \in Nat \ {0}
                           /\ PieceStart(start, k) + PieceLength(count, k) = End(k)
  BY PiecesFollow
<1>8. PICK f : Encodes(f, buffer, start, count)
  BY EncodeRowsIs
<1>2. /\ EncodeRows(buffer, start, count) = f[n]
      /\ f[0] = NoPieces(buffer)
      /\ \A k \in 1 .. n :
            f[k] = EncodeRowsBlock(f[k - 1], PieceStart(start, k), PieceLength(count, k))
  BY <1>8 DEF Encodes
<1> HIDE DEF n, End, Piece
<1> DEFINE Reached(k) == /\ Keeps(f[k].buffer, w, End(k))
                         /\ f[k].pieces = [j \in 1 .. k |-> Piece(j)]
           T == {k \in 0 .. n : ~Reached(k)}
<1>6. Reached(0)
  <2>3. f[0].buffer = buffer /\ f[0].pieces = << >>
    BY <1>2 DEF NoPieces
  <2> QED
    BY <1>1, <2>3
<1>7. ASSUME NEW k \in 1 .. n, Reached(k - 1) PROVE Reached(k)
  <2> DEFINE at == PieceStart(start, k)
             len == PieceLength(count, k)
             g == f[k - 1]
  <2>1. f[k] = EncodeRowsBlock(g, at, len)
    BY <1>2
  <2>2. at = End(k - 1) /\ len \in Nat /\ at + len = End(k)
    BY <1>1
  <2> HIDE DEF at, len
  <2>3. at \in Nat /\ at + len <= Len(w)
    <3>1. k - 1 \in 0 .. n /\ k \in 0 .. n
      BY <1>1
    <3>2. End(k - 1) \in start .. start + count /\ End(k) \in start .. start + count
      BY <1>1, <3>1
    <3> QED
      BY <2>2, <3>2
  <2>4. Keeps(g.buffer, w, at) /\ g.pieces = [j \in 1 .. k - 1 |-> Piece(j)]
    BY <1>7, <2>2
  <2> HIDE DEF g
  <2>5. /\ Keeps(f[k].buffer, w, at + len)
        /\ f[k].pieces = Append(g.pieces, SubSeq(w, at + 1, at + len))
    <3>1. KeepsIn(g, w, at)
      BY <2>4 DEF KeepsIn
    <3>2. Encoding(EncodeRowsBlock(g, at, len), g, w, at, len)
      BY <2>2, <2>3, <3>1, PieceEncoded
    <3> QED
      BY <2>1, <3>2, Zenon DEF Encoding
  <2>6. f[k].pieces = [j \in 1 .. k |-> Piece(j)]
    <3>1. f[k].pieces = Append([j \in 1 .. k - 1 |-> Piece(j)], Piece(k))
      BY <2>2, <2>4, <2>5 DEF Piece, at
    <3>2. k \in Nat \ {0}
      BY <1>1
    <3>3. Append([j \in 1 .. k - 1 |-> Piece(j)], Piece(k)) = [j \in 1 .. k |-> Piece(j)]
      BY <3>2
    <3> QED
      BY <3>1, <3>3
  <2> QED
    BY <2>2, <2>5, <2>6
<1> HIDE DEF Reached
<1>4. T = {}
  <2> SUFFICES ASSUME T # {} PROVE FALSE
    OBVIOUS
  <2>1. PICK k \in T : \A j \in T : k <= j
    <3>1. T \subseteq Nat
      BY <1>1
    <3> HIDE DEF T
    <3> QED
      BY <3>1, LeastNatural
  <2>2. k \in 0 .. n /\ k # 0
    BY <1>6, <2>1
  <2>3. k - 1 \in 0 .. n /\ k \in 1 .. n /\ k - 1 \notin T
    BY <1>1, <2>1, <2>2
  <2>4. Reached(k)
    BY <1>7, <2>3
  <2> QED
    BY <2>1, <2>4
<1>5. Reached(n)
  <2>1. n \in Nat
    BY <1>1
  <2>2. n \in 0 .. n
    BY <2>1
  <2>3. n \in {k \in 0 .. n : ~Reached(k)} \/ Reached(n)
    BY <2>2, Zenon
  <2> QED
    BY <1>4, <2>3, Zenon
<1> QED
  BY <1>1, <1>2, <1>5, Zenon DEF Reached, n, Piece, End

-----------------------------------------------------------------------------
(* The rows of a value. *)

\* What lies between two places of a sequence.
LEMMA SubSeqIs ==
    ASSUME NEW w \in Seq(Nat), NEW a \in Nat, NEW b \in Nat, a <= b, b <= Len(w)
    PROVE  /\ SubSeq(w, a + 1, b) \in Seq(Nat) /\ Len(SubSeq(w, a + 1, b)) = b - a
           /\ \A i \in 1 .. b - a : SubSeq(w, a + 1, b)[i] = w[a + i]
<1>1. SubSeq(w, a + 1, b) = [i \in 1 .. (b - (a + 1) + 1) |-> w[a + 1 + i - 1]]
  OBVIOUS
<1>2. b - (a + 1) + 1 = b - a /\ b - a \in Nat /\ \A i \in 1 .. b - a : a + 1 + i - 1 = a + i
  OBVIOUS
<1>3. SubSeq(w, a + 1, b) = [i \in 1 .. b - a |-> w[a + i]]
  BY <1>1, <1>2
<1>4. \A i \in 1 .. b - a : w[a + i] \in Nat
  OBVIOUS
<1> QED
  BY <1>2, <1>3, <1>4

\* Two slices that meet are one.
LEMMA SubSeqJoins ==
    ASSUME NEW w \in Seq(Nat), NEW a \in Nat, NEW b \in Nat, NEW c \in Nat,
           a <= b, b <= c, c <= Len(w)
    PROVE  SubSeq(w, a + 1, b) \o SubSeq(w, b + 1, c) = SubSeq(w, a + 1, c)
<1> DEFINE x == SubSeq(w, a + 1, b)
           y == SubSeq(w, b + 1, c)
           z == SubSeq(w, a + 1, c)
<1>1. /\ x \in Seq(Nat) /\ Len(x) = b - a
      /\ \A i \in 1 .. b - a : x[i] = w[a + i]
  BY SubSeqIs
<1>2. /\ y \in Seq(Nat) /\ Len(y) = c - b
      /\ \A i \in 1 .. c - b : y[i] = w[b + i]
  BY SubSeqIs
<1>3. /\ z \in Seq(Nat) /\ Len(z) = c - a
      /\ \A i \in 1 .. c - a : z[i] = w[a + i]
  <2>1. a <= c
    OBVIOUS
  <2> QED
    BY <2>1, SubSeqIs
<1> HIDE DEF x, y, z
<1>4. x \o y \in Seq(Nat) /\ Len(x \o y) = c - a
  <2>1. x \o y \in Seq(Nat) /\ Len(x \o y) = Len(x) + Len(y)
    BY <1>1, <1>2, ConcatProperties
  <2>2. (b - a) + (c - b) = c - a
    OBVIOUS
  <2> QED
    BY <1>1, <1>2, <2>1, <2>2
<1>5. \A i \in 1 .. c - a : (x \o y)[i] = z[i]
  <2> SUFFICES ASSUME NEW i \in 1 .. c - a PROVE (x \o y)[i] = z[i]
    OBVIOUS
  <2>1. (x \o y)[i] = IF i <= Len(x) THEN x[i] ELSE y[i - Len(x)]
    <3>1. i \in 1 .. Len(x) + Len(y)
      BY <1>1, <1>2
    <3> QED
      BY <1>1, <1>2, <3>1, ConcatProperties
  <2>2. CASE i <= b - a
    BY <1>1, <1>3, <2>1, <2>2
  <2>3. CASE i > b - a
    <3>1. i - (b - a) \in 1 .. c - b /\ b + (i - (b - a)) = a + i
      BY <2>3
    <3>2. (x \o y)[i] = y[i - (b - a)]
      BY <1>1, <2>1, <2>3
    <3>3. y[i - (b - a)] = w[b + (i - (b - a))]
      BY <1>2, <3>1
    <3> QED
      BY <1>3, <3>1, <3>2, <3>3
  <2>4. i <= b - a \/ i > b - a
    OBVIOUS
  <2> QED
    BY <2>2, <2>3, <2>4
<1>6. x \o y = z
  <2> DEFINE u == x \o y
  <2>1. u \in Seq(Nat) /\ Len(u) = Len(z)
    BY <1>3, <1>4
  <2>2. \A i \in 1 .. Len(z) : u[i] = z[i]
    BY <1>3, <1>5
  <2> HIDE DEF u
  <2>3. u = z
    BY <1>3, <2>1, <2>2
  <2> QED
    BY <2>3 DEF u
<1> QED
  BY <1>6 DEF x, y, z

\* Together the pieces are the rows.
Pieces(w, start, count) ==
    [k \in 1 .. PieceCount(count) |-> SubSeq(w, PieceStart(start, k) + 1, PieceEnd(start, count, k))]

\* FlattenSeq of the pieces gives the rows back.
LEMMA PiecesJoined ==
    ASSUME NEW w \in Seq(Nat), NEW start \in Nat, NEW count \in Nat \ {0}, start + count <= Len(w)
    PROVE  /\ Pieces(w, start, count) \in Seq(Seq(Nat))
           /\ FlattenSeq(Pieces(w, start, count)) = SubSeq(w, start + 1, start + count)
<1> DEFINE n == PieceCount(count)
           End(k) == PieceEnd(start, count, k)
           Piece(k) == SubSeq(w, PieceStart(start, k) + 1, End(k))
           s == [k \in 1 .. n |-> Piece(k)]
<1>1. /\ n \in Nat \ {0} /\ End(0) = start /\ End(n) = start + count
      /\ \A k \in 0 .. n : End(k) \in start .. start + count
      /\ \A k \in 1 .. n : /\ PieceStart(start, k) = End(k - 1)
                           /\ PieceLength(count, k) \in Nat \ {0}
                           /\ PieceStart(start, k) + PieceLength(count, k) = End(k)
  BY PiecesFollow
<1> HIDE DEF n, End
<1>2. ASSUME NEW k \in 1 .. n
      PROVE  /\ End(k - 1) \in Nat /\ End(k) \in Nat /\ start <= End(k - 1)
             /\ End(k - 1) <= End(k) /\ End(k) <= Len(w)
             /\ Piece(k) = SubSeq(w, End(k - 1) + 1, End(k))
  <2>1. k \in 0 .. n /\ k - 1 \in 0 .. n
    BY <1>1
  <2>2. End(k - 1) \in start .. start + count /\ End(k) \in start .. start + count
    BY <1>1, <2>1
  <2>3. End(k - 1) <= End(k)
    <3>1. PieceStart(start, k) = End(k - 1) /\ PieceLength(count, k) \in Nat
      BY <1>1
    <3>2. PieceStart(start, k) + PieceLength(count, k) = End(k)
      BY <1>1
    <3> QED
      BY <2>2, <3>1, <3>2
  <2>4. Piece(k) = SubSeq(w, End(k - 1) + 1, End(k))
    BY <1>1
  <2>5. Len(w) \in Nat
    OBVIOUS
  <2> HIDE DEF Piece
  <2> QED
    BY <2>2, <2>3, <2>4, <2>5
<1> HIDE DEF Piece
<1>3. s \in Seq(Seq(Nat)) /\ Len(s) = n /\ s # << >>
  <2>1. ASSUME NEW k \in 1 .. n PROVE Piece(k) \in Seq(Nat)
    <3> DEFINE a == End(k - 1)
               b == End(k)
    <3>1. a \in Nat /\ b \in Nat /\ a <= b /\ b <= Len(w) /\ Piece(k) = SubSeq(w, a + 1, b)
      BY <1>2
    <3> HIDE DEF a, b
    <3> QED
      BY <3>1, SubSeqIs
  <2>2. n \in Nat /\ n # 0
    BY <1>1
  <2>3. s \in [1 .. n -> Seq(Nat)]
    BY <2>1
  <2> HIDE DEF s
  <2> QED
    BY <2>2, <2>3
<1>4. \A k \in 1 .. n : s[k] = Piece(k)
  OBVIOUS
<1>5. s = Pieces(w, start, count)
  BY DEF s, n, Piece, End, Pieces
<1> HIDE DEF s
<1>6. PICK f : IsJoin(f, n, s) /\ FlattenSeq(s) = f[n]
  BY <1>3, FlattenIs
<1> DEFINE Good(k) == f[k] = SubSeq(w, start + 1, End(k))
           T == {k \in 1 .. n : ~Good(k)}
<1>7. ASSUME NEW k \in 1 .. n, k = 1 \/ Good(k - 1) PROVE Good(k)
  <2>1. f[k] = (IF k = 1 THEN s[k] ELSE f[k - 1] \o s[k])
    <3>1. n \in Nat /\ IsJoin(f, n, s)
      BY <1>1, <1>6
    <3> QED
      BY <3>1, JoinAt
  <2>2. CASE k = 1
    <3>1. f[k] = Piece(k)
      BY <1>4, <2>1, <2>2
    <3>2. End(k - 1) = start
      BY <1>1, <2>2
    <3>3. Piece(k) = SubSeq(w, End(k - 1) + 1, End(k))
      BY <1>2
    <3> QED
      BY <3>1, <3>2, <3>3
  <2>3. CASE k # 1
    <3>1. f[k] = SubSeq(w, start + 1, End(k - 1)) \o SubSeq(w, End(k - 1) + 1, End(k))
      BY <1>2, <1>4, <1>7, <2>1, <2>3
    <3> QED
      BY <1>2, <3>1, SubSeqJoins
  <2> QED
    BY <2>2, <2>3
<1> HIDE DEF Good
<1>8. T = {}
  <2> SUFFICES ASSUME T # {} PROVE FALSE
    OBVIOUS
  <2>1. PICK k \in T : \A j \in T : k <= j
    <3>1. T \subseteq Nat
      BY <1>1
    <3> HIDE DEF T
    <3> QED
      BY <3>1, LeastNatural
  <2>2. k \in 1 .. n /\ (k # 1 => k - 1 \in 1 .. n /\ k - 1 \notin T)
    BY <1>1, <2>1
  <2>3. Good(k)
    BY <1>7, <2>2
  <2> QED
    BY <2>1, <2>3
<1>9. f[n] = SubSeq(w, start + 1, start + count)
  <2>1. n \in 1 .. n
    BY <1>1
  <2>2. Good(n)
    BY <1>8, <2>1
  <2> QED
    BY <1>1, <2>2 DEF Good
<1> QED
  BY <1>3, <1>5, <1>6, <1>9

-----------------------------------------------------------------------------
(* The item of a value. *)

\* The writer has rows of each of its values.
LEMMA WriterRows ==
    ASSUME WriterFits, NEW k \in DOMAIN wValues
    PROVE  /\ wRowStart[k] \in Nat /\ RowCount(k) \in Nat \ {0}
           /\ wRowStart[k] + RowCount(k) <= Len(wRows)
           /\ wRowStart[k] + RowCount(k) = (IF k < Len(wValues) THEN wRowStart[k + 1] ELSE Len(wRows))
           /\ RowsAt(k) = SubSeq(wRows, wRowStart[k] + 1, wRowStart[k] + RowCount(k))
           /\ RowsAt(k) \in Seq(Nat) /\ Len(RowsAt(k)) = RowCount(k)
           /\ \A i \in 1 .. RowCount(k) : RowsAt(k)[i] = wRows[wRowStart[k] + i]
<1> DEFINE n == Len(wValues)
           a == wRowStart[k]
           b == IF k < n THEN wRowStart[k + 1] ELSE Len(wRows)
<1>1. /\ n \in Nat /\ k \in 1 .. n /\ DOMAIN wRowStart = 1 .. n /\ Len(wRowStart) = n
      /\ wRows \in Seq(Nat) /\ Len(wRows) \in Nat
      /\ \A i \in 1 .. n : wRowStart[i] \in Nat /\ wRowStart[i] < Len(wRows)
      /\ \A i, j \in 1 .. n : i < j => wRowStart[i] < wRowStart[j]
  <2>1. /\ wValues \in Seq(Int) /\ wRowStart \in Seq(Nat) /\ wRows \in Seq(Nat)
        /\ Len(wRowStart) = Len(wValues)
        /\ \A i \in DOMAIN wRowStart : wRowStart[i] < Len(wRows)
        /\ \A i, j \in DOMAIN wRowStart : i < j => wRowStart[i] < wRowStart[j]
    BY DEF WriterFits, Rising
  <2>2. DOMAIN wRowStart = 1 .. n /\ k \in 1 .. n
    BY <2>1
  <2>3. \A i \in 1 .. n : wRowStart[i] \in Nat
    BY <2>1, <2>2
  <2>4. n \in Nat /\ Len(wRowStart) = n /\ Len(wRows) \in Nat
    BY <2>1
  <2>5. \A i \in 1 .. n : wRowStart[i] < Len(wRows)
    BY <2>1, <2>2, Zenon
  <2>6. \A i, j \in 1 .. n : i < j => wRowStart[i] < wRowStart[j]
    BY <2>1, <2>2, Zenon
  <2> QED
    BY <2>1, <2>2, <2>3, <2>4, <2>5, <2>6, Zenon
<1> HIDE DEF n
<1>2. a \in Nat /\ b \in Nat /\ a < b /\ b <= Len(wRows)
  <2>1. CASE k < n
    <3>1. k + 1 \in 1 .. n /\ k < k + 1
      BY <1>1, <2>1
    <3>2. wRowStart[k] < wRowStart[k + 1] /\ wRowStart[k + 1] \in Nat /\ wRowStart[k + 1] < Len(wRows)
      BY <1>1, <3>1
    <3> QED
      BY <1>1, <2>1, <3>2
  <2>2. CASE ~(k < n)
    BY <1>1, <2>2
  <2> QED
    BY <2>1, <2>2
<1>3. RowCount(k) = b - a
  BY <1>1 DEF RowCount
<1> DEFINE r == RowsAt(k)
<1>4. r = [i \in 1 .. b - a |-> wRows[a + i]]
  BY <1>3 DEF RowsAt
<1> HIDE DEF a, b, r
<1>5. b - a \in Nat \ {0} /\ a + (b - a) = b /\ \A i \in 1 .. b - a : a + i \in 1 .. Len(wRows)
  BY <1>1, <1>2
<1>6. \A i \in 1 .. b - a : r[i] = wRows[a + i]
  BY <1>4
<1>7. r \in Seq(Nat) /\ Len(r) = b - a
  <2>1. \A i \in 1 .. b - a : wRows[a + i] \in Nat
    BY <1>1, <1>5
  <2> QED
    BY <1>4, <1>5, <2>1
<1> DEFINE t == SubSeq(wRows, a + 1, b)
<1>8. /\ t \in Seq(Nat) /\ Len(t) = b - a
      /\ \A i \in 1 .. b - a : t[i] = wRows[a + i]
  <2>1. a <= b
    BY <1>2
  <2> QED
    BY <1>1, <1>2, <2>1, SubSeqIs
<1> HIDE DEF t
<1>9. r = t
  BY <1>6, <1>7, <1>8
<1> QED
  BY <1>2, <1>3, <1>5, <1>6, <1>7, <1>9 DEF a, b, r, t, n

\* An item is that of value k: it names the value and has its rows.
ItemIs(item, k) ==
    /\ item \in Item /\ item.value = wValues[k] /\ RowsOf(item) = RowsAt(k)
    /\ item.count = RowCount(k)
    /\ item.min = RowsAt(k)[1] /\ item.max = RowsAt(k)[RowCount(k)]
    /\ item.packing = "ROW_BLOCKS_LIST" =>
          item.table = [p \in DOMAIN item.pieces |-> <<item.pieces[p][1], Last(item.pieces[p])>>]

\* The table of a list of blocks has the first and the last row of each piece.
LEMMA TableIs ==
    ASSUME NEW w \in Seq(Nat), NEW buffer, NEW start \in Nat, NEW count \in Nat \ {0},
           Keeps(buffer, w, start), start + count <= Len(w)
    PROVE  /\ MinMaxTable(buffer, start, count) \in Seq(Nat \X Nat)
           /\ MinMaxTable(buffer, start, count)
                 = [p \in DOMAIN Pieces(w, start, count) |->
                       <<Pieces(w, start, count)[p][1], Last(Pieces(w, start, count)[p])>>]
<1> DEFINE n == PieceCount(count)
           End(k) == PieceEnd(start, count, k)
           s == Pieces(w, start, count)
           t == MinMaxTable(buffer, start, count)
<1>1. /\ n \in Nat \ {0}
      /\ \A k \in 0 .. n : End(k) \in start .. start + count
      /\ \A k \in 1 .. n : /\ PieceStart(start, k) = End(k - 1)
                           /\ PieceLength(count, k) \in Nat \ {0}
                           /\ PieceStart(start, k) + PieceLength(count, k) = End(k)
  BY PiecesFollow
<1>2. DOMAIN s = 1 .. n /\ \A k \in 1 .. n : s[k] = SubSeq(w, PieceStart(start, k) + 1, End(k))
  BY DEF Pieces
<1>3. t = [k \in 1 .. n |-> <<buffer[PieceStart(start, k) + 1],
                              buffer[PieceStart(start, k) + PieceLength(count, k)]>>]
  BY DEF MinMaxTable
<1> HIDE DEF n, End, s, t
<1>4. ASSUME NEW k \in 1 .. n
      PROVE  /\ buffer[PieceStart(start, k) + 1] = s[k][1]
             /\ buffer[PieceStart(start, k) + PieceLength(count, k)] = Last(s[k])
             /\ s[k][1] \in Nat /\ Last(s[k]) \in Nat
  <2> DEFINE a == End(k - 1)
             b == End(k)
  <2>1. k - 1 \in 0 .. n /\ k \in 0 .. n
    BY <1>1
  <2>2. a \in start .. start + count /\ b \in start .. start + count
    BY <1>1, <2>1
  <2>3. PieceStart(start, k) = a /\ PieceLength(count, k) \in Nat \ {0} /\ a + PieceLength(count, k) = b
    BY <1>1
  <2>4. s[k] = SubSeq(w, a + 1, b)
    BY <1>2, <2>3
  <2> HIDE DEF a, b
  <2>5. a \in Nat /\ b \in Nat /\ a < b /\ start <= a /\ b <= Len(w)
    BY <2>2, <2>3
  <2>6. /\ SubSeq(w, a + 1, b) \in Seq(Nat) /\ Len(SubSeq(w, a + 1, b)) = b - a
        /\ \A i \in 1 .. b - a : SubSeq(w, a + 1, b)[i] = w[a + i]
    <3>1. a <= b
      BY <2>5
    <3> QED
      BY <2>5, <3>1, SubSeqIs
  <2>7. 1 \in 1 .. b - a /\ b - a \in 1 .. b - a /\ a + (b - a) = b
    BY <2>5
  <2>8. s[k][1] = w[a + 1] /\ Last(s[k]) = w[b]
    BY <2>4, <2>6, <2>7 DEF Last
  <2>9. a + 1 \in 1 .. Len(w) /\ b \in 1 .. Len(w) /\ a + 1 > start /\ b > start
    BY <2>5
  <2>10. buffer[a + 1] = w[a + 1] /\ buffer[b] = w[b]
    BY <2>9 DEF Keeps
  <2>11. w[a + 1] \in Nat /\ w[b] \in Nat
    BY <2>9
  <2> QED
    BY <2>3, <2>8, <2>10, <2>11
<1>5. t = [k \in 1 .. n |-> <<s[k][1], Last(s[k])>>]
  BY <1>3, <1>4
<1>6. t \in Seq(Nat \X Nat)
  <2>1. \A k \in 1 .. n : <<s[k][1], Last(s[k])>> \in Nat \X Nat
    BY <1>4
  <2>2. \A k \in 1 .. n : t[k] = <<s[k][1], Last(s[k])>>
    BY <1>5
  <2>3. t \in [1 .. n -> Nat \X Nat]
    <3>1. DOMAIN t = 1 .. n /\ t = [k \in 1 .. n |-> t[k]]
      BY <1>5
    <3>2. \A k \in 1 .. n : t[k] \in Nat \X Nat
      BY <2>1, <2>2, Zenon
    <3> QED
      BY <3>1, <3>2, Zenon
  <2> QED
    BY <1>1, <2>3
<1> QED
  BY <1>2, <1>5, <1>6, Zenon DEF s, t

\* The fields of an item.
LEMMA ItemType ==
    ASSUME NEW v \in Int, NEW p \in {"ROW", "ROW_BLOCK", "ROW_BLOCKS_LIST"}, NEW c \in Nat,
           NEW first \in Nat, NEW last \in Nat, NEW t \in Seq(Nat \X Nat), NEW parts \in Seq(Seq(Nat))
    PROVE  [value |-> v, packing |-> p, count |-> c, min |-> first, max |-> last,
            table |-> t, pieces |-> parts] \in Item
BY DEF Item

\* EncodeItem appends the item of the value and leaves the rows of the values after it.
ItemAdded(after, before, k) ==
    /\ KeepsIn(after, wRows, wRowStart[k] + RowCount(k))
    /\ \E item : ItemIs(item, k) /\ after.items = Append(before.items, item)

\* The item of a value is made of its rows.
LEMMA ItemEncoded ==
    ASSUME WriterFits, NEW k \in DOMAIN wValues, NEW state, KeepsIn(state, wRows, wRowStart[k])
    PROVE  ItemAdded(EncodeItem(state, k), state, k)
<1> DEFINE w == wRows
           a == wRowStart[k]
           c == RowCount(k)
           b == state.buffer
           e == Encoded(state, k)
           t == IF Packing(c) = "ROW_BLOCKS_LIST" THEN MinMaxTable(b, a, c) ELSE << >>
           item == [value |-> wValues[k], packing |-> Packing(c), count |-> c,
                    min |-> b[a + 1], max |-> b[a + c], table |-> t, pieces |-> e.pieces]
           after == EncodeItem(state, k)
<1>1. after.buffer = e.buffer /\ after.items = Append(state.items, item)
  BY DEF EncodeItem, WithItem
<1>2. /\ a \in Nat /\ c \in Nat \ {0} /\ a + c <= Len(w)
      /\ RowsAt(k) = SubSeq(w, a + 1, a + c)
      /\ RowsAt(k) \in Seq(Nat) /\ Len(RowsAt(k)) = c
      /\ \A i \in 1 .. c : RowsAt(k)[i] = w[a + i]
  BY WriterRows
<1>3. w \in Seq(Nat) /\ wValues[k] \in Int
  BY DEF WriterFits
<1>4. Keeps(b, w, a)
  BY DEF KeepsIn
<1>5. Packing(c) \in {"ROW", "ROW_BLOCK", "ROW_BLOCKS_LIST"} /\ (Packing(c) = "ROW" <=> c = 1)
  BY DEF Packing
<1>6. Packing(c) = "ROW" => e.buffer = b /\ e.pieces = << >>
  BY DEF Encoded
<1>7. Packing(c) # "ROW" => e = EncodeRows(b, a, c)
  BY DEF Encoded
<1>8. /\ item.value = wValues[k] /\ item.packing = Packing(c) /\ item.count = c
      /\ item.min = b[a + 1] /\ item.max = b[a + c] /\ item.table = t /\ item.pieces = e.pieces
  OBVIOUS
<1>18. (/\ wValues[k] \in Int /\ Packing(c) \in {"ROW", "ROW_BLOCK", "ROW_BLOCKS_LIST"} /\ c \in Nat
        /\ b[a + 1] \in Nat /\ b[a + c] \in Nat
        /\ t \in Seq(Nat \X Nat) /\ e.pieces \in Seq(Seq(Nat)))
       => item \in Item
  <2> HIDE DEF a, c, b, e, t
  <2> DEFINE v == wValues[k]
             p == Packing(c)
             first == b[a + 1]
             last == b[a + c]
             parts == e.pieces
  <2> HIDE DEF v, p, first, last, parts
  <2>1. item = [value |-> v, packing |-> p, count |-> c, min |-> first, max |-> last,
                table |-> t, pieces |-> parts]
    BY Zenon DEF v, p, first, last, parts
  <2> HIDE DEF item
  <2>2. (/\ v \in Int /\ p \in {"ROW", "ROW_BLOCK", "ROW_BLOCKS_LIST"} /\ c \in Nat
         /\ first \in Nat /\ last \in Nat
         /\ t \in Seq(Nat \X Nat) /\ parts \in Seq(Seq(Nat)))
        => item \in Item
    <3> SUFFICES ASSUME v \in Int, p \in {"ROW", "ROW_BLOCK", "ROW_BLOCKS_LIST"}, c \in Nat,
                        first \in Nat, last \in Nat, t \in Seq(Nat \X Nat), parts \in Seq(Seq(Nat))
                 PROVE  item \in Item
      OBVIOUS
    <3> QED
      BY <2>1, ItemType, Zenon
  <2> QED
    BY <2>2, Zenon DEF v, p, first, last, parts
<1> HIDE DEF w, a, c, b, e, t, item, after
<1>9. 1 \in 1 .. c /\ c \in 1 .. c
  BY <1>2
<1>10. b[a + 1] = w[a + 1] /\ b[a + c] = w[a + c] /\ w[a + 1] \in Nat /\ w[a + c] \in Nat
  <2>1. a + 1 \in 1 .. Len(w) /\ a + c \in 1 .. Len(w) /\ a + 1 > a /\ a + c > a
    BY <1>2, <1>3
  <2> QED
    BY <1>3, <1>4, <2>1 DEF Keeps
<1>11. b[a + 1] = RowsAt(k)[1] /\ b[a + c] = RowsAt(k)[c]
  BY <1>2, <1>9, <1>10
<1>12. CASE Packing(c) = "ROW"
  <2>1. c = 1 /\ e.buffer = b /\ e.pieces = << >> /\ t = << >>
    BY <1>5, <1>6, <1>12 DEF t
  <2>2. RowsOf(item) = <<b[a + 1]>>
    BY <1>8, <1>12 DEF RowsOf
  <2>3. RowsOf(item) = RowsAt(k)
    BY <1>2, <1>10, <1>11, <2>1, <2>2
  <2>4. item \in Item
    <3>1. t \in Seq(Nat \X Nat) /\ e.pieces \in Seq(Seq(Nat))
      BY <2>1
    <3> QED
      BY <1>2, <1>3, <1>5, <1>10, <1>18, <3>1
  <2>5. ItemIs(item, k)
    <3>1. item.packing # "ROW_BLOCKS_LIST"
      BY <1>8, <1>12
    <3>2. item.count = RowCount(k) /\ item.min = RowsAt(k)[1] /\ item.max = RowsAt(k)[RowCount(k)]
      BY <1>8, <1>11, Zenon DEF c
    <3> QED
      BY <1>8, <2>3, <2>4, <3>1, <3>2, Zenon DEF ItemIs
  <2>6. KeepsIn(after, w, a + c)
    <3>1. \A i \in 1 .. Len(w) : i > a + c => i > a
      BY <1>2, <1>3
    <3>2. Keeps(b, w, a + c)
      BY <1>4, <3>1 DEF Keeps
    <3> QED
      BY <1>1, <2>1, <3>2, Zenon DEF KeepsIn
  <2> QED
    BY <1>1, <2>5, <2>6, Zenon DEF ItemAdded, after, w, a, c
<1>13. CASE Packing(c) # "ROW"
  <2>1. e = EncodeRows(b, a, c)
    BY <1>7, <1>13
  <2>2. /\ Keeps(EncodeRows(b, a, c).buffer, w, a + c)
        /\ EncodeRows(b, a, c).pieces = Pieces(w, a, c)
    BY <1>2, <1>3, <1>4, RowsEncoded DEF Pieces
  <2>3. Keeps(e.buffer, w, a + c) /\ e.pieces = Pieces(w, a, c)
    BY <2>1, <2>2, Zenon
  <2>4. e.pieces \in Seq(Seq(Nat)) /\ FlattenSeq(e.pieces) = RowsAt(k)
    <3>1. Pieces(w, a, c) \in Seq(Seq(Nat)) /\ FlattenSeq(Pieces(w, a, c)) = SubSeq(w, a + 1, a + c)
      BY <1>2, <1>3, PiecesJoined
    <3> QED
      BY <1>2, <2>3, <3>1, Zenon
  <2>5. RowsOf(item) = RowsAt(k)
    BY <1>8, <1>13, <2>4 DEF RowsOf
  <2>6. /\ MinMaxTable(b, a, c) \in Seq(Nat \X Nat)
        /\ MinMaxTable(b, a, c) = [p \in DOMAIN e.pieces |-> <<e.pieces[p][1], Last(e.pieces[p])>>]
    BY <1>2, <1>3, <1>4, <2>3, TableIs
  <2>7. t \in Seq(Nat \X Nat)
    BY <2>6 DEF t
  <2>8. item \in Item
    BY <1>2, <1>3, <1>5, <1>10, <1>18, <2>4, <2>7
  <2>9. ItemIs(item, k)
    <3>1. item.packing = "ROW_BLOCKS_LIST" =>
             item.table = [p \in DOMAIN item.pieces |-> <<item.pieces[p][1], Last(item.pieces[p])>>]
      BY <1>8, <2>6, Zenon DEF t
    <3>2. item.count = RowCount(k) /\ item.min = RowsAt(k)[1] /\ item.max = RowsAt(k)[RowCount(k)]
      BY <1>8, <1>11, Zenon DEF c
    <3> QED
      BY <1>8, <2>5, <2>8, <3>1, <3>2, Zenon DEF ItemIs
  <2>10. KeepsIn(after, w, a + c)
    BY <1>1, <2>3, Zenon DEF KeepsIn
  <2> QED
    BY <1>1, <2>9, <2>10, Zenon DEF ItemAdded, after, w, a, c
<1> QED
  BY <1>12, <1>13

\* BlockOfValues: f[k] is what the first k values leave.
NoItems == [buffer |-> wRows, items |-> << >>]
IsBlock(f, m) ==
    f = [k \in 0 .. m |-> IF k = 0 THEN [buffer |-> wRows, items |-> << >>]
                          ELSE EncodeItem(f[k - 1], k)]

\* One value more is encoded.
LEMMA BlockExtends ==
    ASSUME NEW m \in Nat \ {0}, NEW f, IsBlock(f, m - 1)
    PROVE  \E g : IsBlock(g, m)
<1> DEFINE More(h, k) == IF k = 0 THEN [buffer |-> wRows, items |-> << >>]
                         ELSE EncodeItem(h[k - 1], k)
           last == More(f, m)
           g == [k \in 0 .. m |-> IF k < m THEN f[k] ELSE last]
<1>1. \A k \in 0 .. m - 1 : f[k] = More(f, k)
  <2>1. f = [k \in 0 .. m - 1 |-> More(f, k)]
    BY Zenon DEF IsBlock
  <2> HIDE DEF More
  <2> QED
    BY <2>1
<1>2. \A k \in 0 .. m : k = 0 \/ f[k - 1] = g[k - 1] => More(g, k) = More(f, k)
  <2> HIDE DEF g
  <2> QED
    BY Zenon
<1> HIDE DEF More
<1>3. \A k \in 0 .. m : g[k] = More(g, k)
  <2> SUFFICES ASSUME NEW k \in 0 .. m PROVE g[k] = More(g, k)
    OBVIOUS
  <2>1. k = 0 \/ f[k - 1] = g[k - 1]
    OBVIOUS
  <2>2. More(g, k) = More(f, k)
    BY <1>2, <2>1
  <2>3. CASE k < m
    BY <1>1, <2>2, <2>3
  <2>4. CASE k = m
    BY <2>2, <2>4
  <2> QED
    BY <2>3, <2>4
<1>4. g = [k \in 0 .. m |-> More(g, k)]
  BY <1>3
<1>5. IsBlock(g, m)
  BY <1>4, Zenon DEF IsBlock, More
<1> QED
  BY <1>5, Zenon

\* Any number of values is encoded.
LEMMA BlockExists ==
    ASSUME NEW n \in Nat
    PROVE  \E f : IsBlock(f, n)
<1> DEFINE T == {m \in Nat : ~ \E f : IsBlock(f, m)}
<1>1. T = {}
  <2> SUFFICES ASSUME T # {} PROVE FALSE
    OBVIOUS
  <2>1. PICK m \in T : \A k \in T : m <= k
    <3>1. T \subseteq Nat
      OBVIOUS
    <3> HIDE DEF T
    <3> QED
      BY <3>1, LeastNatural
  <2>2. m # 0
    <3> DEFINE f == [k \in 0 .. 0 |-> [buffer |-> wRows, items |-> << >>]]
    <3>1. IsBlock(f, 0)
      BY DEF IsBlock
    <3> QED
      BY <2>1, <3>1
  <2>3. m - 1 \in Nat /\ m - 1 \notin T
    BY <2>1, <2>2
  <2>4. PICK f : IsBlock(f, m - 1)
    BY <2>3
  <2>5. \E g : IsBlock(g, m)
    BY <2>1, <2>2, <2>4, BlockExtends
  <2> QED
    BY <2>1, <2>5
<1> QED
  BY <1>1

BlockSteps(f) ==
    /\ BlockOfValues = f[Len(wValues)].items
    /\ f[0] = NoItems
    /\ \A k \in 1 .. Len(wValues) : f[k] = EncodeItem(f[k - 1], k)

\* BlockOfValues encodes the values one after the other.
LEMMA BlockOfValuesIs ==
    ASSUME wValues \in Seq(Int)
    PROVE  \E f : BlockSteps(f)
<1> DEFINE n == Len(wValues)
           f == CHOOSE g : IsBlock(g, n)
<1>1. n \in Nat
  OBVIOUS
<1>2. IsBlock(f, n)
  BY <1>1, BlockExists
<1>3. BlockOfValues = f[n].items
  BY Zenon DEF BlockOfValues, IsBlock
<1> HIDE DEF f, n
<1> DEFINE More(k) == IF k = 0 THEN [buffer |-> wRows, items |-> << >>]
                      ELSE EncodeItem(f[k - 1], k)
<1>4. \A k \in 0 .. n : f[k] = More(k)
  <2>1. f = [k \in 0 .. n |-> More(k)]
    BY <1>2, Zenon DEF IsBlock
  <2> HIDE DEF More
  <2> QED
    BY <2>1
<1>5. f[0] = NoItems
  <2>1. 0 \in 0 .. n
    BY <1>1
  <2> QED
    BY <1>4, <2>1, Zenon DEF NoItems
<1>6. ASSUME NEW k \in 1 .. n PROVE f[k] = EncodeItem(f[k - 1], k)
  <2>1. k \in 0 .. n /\ k # 0
    BY <1>1
  <2> QED
    BY <1>4, <2>1, Zenon
<1> QED
  BY <1>3, <1>5, <1>6 DEF n, BlockSteps

\* A block has the item of each value of the writer, in order.
BlockFits(block) ==
    /\ block \in Seq(Item) /\ Len(block) = Len(wValues)
    /\ \A k \in 1 .. Len(wValues) : ItemIs(block[k], k)

\* BlockOfValues makes the items of all values of the writer.
LEMMA BlockIs ==
    ASSUME WriterFits
    PROVE  BlockFits(BlockOfValues)
<1> DEFINE n == Len(wValues)
           End(k) == IF k < n THEN wRowStart[k + 1] ELSE Len(wRows)
<1>1. /\ wValues \in Seq(Int) /\ n \in Nat /\ wRows \in Seq(Nat) /\ DOMAIN wValues = 1 .. n
      /\ Len(wRows) \in Nat
  BY DEF WriterFits
<1>2. PICK f : BlockSteps(f)
  BY <1>1, BlockOfValuesIs
<1>3. /\ BlockOfValues = f[n].items
      /\ f[0] = NoItems
      /\ \A k \in 1 .. n : f[k] = EncodeItem(f[k - 1], k)
  BY <1>2 DEF BlockSteps
<1>4. ASSUME NEW k \in 1 .. n
      PROVE  wRowStart[k] = End(k - 1) /\ wRowStart[k] + RowCount(k) = End(k)
  BY <1>1, WriterRows
<1> HIDE DEF n, End
<1> DEFINE Good(k) == /\ KeepsIn(f[k], wRows, End(k))
                      /\ f[k].items \in Seq(Item) /\ Len(f[k].items) = k
                      /\ \A j \in 1 .. k : ItemIs(f[k].items[j], j)
           T == {k \in 0 .. n : ~Good(k)}
<1>5. Good(0)
  <2>1. f[0].buffer = wRows /\ f[0].items = << >>
    BY <1>3 DEF NoItems
  <2>2. wRows \in Seq(Cells)
    <3>1. \A i \in 1 .. Len(wRows) : wRows[i] \in Cells
      BY <1>1 DEF Cells
    <3> QED
      BY <1>1, <3>1
  <2>3. KeepsIn(f[0], wRows, End(0))
    BY <1>1, <2>1, <2>2 DEF Keeps, KeepsIn
  <2> QED
    BY <2>1, <2>3
<1>6. ASSUME NEW k \in 1 .. n, Good(k - 1) PROVE Good(k)
  <2> DEFINE g == f[k - 1]
             s == g.items
  <2>1. f[k] = EncodeItem(g, k)
    BY <1>3
  <2>2. KeepsIn(g, wRows, wRowStart[k])
    BY <1>4, <1>6
  <2>3. s \in Seq(Item) /\ Len(s) = k - 1 /\ \A j \in 1 .. k - 1 : ItemIs(s[j], j)
    BY <1>6
  <2> HIDE DEF g
  <2>4. ItemAdded(EncodeItem(g, k), g, k)
    BY <1>1, <2>2, ItemEncoded
  <2>5. /\ KeepsIn(f[k], wRows, wRowStart[k] + RowCount(k))
        /\ \E item : ItemIs(item, k) /\ f[k].items = Append(g.items, item)
    BY <2>1, <2>4, Zenon DEF ItemAdded
  <2>6. PICK item : ItemIs(item, k) /\ f[k].items = Append(s, item)
    BY <2>5, Zenon
  <2> DEFINE t == f[k].items
  <2>7. item \in Item
    BY <2>6 DEF ItemIs
  <2> HIDE DEF s
  <2>8. t \in Seq(Item) /\ Len(t) = k /\ t[k] = item /\ \A j \in 1 .. k - 1 : t[j] = s[j]
    <3>1. k \in Nat /\ Len(s) + 1 = k
      BY <1>1, <2>3
    <3> QED
      BY <2>3, <2>6, <2>7, <3>1, AppendProperties
  <2> HIDE DEF t
  <2>9. ASSUME NEW j \in 1 .. k PROVE ItemIs(t[j], j)
    <3>1. CASE j = k
      BY <2>6, <2>8, <3>1
    <3>2. CASE j # k
      <4>1. j \in 1 .. k - 1
        BY <1>1, <3>2
      <4> QED
        BY <2>3, <2>8, <4>1
    <3> QED
      BY <3>1, <3>2
  <2>10. KeepsIn(f[k], wRows, End(k))
    BY <1>4, <2>5
  <2> QED
    BY <2>8, <2>9, <2>10 DEF t
<1> HIDE DEF Good
<1>7. T = {}
  <2> SUFFICES ASSUME T # {} PROVE FALSE
    OBVIOUS
  <2>1. PICK k \in T : \A j \in T : k <= j
    <3>1. T \subseteq Nat
      BY <1>1
    <3> HIDE DEF T
    <3> QED
      BY <3>1, LeastNatural
  <2>2. k \in 0 .. n /\ k # 0
    BY <1>5, <2>1
  <2>3. k - 1 \in 0 .. n /\ k \in 1 .. n /\ k - 1 \notin T
    BY <1>1, <2>1, <2>2
  <2>4. Good(k)
    BY <1>6, <2>3
  <2> QED
    BY <2>1, <2>4
<1>8. Good(n)
  <2>1. n \in 0 .. n
    BY <1>1
  <2>2. n \in T \/ Good(n)
    BY <2>1, Zenon
  <2> QED
    BY <1>7, <2>2, Zenon
<1> QED
  BY <1>3, <1>8, Zenon DEF BlockFits, Good, n

-----------------------------------------------------------------------------
(* Collecting. *)

\* What is in a run is in the pairs that are left while nothing has been read.
RunPairs(s) == UNION {ToSet(s[c]) : c \in DOMAIN s}

\* Flushing makes the rows in memory a run in order, with the same pairs.
LEMMA FlushedIs ==
    ASSUME CollectedFit
    PROVE  /\ Flushed \in Seq(Seq(Pairs))
           /\ \A c \in DOMAIN Flushed : Flushed[c] # << >> /\ InOrder(Flushed[c])
           /\ ~isFloat => \A c \in DOMAIN Flushed : Different(Flushed[c])
           /\ RunPairs(Flushed) = RunPairs(runs) \cup ToSet(rows)
<1>1. /\ rows \in Seq(Pairs) /\ runs \in Seq(Seq(Pairs))
      /\ \A c \in DOMAIN runs : runs[c] # << >> /\ InOrder(runs[c])
      /\ ~isFloat => Different(rows) /\ \A c \in DOMAIN runs : Different(runs[c])
  BY DEF CollectedFit
<1>2. CASE rows = << >>
  <2>1. Flushed = runs
    BY <1>2 DEF Flushed
  <2>2. ToSet(rows) = {}
    BY <1>2 DEF ToSet
  <2> QED
    BY <1>1, <2>1, <2>2
<1>3. CASE rows # << >>
  <2> DEFINE t == Sorted(rows)
             f == Flushed
             n == Len(runs)
  <2>1. f = Append(runs, t)
    BY <1>3 DEF Flushed
  <2>2. /\ t \in Seq(Pairs) /\ Len(t) = Len(rows)
        /\ InOrder(t) /\ ToSet(t) = ToSet(rows)
        /\ Different(rows) => Different(t)
    BY <1>1, SortedIs
  <2> HIDE DEF t, f
  <2>3. t # << >>
    <3>1. Len(rows) # 0
      BY <1>1, <1>3
    <3> QED
      BY <2>2, <3>1
  <2>4. n \in Nat /\ DOMAIN runs = 1 .. n
    BY <1>1
  <2>5. f \in Seq(Seq(Pairs)) /\ DOMAIN f = 1 .. n + 1 /\ f[n + 1] = t /\ \A c \in 1 .. n : f[c] = runs[c]
    <3>1. f \in Seq(Seq(Pairs)) /\ Len(f) = n + 1
      BY <1>1, <2>1, <2>2, AppendProperties
    <3>2. f[n + 1] = t /\ \A c \in 1 .. n : f[c] = runs[c]
      BY <1>1, <2>1, <2>2, AppendProperties
    <3> QED
      BY <3>1, <3>2
  <2>6. ASSUME NEW c \in 1 .. n + 1
        PROVE  (c \in DOMAIN runs /\ f[c] = runs[c]) \/ f[c] = t
    BY <2>4, <2>5
  <2>7. ASSUME NEW c \in DOMAIN f
        PROVE  /\ f[c] # << >> /\ InOrder(f[c]) /\ (~isFloat => Different(f[c]))
    BY <1>1, <2>2, <2>3, <2>5, <2>6
  <2>8. RunPairs(f) = RunPairs(runs) \cup ToSet(t)
    <3>1. \A c \in DOMAIN runs : c \in DOMAIN f /\ f[c] = runs[c]
      BY <2>4, <2>5
    <3>2. n + 1 \in DOMAIN f
      BY <2>4, <2>5
    <3>3. \A c \in DOMAIN f : ToSet(f[c]) \subseteq RunPairs(runs) \cup ToSet(t)
      BY <2>5, <2>6, Zenon DEF RunPairs
    <3>4. RunPairs(runs) \subseteq RunPairs(f)
      BY <3>1, Zenon DEF RunPairs
    <3>5. ToSet(t) \subseteq RunPairs(f)
      BY <2>5, <3>2, Zenon DEF RunPairs
    <3>6. RunPairs(f) \subseteq RunPairs(runs) \cup ToSet(t)
      BY <3>3, Zenon DEF RunPairs
    <3> QED
      BY <3>4, <3>5, <3>6
  <2> QED
    BY <2>2, <2>5, <2>7, <2>8 DEF f
<1> QED
  BY <1>2, <1>3

\* As long as nothing has been read of any run, everything in the runs is left.
LEMMA NothingRead ==
    ASSUME runs \in Seq(Seq(Pairs)), \A c \in DOMAIN runs : Taken(c) = 0
    PROVE  PairsLeft = RunPairs(runs)
<1>1. ASSUME NEW c \in DOMAIN runs PROVE {runs[c][i] : i \in Left(c)} = ToSet(runs[c])
  <2>1. runs[c] \in Seq(Pairs)
    OBVIOUS
  <2>2. Left(c) = DOMAIN runs[c]
    BY <2>1 DEF Left
  <2> QED
    BY <2>2, Zenon DEF ToSet
<1>2. \A x : x \in PairsLeft <=> \E c \in DOMAIN runs : x \in {runs[c][i] : i \in Left(c)}
  BY Zenon DEF PairsLeft
<1>3. \A x : x \in RunPairs(runs) <=> \E c \in DOMAIN runs : x \in ToSet(runs[c])
  BY Zenon DEF RunPairs
<1>4. \A x : x \in PairsLeft <=> x \in RunPairs(runs)
  <2> SUFFICES ASSUME NEW x PROVE x \in PairsLeft <=> x \in RunPairs(runs)
    OBVIOUS
  <2>1. \A c \in DOMAIN runs : x \in {runs[c][i] : i \in Left(c)} <=> x \in ToSet(runs[c])
    BY <1>1
  <2> QED
    BY <1>2, <1>3, <2>1, Zenon
<1> QED
  BY <1>4, Zenon

\* ... also after a step.
LEMMA NothingReadNext ==
    ASSUME runs' \in Seq(Seq(Pairs)), \A c \in DOMAIN runs' : Taken(c)' = 0
    PROVE  PairsLeft' = RunPairs(runs')
<1>1. ASSUME NEW c \in DOMAIN runs' PROVE {runs'[c][i] : i \in Left(c)'} = ToSet(runs'[c])
  <2>1. runs'[c] \in Seq(Pairs)
    OBVIOUS
  <2>2. Left(c)' = DOMAIN runs'[c]
    BY <2>1 DEF Left
  <2> QED
    BY <2>2, Zenon DEF ToSet
<1>2. \A x : x \in PairsLeft' <=> \E c \in DOMAIN runs' : x \in {runs'[c][i] : i \in Left(c)'}
  BY Zenon DEF PairsLeft
<1>3. \A x : x \in RunPairs(runs') <=> \E c \in DOMAIN runs' : x \in ToSet(runs'[c])
  BY Zenon DEF RunPairs
<1>4. \A x : x \in PairsLeft' <=> x \in RunPairs(runs')
  <2> SUFFICES ASSUME NEW x PROVE x \in PairsLeft' <=> x \in RunPairs(runs')
    OBVIOUS
  <2>1. \A c \in DOMAIN runs' : x \in {runs'[c][i] : i \in Left(c)'} <=> x \in ToSet(runs'[c])
    BY <1>1
  <2> QED
    BY <1>2, <1>3, <2>1, Zenon
<1> QED
  BY <1>4, Zenon

\* A step that leaves the writer alone.
LEMMA WriterStays ==
    ASSUME WriterFits, isFloat' = isFloat, wValues' = wValues, wRowStart' = wRowStart, wRows' = wRows
    PROVE  WriterFits' /\ PairsWritten' = PairsWritten
<1>1. \A i : RowCount(i)' = RowCount(i)
  BY DEF RowCount
<1>2. \A i : RowsAt(i)' = RowsAt(i)
  BY <1>1 DEF RowsAt
<1>3. WriterFits'
  BY <1>2 DEF WriterFits
<1>4. PairsWritten' = PairsWritten
  BY <1>2 DEF PairsWritten
<1> QED
  BY <1>3, <1>4

\* A step that leaves the index alone.
LEMMA IndexStays ==
    ASSUME IndexFits, isFloat' = isFloat, totalValues' = totalValues, index' = index,
           phase = "done" => phase' = "done",
           wValues' # << >> => \A i \in DOMAIN Items : Items[i].value < wValues'[1]
    PROVE  IndexFits' /\ PairsIndexed' = PairsIndexed
<1>1. Items' = Items
  BY DEF Items
<1>2. \A item : Described(item)' <=> Described(item)
  BY DEF Described, RowsOf
<1>3. \A b \in DOMAIN index :
         IF b < Len(index) \/ phase' # "done" THEN Len(index[b]) = ValuesPerBlock ELSE index[b] # << >>
  <2> SUFFICES ASSUME NEW b \in DOMAIN index
               PROVE  IF b < Len(index) \/ phase' # "done" THEN Len(index[b]) = ValuesPerBlock ELSE index[b] # << >>
    OBVIOUS
  <2>1. IF b < Len(index) \/ phase # "done" THEN Len(index[b]) = ValuesPerBlock ELSE index[b] # << >>
    BY DEF IndexFits
  <2>2. index[b] \in Seq(Item)
    BY DEF IndexFits
  <2>3. ValuesPerBlock \in Nat \ {0}
    BY BuilderAssumption
  <2>4. Len(index[b]) = ValuesPerBlock => index[b] # << >>
    BY <2>2, <2>3
  <2>5. CASE b < Len(index) \/ phase # "done"
    BY <2>1, <2>4, <2>5
  <2>6. CASE ~(b < Len(index) \/ phase # "done")
    BY <2>1, <2>6
  <2> QED
    BY <2>5, <2>6
<1>4. IndexFits'
  BY <1>1, <1>2, <1>3 DEF IndexFits
<1>5. PairsIndexed' = PairsIndexed
  BY <1>1 DEF PairsIndexed, PairsOf, RowsOf
<1> QED
  BY <1>4, <1>5

\* One document more.
LEMMA RowSet ==
    ASSUME IInv, NEW doc \in Doc, SetRow(doc)
    PROVE  IInv'
<1> DEFINE row == Len(docs)
           full == row % MaxRows = 0
           added == [i \in DOMAIN doc |-> Pair(doc[i], row)]
           base == IF full THEN << >> ELSE rows
           kept == IF full THEN Flushed ELSE runs
<1>1. /\ phase = "collect" /\ Len(docs) < MaxDocs /\ (doc \in Vector => isFloat)
      /\ runs' = kept /\ rows' = base \o added /\ docs' = Append(docs, doc)
      /\ isFloat' = isFloat /\ phase' = phase /\ read' = read
      /\ wValues' = wValues /\ wRowStart' = wRowStart /\ wRows' = wRows
      /\ totalValues' = totalValues /\ index' = index
  BY DEF SetRow, writer
<1>2. /\ isFloat \in BOOLEAN /\ phase \in {"collect", "fill", "merge", "done"}
      /\ docs \in Seq(Doc) /\ Len(docs) <= MaxDocs
      /\ ~isFloat => \A i \in DOMAIN docs : docs[i] \notin Vector
      /\ rows \in Seq(Pairs) /\ runs \in Seq(Seq(Pairs))
      /\ \A i \in DOMAIN rows : rows[i].row < Len(docs)
      /\ \A c \in DOMAIN runs : runs[c] # << >> /\ InOrder(runs[c])
      /\ ~isFloat => Different(rows) /\ \A c \in DOMAIN runs : Different(runs[c])
      /\ read = << >>
  BY <1>1 DEF IInv, CollectedFit
<1>3. /\ doc \in Seq(Int) /\ row \in Nat /\ MaxDocs \in Nat
      /\ ~isFloat => \A i, j \in DOMAIN doc : doc[i] = doc[j] => i = j
  BY <1>1, <1>2, BuilderAssumption
<1>4. /\ Flushed \in Seq(Seq(Pairs))
      /\ \A c \in DOMAIN Flushed : Flushed[c] # << >> /\ InOrder(Flushed[c])
      /\ ~isFloat => \A c \in DOMAIN Flushed : Different(Flushed[c])
      /\ RunPairs(Flushed) = RunPairs(runs) \cup ToSet(rows)
  BY FlushedIs DEF IInv
<1>5. /\ kept \in Seq(Seq(Pairs))
      /\ \A c \in DOMAIN kept : kept[c] # << >> /\ InOrder(kept[c])
      /\ ~isFloat => \A c \in DOMAIN kept : Different(kept[c])
  BY <1>2, <1>4, Zenon
<1>6. /\ base \in Seq(Pairs) /\ (~isFloat => Different(base))
      /\ \A i \in DOMAIN base : base[i].row < row
  <2>1. << >> \in Seq(Pairs) /\ Different(<< >>) /\ \A i \in DOMAIN << >> : FALSE
    BY DEF Different
  <2> QED
    BY <1>2, <2>1, Zenon
<1>7. RunPairs(kept) \cup ToSet(base) = RunPairs(runs) \cup ToSet(rows)
  <2>1. ToSet(<< >>) = {}
    BY DEF ToSet
  <2> QED
    BY <1>4, <2>1
<1>8. /\ added \in Seq(Pairs) /\ Len(added) = Len(doc)
      /\ \A i \in DOMAIN doc : added[i] = Pair(doc[i], row)
      /\ \A i \in DOMAIN doc : added[i].value = doc[i] /\ added[i].row = row
  <2>1. DOMAIN doc = 1 .. Len(doc) /\ Len(doc) \in Nat
    BY <1>3
  <2>2. \A i \in DOMAIN doc : Pair(doc[i], row) \in Pairs
    BY <1>3 DEF Pair, Pairs
  <2>3. \A i \in DOMAIN doc : Pair(doc[i], row).value = doc[i] /\ Pair(doc[i], row).row = row
    BY DEF Pair
  <2> QED
    BY <2>1, <2>2, <2>3
<1> HIDE DEF row, full, added, base, kept
<1> DEFINE m == Len(base)
           k == Len(added)
           s == base \o added
<1>9. /\ m \in Nat /\ k \in Nat /\ DOMAIN base = 1 .. m /\ DOMAIN added = 1 .. k /\ DOMAIN doc = 1 .. k
      /\ s \in Seq(Pairs) /\ Len(s) = m + k /\ DOMAIN s = 1 .. m + k
      /\ \A i \in 1 .. m : s[i] = base[i]
      /\ \A i \in 1 .. k : s[m + i] = added[i]
  <2>1. /\ m \in Nat /\ k \in Nat /\ DOMAIN base = 1 .. m /\ DOMAIN added = 1 .. k /\ DOMAIN doc = 1 .. k
    BY <1>3, <1>6, <1>8
  <2>2. s \in Seq(Pairs) /\ Len(s) = m + k
    BY <1>6, <1>8, ConcatProperties
  <2>3. \A i \in 1 .. m + k : s[i] = IF i <= m THEN base[i] ELSE added[i - m]
    BY <1>6, <1>8, ConcatProperties
  <2> HIDE DEF s, m, k
  <2>4. DOMAIN s = 1 .. m + k
    BY <2>2
  <2>5. ASSUME NEW i \in 1 .. k PROVE s[m + i] = added[i]
    <3> DEFINE l == m + i
    <3>1. l \in 1 .. m + k /\ ~(l <= m) /\ l - m = i
      BY <2>1
    <3> HIDE DEF l
    <3>2. s[l] = added[i]
      BY <2>3, <3>1
    <3> QED
      BY <3>2 DEF l
  <2>6. ASSUME NEW i \in 1 .. m PROVE s[i] = base[i]
    <3>1. i \in 1 .. m + k /\ i <= m
      BY <2>1
    <3> QED
      BY <2>3, <3>1
  <2> QED
    BY <2>1, <2>2, <2>4, <2>5, <2>6
<1>10. ASSUME NEW i \in DOMAIN s
       PROVE  (i \in 1 .. m /\ s[i] = base[i]) \/ \E j \in 1 .. k : i = m + j /\ s[i] = added[j]
  <2>1. CASE i <= m
    BY <1>9, <2>1
  <2>2. CASE i > m
    <3>1. i - m \in 1 .. k /\ i = m + (i - m)
      BY <1>9, <2>2
    <3> QED
      BY <1>9, <3>1
  <2> QED
    BY <1>9, <2>1, <2>2
<1> HIDE DEF s, m, k
<1>11. \A i \in DOMAIN s : s[i].row < row + 1
  <2> SUFFICES ASSUME NEW i \in DOMAIN s PROVE s[i].row < row + 1
    OBVIOUS
  <2>1. CASE i \in 1 .. m /\ s[i] = base[i]
    <3>1. base[i].row < row /\ base[i] \in Pairs
      BY <1>6, <1>9, <2>1
    <3> QED
      BY <1>3, <2>1, <3>1 DEF Pairs
  <2>2. ASSUME NEW j \in 1 .. k, s[i] = added[j] PROVE s[i].row < row + 1
    <3>1. added[j].row = row
      BY <1>8, <1>9
    <3> QED
      BY <1>3, <2>2, <3>1
  <2> QED
    BY <1>10, <2>1, <2>2
<1>12. ASSUME ~isFloat PROVE Different(s)
  <2> SUFFICES ASSUME NEW i \in DOMAIN s, NEW j \in DOMAIN s, s[i] = s[j] PROVE i = j
    BY DEF Different
  <2>1. CASE i \in 1 .. m /\ s[i] = base[i] /\ j \in 1 .. m /\ s[j] = base[j]
    BY <1>6, <1>9, <1>12, <2>1 DEF Different
  <2>2. ASSUME NEW a \in 1 .. m, NEW b \in 1 .. k, base[a] = added[b] PROVE FALSE
    <3>1. base[a].row < row /\ added[b].row = row
      BY <1>6, <1>8, <1>9
    <3> QED
      BY <1>3, <2>2, <3>1
  <2>3. ASSUME NEW a \in 1 .. k, NEW b \in 1 .. k, added[a] = added[b] PROVE a = b
    <3>1. added[a].value = doc[a] /\ added[b].value = doc[b]
      BY <1>8, <1>9
    <3>2. doc[a] = doc[b]
      BY <2>3, <3>1, Zenon
    <3> QED
      BY <1>3, <1>9, <1>12, <3>2
  <2> QED
    BY <1>10, <2>1, <2>2, <2>3
<1>13. CollectedFit'
  <2>1. docs' \in Seq(Doc) /\ Len(docs') = row + 1 /\ Len(docs') <= MaxDocs
    BY <1>1, <1>2, <1>3 DEF row
  <2>2. ASSUME ~isFloat, NEW i \in DOMAIN docs' PROVE docs'[i] \notin Vector
    <3>1. docs'[i] = doc \/ (i \in DOMAIN docs /\ docs'[i] = docs[i])
      BY <1>1, <1>2
    <3> QED
      BY <1>1, <1>2, <2>2, <3>1
  <2>3. rows' = s /\ runs' = kept
    BY <1>1 DEF s
  <2> QED
    BY <1>1, <1>2, <1>5, <1>9, <1>11, <1>12, <2>1, <2>2, <2>3 DEF CollectedFit
<1>14. ASSUME ~isFloat PROVE ToSet(rows)' \cup PairsLeft' \cup PairsWritten' \cup PairsIndexed' = PairsOfDocs'
  <2> DEFINE new == {Pair(doc[i], row) : i \in DOMAIN doc}
  <2>1. PairsLeft = RunPairs(runs)
    BY <1>2, NothingRead DEF Taken
  <2>2. PairsLeft' = RunPairs(kept)
    <3>1. \A c \in DOMAIN runs' : Taken(c)' = 0
      BY <1>1, <1>2 DEF Taken
    <3>2. runs' \in Seq(Seq(Pairs)) /\ RunPairs(runs') = RunPairs(kept)
      BY <1>1, <1>5
    <3> QED
      BY <3>1, <3>2, NothingReadNext
  <2>3. PairsWritten' = PairsWritten /\ PairsIndexed' = PairsIndexed
    BY <1>1, WriterStays, IndexStays DEF IInv, IndexFits
  <2>4. ToSet(s) = ToSet(base) \cup new
    <3>1. \A x : x \in ToSet(s) => x \in ToSet(base) \/ x \in new
      BY <1>8, <1>9, <1>10 DEF ToSet
    <3>2. ToSet(base) \subseteq ToSet(s)
      <4>1. \A i \in 1 .. m : i \in DOMAIN s
        BY <1>9
      <4> QED
        BY <1>9, <4>1 DEF ToSet
    <3>3. new \subseteq ToSet(s)
      <4>1. \A i \in 1 .. k : m + i \in DOMAIN s
        BY <1>9
      <4>2. \A i \in 1 .. k : s[m + i] = Pair(doc[i], row)
        BY <1>8, <1>9
      <4> QED
        BY <1>9, <4>1, <4>2 DEF ToSet
    <3> QED
      BY <3>1, <3>2, <3>3
  <2>5. PairsOfDocs' = PairsOfDocs \cup new
    <3>1. DOMAIN docs' = 1 .. row + 1 /\ DOMAIN docs = 1 .. row /\ docs'[row + 1] = doc
          /\ \A i \in 1 .. row : docs'[i] = docs[i]
      BY <1>1, <1>2 DEF row
    <3> DEFINE Of(d, i) == {Pair(d[k_1], i - 1) : k_1 \in DOMAIN d}
    <3>2. \A x : x \in PairsOfDocs <=> \E i \in 1 .. row : x \in Of(docs[i], i)
      BY <3>1, Zenon DEF PairsOfDocs
    <3>3. \A x : x \in PairsOfDocs' <=> \E i \in 1 .. row + 1 : x \in Of(docs'[i], i)
      BY <3>1, Zenon DEF PairsOfDocs
    <3>4. Of(docs'[row + 1], row + 1) = new
      BY <1>3, <3>1
    <3> HIDE DEF Of, new
    <3>5. \A i \in 1 .. row + 1 : i = row + 1 \/ (i \in 1 .. row /\ docs'[i] = docs[i])
      BY <1>3, <3>1
    <3>6. row + 1 \in 1 .. row + 1 /\ \A i \in 1 .. row : i \in 1 .. row + 1
      BY <1>3
    <3>7. \A x : x \in PairsOfDocs' <=> x \in PairsOfDocs \/ x \in new
      BY <3>1, <3>2, <3>3, <3>4, <3>5, <3>6
    <3> QED
      BY <3>7
  <2>6. ToSet(rows) \cup PairsLeft \cup PairsWritten \cup PairsIndexed = PairsOfDocs
    BY <1>14 DEF IInv, PairsKept
  <2>7. ToSet(rows)' = ToSet(s)
    BY <1>1 DEF s, ToSet
  <2> HIDE DEF new
  <2> QED
    BY <1>7, <2>1, <2>2, <2>3, <2>4, <2>5, <2>6, <2>7
<1>15. WriterFits' /\ IndexFits'
  BY <1>1, WriterStays, IndexStays DEF IInv, IndexFits
<1>16. MergeFits'
  BY <1>1 DEF IInv, MergeFits
<1>17. PairsKept'
  BY <1>1, <1>14 DEF PairsKept
<1> QED
  BY <1>13, <1>15, <1>16, <1>17 DEF IInv

\* The runs get their readers.
LEMMA AllCollected ==
    ASSUME IInv, Done
    PROVE  IInv'
<1>1. /\ phase = "collect" /\ runs' = Flushed /\ rows' = << >>
      /\ read' = [c \in DOMAIN runs' |-> 0] /\ phase' = "fill" /\ isFloat' = isFloat /\ docs' = docs
      /\ wValues' = wValues /\ wRowStart' = wRowStart /\ wRows' = wRows
      /\ totalValues' = totalValues /\ index' = index
  BY DEF Done, writer
<1>2. /\ isFloat \in BOOLEAN /\ docs \in Seq(Doc) /\ Len(docs) <= MaxDocs
      /\ ~isFloat => \A i \in DOMAIN docs : docs[i] \notin Vector
      /\ runs \in Seq(Seq(Pairs)) /\ read = << >>
  BY <1>1 DEF IInv, CollectedFit
<1>3. /\ Flushed \in Seq(Seq(Pairs))
      /\ \A c \in DOMAIN Flushed : Flushed[c] # << >> /\ InOrder(Flushed[c])
      /\ ~isFloat => \A c \in DOMAIN Flushed : Different(Flushed[c])
      /\ RunPairs(Flushed) = RunPairs(runs) \cup ToSet(rows)
  BY FlushedIs DEF IInv
<1>4. CollectedFit'
  <2>1. rows' \in Seq(Pairs) /\ Different(rows') /\ DOMAIN rows' = {}
    BY <1>1 DEF Different
  <2>2. read' \in [DOMAIN runs' -> Nat] /\ \A c \in DOMAIN runs' : read'[c] <= Len(runs'[c])
    <3>1. \A c \in DOMAIN runs' : Len(runs'[c]) \in Nat /\ read'[c] = 0
      BY <1>1, <1>3
    <3> QED
      BY <1>1, <3>1
  <2> QED
    BY <1>1, <1>2, <1>3, <2>1, <2>2 DEF CollectedFit
<1>5. WriterFits' /\ IndexFits' /\ PairsWritten' = PairsWritten /\ PairsIndexed' = PairsIndexed
  BY <1>1, WriterStays, IndexStays DEF IInv, IndexFits
<1>6. MergeFits'
  BY <1>1 DEF IInv, MergeFits
<1>7. PairsKept'
  <2>1. PairsLeft = RunPairs(runs)
    BY <1>2, NothingRead DEF Taken
  <2>2. PairsLeft' = RunPairs(runs')
    <3>1. \A c \in DOMAIN runs' : Taken(c)' = 0
      BY <1>1 DEF Taken
    <3> QED
      BY <1>1, <1>3, <3>1, NothingReadNext
  <2>3. RunPairs(runs') = RunPairs(Flushed) /\ ToSet(rows)' = {} /\ PairsOfDocs' = PairsOfDocs
    BY <1>1 DEF ToSet, PairsOfDocs
  <2> QED
    BY <1>1, <1>3, <1>5, <2>1, <2>2, <2>3 DEF IInv, PairsKept
<1> QED
  BY <1>4, <1>5, <1>6, <1>7 DEF IInv

\* Nothing is to be merged.
LEMMA NothingMerged ==
    ASSUME IInv, NoValue
    PROVE  IInv'
<1>1. /\ phase = "fill" /\ runs = << >> /\ phase' = "merge"
      /\ isFloat' = isFloat /\ docs' = docs /\ rows' = rows /\ runs' = runs /\ read' = read
      /\ wValues' = wValues /\ wRowStart' = wRowStart /\ wRows' = wRows
      /\ totalValues' = totalValues /\ index' = index
  BY DEF NoValue, writer
<1>2. CollectedFit'
  BY <1>1 DEF IInv, CollectedFit
<1>3. WriterFits' /\ IndexFits' /\ PairsWritten' = PairsWritten /\ PairsIndexed' = PairsIndexed
  BY <1>1, WriterStays, IndexStays DEF IInv, IndexFits
<1>4. MergeFits'
  BY <1>1 DEF IInv, MergeFits
<1>5. PairsKept'
  <2>1. ToSet(rows)' = ToSet(rows) /\ PairsOfDocs' = PairsOfDocs
    BY <1>1 DEF ToSet, PairsOfDocs
  <2>2. PairsLeft' = PairsLeft
    BY <1>1 DEF PairsLeft, Left, Taken
  <2> QED
    BY <1>1, <1>3, <2>1, <2>2 DEF IInv, PairsKept
<1> QED
  BY <1>2, <1>3, <1>4, <1>5 DEF IInv

\* A step in which nothing changes.
LEMMA NothingDone ==
    ASSUME IInv, UNCHANGED vars
    PROVE  IInv'
<1>1. /\ phase' = phase /\ isFloat' = isFloat /\ docs' = docs /\ rows' = rows /\ runs' = runs /\ read' = read
      /\ wValues' = wValues /\ wRowStart' = wRowStart /\ wRows' = wRows
      /\ totalValues' = totalValues /\ index' = index
  BY DEF vars, writer
<1>2. CollectedFit'
  BY <1>1 DEF IInv, CollectedFit
<1>3. WriterFits' /\ IndexFits' /\ PairsWritten' = PairsWritten /\ PairsIndexed' = PairsIndexed
  BY <1>1, WriterStays, IndexStays DEF IInv, IndexFits
<1>4. MergeFits'
  BY <1>1 DEF IInv, MergeFits, Left, Taken, Unread
<1>5. PairsKept'
  <2>1. ToSet(rows)' = ToSet(rows) /\ PairsOfDocs' = PairsOfDocs
    BY <1>1 DEF ToSet, PairsOfDocs
  <2>2. PairsLeft' = PairsLeft
    BY <1>1 DEF PairsLeft, Left, Taken
  <2> QED
    BY <1>1, <1>3, <2>1, <2>2 DEF IInv, PairsKept
<1> QED
  BY <1>2, <1>3, <1>4, <1>5 DEF IInv

-----------------------------------------------------------------------------
(* Merging. *)

\* The pair on top comes before everything else that is left.
LEMMA TopIsLeast ==
    ASSUME CollectedFit, phase # "collect", NEW c \in DOMAIN runs, Top(c)
    PROVE  /\ Upcoming(c) \in Pairs
           /\ read[c] \in Nat /\ read[c] + 1 \in Left(c) /\ read[c] < Len(runs[c])
           /\ \A d \in DOMAIN runs : \A i \in Left(d) :
                 /\ runs[d][i].value >= Upcoming(c).value
                 /\ ~isFloat => (d = c /\ i = read[c] + 1) \/ Before(Upcoming(c), runs[d][i])
<1>1. /\ runs \in Seq(Seq(Pairs)) /\ read \in [DOMAIN runs -> Nat]
      /\ \A d \in DOMAIN runs : InOrder(runs[d])
      /\ ~isFloat => \A d \in DOMAIN runs : Different(runs[d])
  BY DEF CollectedFit
<1>2. ASSUME NEW d \in DOMAIN runs
      PROVE  /\ Left(d) = read[d] + 1 .. Len(runs[d]) /\ read[d] \in Nat
             /\ runs[d] \in Seq(Pairs) /\ Len(runs[d]) \in Nat
             /\ \A i \in Left(d) : i \in DOMAIN runs[d] /\ runs[d][i] \in Pairs
             /\ Left(d) # {} => d \in Unread /\ read[d] + 1 \in Left(d)
  <2>1. Left(d) = read[d] + 1 .. Len(runs[d]) /\ read[d] \in Nat /\ runs[d] \in Seq(Pairs)
    BY <1>1 DEF Left, Taken
  <2>2. Len(runs[d]) \in Nat /\ DOMAIN runs[d] = 1 .. Len(runs[d])
    BY <2>1
  <2>3. \A i \in Left(d) : i \in DOMAIN runs[d] /\ runs[d][i] \in Pairs
    BY <2>1, <2>2
  <2>4. Left(d) # {} => read[d] < Len(runs[d])
    BY <2>1, <2>2
  <2> QED
    BY <2>1, <2>2, <2>3, <2>4 DEF Unread
<1> DEFINE p == Upcoming(c)
           at == read[c] + 1
<1>3. /\ at \in Left(c) /\ read[c] < Len(runs[c]) /\ p = runs[c][at]
      /\ \A d \in Unread \ {c} : Before(p, Upcoming(d))
  BY <1>2 DEF Top, Unread, Upcoming
<1>4. p \in Pairs
  BY <1>2, <1>3
<1> HIDE DEF p, at
<1>5. \A q \in Pairs : Before(p, q) \/ p = q \/ (~Before(q, p) /\ q.value >= p.value) => q.value >= p.value
  BY <1>4 DEF Before, Pairs
<1>6. ASSUME NEW d \in DOMAIN runs, NEW i \in Left(d)
      PROVE  /\ runs[d][i].value >= p.value
             /\ ~isFloat => (d = c /\ i = at) \/ Before(p, runs[d][i])
  <2> DEFINE q == runs[d][i]
             first == read[d] + 1
             e == runs[d][first]
  <2>1. q \in Pairs /\ i \in DOMAIN runs[d] /\ first \in Left(d) /\ first \in DOMAIN runs[d] /\ e \in Pairs
        /\ d \in Unread /\ first <= i
    <3>1. Left(d) # {}
      BY <1>6
    <3>2. first \in Left(d) /\ d \in Unread
      BY <1>2, <3>1
    <3>3. first <= i
      BY <1>2
    <3> QED
      BY <1>2, <3>2, <3>3
  <2>2. q = e \/ ~Before(q, e)
    <3>1. i = first \/ first < i
      BY <1>2, <2>1
    <3> QED
      BY <1>1, <2>1, <3>1 DEF InOrder
  <2>3. CASE d # c
    <3>1. Before(p, e)
      BY <1>3, <2>1, <2>3 DEF Upcoming
    <3> HIDE DEF q, e
    <3>2. Before(p, q)
      BY <1>4, <2>1, <2>2, <3>1, BeforeOrders
    <3>3. q.value >= p.value
      BY <1>5, <2>1, <3>2
    <3> QED
      BY <3>2, <3>3 DEF q
  <2>4. CASE d = c
    <3>1. e = p /\ first = at
      BY <1>3, <2>4 DEF at
    <3>2. q = p \/ ~Before(q, p)
      BY <2>2, <3>1, Zenon
    <3>3. ~isFloat /\ i # at => q # p
      <4>1. ~isFloat => Different(runs[d])
        BY <1>1
      <4> QED
        BY <2>1, <3>1, <4>1 DEF Different
    <3> HIDE DEF q, e, first
    <3>4. q # p => Before(p, q)
      BY <1>4, <2>1, <3>2, BeforeOrders
    <3>5. q.value >= p.value
      BY <1>4, <1>5, <2>1, <3>4
    <3> QED
      BY <2>4, <3>3, <3>4, <3>5 DEF q
  <2> QED
    BY <2>3, <2>4
<1> QED
  BY <1>2, <1>3, <1>4, <1>6 DEF p, at

\* What is left after the pair on top has been taken comes after it.
LEMMA TopTaken ==
    ASSUME CollectedFit, phase # "collect", NEW c \in DOMAIN runs, Top(c), Take(c),
           isFloat' = isFloat, docs' = docs, rows' = rows, runs' = runs, phase' = "merge"
    PROVE  /\ CollectedFit'
           /\ PairsLeft = PairsLeft' \cup {Upcoming(c)}
           /\ \A d \in DOMAIN runs : \A i \in Left(d)' :
                 /\ runs[d][i].value >= Upcoming(c).value
                 /\ ~isFloat => Before(Upcoming(c), runs[d][i])
<1>1. /\ Upcoming(c) \in Pairs
      /\ read[c] \in Nat /\ read[c] + 1 \in Left(c) /\ read[c] < Len(runs[c])
      /\ \A d \in DOMAIN runs : \A i \in Left(d) :
            /\ runs[d][i].value >= Upcoming(c).value
            /\ ~isFloat => (d = c /\ i = read[c] + 1) \/ Before(Upcoming(c), runs[d][i])
  BY TopIsLeast
<1>2. /\ runs \in Seq(Seq(Pairs)) /\ read \in [DOMAIN runs -> Nat]
      /\ \A d \in DOMAIN runs : read[d] <= Len(runs[d])
  BY DEF CollectedFit
<1>3. read' = [read EXCEPT ![c] = read[c] + 1]
  BY DEF Take
<1>4. /\ read' \in [DOMAIN runs -> Nat] /\ read'[c] = read[c] + 1
      /\ \A d \in DOMAIN runs : d # c => read'[d] = read[d]
  BY <1>1, <1>2, <1>3
<1>5. \A d \in DOMAIN runs : Len(runs[d]) \in Nat
  BY <1>2
<1>6. ASSUME NEW d \in DOMAIN runs PROVE read'[d] <= Len(runs[d])
  <2>1. CASE d = c
    BY <1>1, <1>4, <1>5, <2>1
  <2>2. CASE d # c
    BY <1>2, <1>4, <2>2
  <2> QED
    BY <2>1, <2>2
<1>7. CollectedFit'
  BY <1>4, <1>6 DEF CollectedFit
<1>8. ASSUME NEW d \in DOMAIN runs
      PROVE  /\ Left(d) = read[d] + 1 .. Len(runs[d])
             /\ Left(d)' = read'[d] + 1 .. Len(runs[d])
             /\ read[d] \in Nat /\ read'[d] \in Nat
  BY <1>2, <1>4 DEF Left, Taken
<1>9. \A d \in DOMAIN runs : d # c => Left(d)' = Left(d)
  BY <1>4, <1>8
<1>10. \A i : i \in Left(c) <=> i \in Left(c)' \/ i = read[c] + 1
  BY <1>1, <1>4, <1>5, <1>8
<1>11. read[c] + 1 \notin Left(c)'
  BY <1>1, <1>4, <1>8
<1>12. ASSUME NEW d \in DOMAIN runs, NEW i \in Left(d)'
       PROVE  i \in Left(d) /\ ~(d = c /\ i = read[c] + 1)
  BY <1>9, <1>10, <1>11
<1>13. PairsLeft = PairsLeft' \cup {Upcoming(c)}
  <2>1. \A x : x \in PairsLeft <=> \E d \in DOMAIN runs : \E i \in Left(d) : x = runs[d][i]
    BY DEF PairsLeft
  <2>2. \A x : x \in PairsLeft' <=> \E d \in DOMAIN runs : \E i \in Left(d)' : x = runs[d][i]
    BY DEF PairsLeft
  <2>3. Upcoming(c) = runs[c][read[c] + 1]
    BY DEF Upcoming
  <2>4. ASSUME NEW x, x \in PairsLeft PROVE x \in PairsLeft' \/ x = Upcoming(c)
    <3>1. PICK d \in DOMAIN runs : \E i \in Left(d) : x = runs[d][i]
      BY <2>1, <2>4
    <3>2. PICK i \in Left(d) : x = runs[d][i]
      BY <3>1
    <3>3. i \in Left(d)' \/ (d = c /\ i = read[c] + 1)
      BY <1>9, <1>10
    <3> QED
      BY <2>2, <2>3, <3>2, <3>3
  <2>5. ASSUME NEW x, x \in PairsLeft' PROVE x \in PairsLeft
    BY <1>12, <2>1, <2>2, <2>5
  <2>6. Upcoming(c) \in PairsLeft
    BY <1>1, <2>1, <2>3
  <2> QED
    BY <2>4, <2>5, <2>6
<1> QED
  BY <1>1, <1>7, <1>12, <1>13

-----------------------------------------------------------------------------
(* The writer. *)

\* The pairs in the writer, and after a step.
LEMMA WrittenAre ==
    /\ \A x : x \in PairsWritten <=>
          \E i \in DOMAIN wValues : \E k \in DOMAIN RowsAt(i) : x = Pair(wValues[i], RowsAt(i)[k])
    /\ \A x : x \in PairsWritten' <=>
          \E i \in DOMAIN wValues' : \E k \in DOMAIN RowsAt(i)' : x = Pair(wValues'[i], RowsAt(i)'[k])
<1>1. \A x : x \in PairsWritten <=>
          \E i \in DOMAIN wValues : \E k \in DOMAIN RowsAt(i) : x = Pair(wValues[i], RowsAt(i)[k])
  BY DEF PairsWritten
<1>2. \A x : x \in PairsWritten' <=>
          \E i \in DOMAIN wValues' : \E k \in DOMAIN RowsAt(i)' : x = Pair(wValues'[i], RowsAt(i)'[k])
  BY DEF PairsWritten, Pair
<1> QED
  BY <1>1, <1>2

\* A writer with one value.
LEMMA WriterStarts ==
    ASSUME NEW v \in Int, NEW r \in Nat, isFloat' = isFloat,
           wValues' = Append(<< >>, v), wRowStart' = Append(<< >>, Len(<< >>)), wRows' = Append(<< >>, r)
    PROVE  WriterFits' /\ PairsWritten' = {Pair(v, r)}
<1>1. /\ wValues' \in Seq(Int) /\ Len(wValues') = 1 /\ wValues'[1] = v /\ DOMAIN wValues' = {1}
      /\ wRowStart' \in Seq(Nat) /\ Len(wRowStart') = 1 /\ wRowStart'[1] = 0 /\ DOMAIN wRowStart' = {1}
      /\ wRows' \in Seq(Nat) /\ Len(wRows') = 1 /\ wRows'[1] = r
  OBVIOUS
<1>2. RowCount(1)' = 1
  BY <1>1 DEF RowCount
<1>3. RowsAt(1)' = [k \in 1 .. 1 |-> wRows'[0 + k]]
  BY <1>1, <1>2 DEF RowsAt
<1>4. DOMAIN RowsAt(1)' = {1} /\ RowsAt(1)'[1] = r
  BY <1>1, <1>3
<1>5. Rising(wValues') /\ Rising(wRowStart') /\ Rising(RowsAt(1)')
  BY <1>1, <1>4 DEF Rising
<1>6. ValuesPerBlock \in Nat \ {0}
  BY BuilderAssumption
<1>7. WriterFits'
  BY <1>1, <1>5, <1>6 DEF WriterFits
<1>8. PairsWritten' = {Pair(v, r)}
  <2>1. ASSUME NEW x PROVE x \in PairsWritten' <=> x = Pair(v, r)
    BY <1>1, <1>4, WrittenAre
  <2> QED
    BY <2>1
<1> QED
  BY <1>7, <1>8

\* A value more in the writer, with its first row.
LEMMA WriterAdds ==
    ASSUME WriterFits, wValues # << >>, Len(wValues) < ValuesPerBlock, NEW v \in Int, NEW r \in Nat,
           v > wValues[Len(wValues)], isFloat' = isFloat,
           wValues' = Append(wValues, v), wRowStart' = Append(wRowStart, Len(wRows)), wRows' = Append(wRows, r)
    PROVE  WriterFits' /\ PairsWritten' = PairsWritten \cup {Pair(v, r)}
<1> DEFINE n == Len(wValues)
           l == Len(wRows)
<1>1. /\ wValues \in Seq(Int) /\ wRowStart \in Seq(Nat) /\ wRows \in Seq(Nat)
      /\ Len(wRowStart) = n /\ n \in Nat /\ l \in Nat /\ n # 0 /\ DOMAIN wValues = 1 .. n
      /\ \A i, j \in 1 .. n : i < j => wRowStart[i] < wRowStart[j]
      /\ \A i, j \in 1 .. n : i < j => wValues[i] < wValues[j]
      /\ \A i \in 1 .. n : wRowStart[i] \in Nat /\ wRowStart[i] < l /\ wValues[i] \in Int
      /\ ~isFloat => \A i \in 1 .. n : Rising(RowsAt(i))
  <2>1. wValues \in Seq(Int) /\ wRowStart \in Seq(Nat) /\ wRows \in Seq(Nat) /\ Len(wRowStart) = n
    BY DEF WriterFits
  <2>2. DOMAIN wRowStart = 1 .. n /\ DOMAIN wValues = 1 .. n
    BY <2>1
  <2>3. /\ \A i, j \in 1 .. n : i < j => wRowStart[i] < wRowStart[j]
        /\ \A i, j \in 1 .. n : i < j => wValues[i] < wValues[j]
        /\ \A i \in 1 .. n : wRowStart[i] < l
        /\ ~isFloat => \A i \in 1 .. n : Rising(RowsAt(i))
    BY <2>2 DEF WriterFits, Rising
  <2>4. n \in Nat /\ l \in Nat /\ n # 0 /\ \A i \in 1 .. n : wRowStart[i] \in Nat /\ wValues[i] \in Int
    BY <2>1
  <2> QED
    BY <2>1, <2>2, <2>3, <2>4, Zenon
<1>2. /\ wValues' \in Seq(Int) /\ Len(wValues') = n + 1 /\ DOMAIN wValues' = 1 .. n + 1
      /\ wValues'[n + 1] = v /\ \A i \in 1 .. n : wValues'[i] = wValues[i]
  <2>1. wValues' \in Seq(Int) /\ Len(wValues') = n + 1
    BY <1>1, AppendProperties
  <2>2. wValues'[n + 1] = v /\ \A i \in 1 .. n : wValues'[i] = wValues[i]
    BY <1>1, AppendProperties
  <2> QED
    BY <2>1, <2>2
<1>3. /\ wRowStart' \in Seq(Nat) /\ Len(wRowStart') = n + 1 /\ DOMAIN wRowStart' = 1 .. n + 1
      /\ wRowStart'[n + 1] = l /\ \A i \in 1 .. n : wRowStart'[i] = wRowStart[i]
  <2>1. wRowStart' \in Seq(Nat) /\ Len(wRowStart') = n + 1
    BY <1>1, AppendProperties
  <2>2. wRowStart'[n + 1] = l /\ \A i \in 1 .. n : wRowStart'[i] = wRowStart[i]
    BY <1>1, AppendProperties
  <2> QED
    BY <2>1, <2>2
<1>4. /\ wRows' \in Seq(Nat) /\ Len(wRows') = l + 1
      /\ wRows'[l + 1] = r /\ \A i \in 1 .. l : wRows'[i] = wRows[i]
  BY <1>1, AppendProperties
<1> HIDE DEF n, l
<1>5. ASSUME NEW i \in 1 .. n PROVE RowsAt(i)' = RowsAt(i)
  <2>1. i \in DOMAIN wValues
    BY <1>1
  <2>2. RowCount(i) \in Nat /\ wRowStart[i] + RowCount(i) <= l /\ wRowStart[i] \in Nat
    BY <2>1, WriterRows DEF l
  <2>3. RowCount(i)' = RowCount(i)
    <3>1. CASE i < n
      <4>1. i + 1 \in 1 .. n
        BY <1>1, <3>1
      <4> QED
        BY <1>1, <1>3, <3>1, <4>1 DEF RowCount
    <3>2. CASE i = n
      <4>1. RowCount(i) = l - wRowStart[n]
        BY <1>1, <3>2 DEF RowCount, l
      <4>2. RowCount(i)' = wRowStart'[n + 1] - wRowStart'[n]
        BY <1>1, <1>3, <3>2 DEF RowCount
      <4> QED
        BY <1>3, <3>2, <4>1, <4>2
    <3> QED
      BY <1>1, <3>1, <3>2
  <2>4. wRowStart'[i] = wRowStart[i]
    BY <1>3
  <2>5. \A k \in 1 .. RowCount(i) : wRows'[wRowStart[i] + k] = wRows[wRowStart[i] + k]
    <3>1. \A k \in 1 .. RowCount(i) : wRowStart[i] + k \in 1 .. l
      <4> DEFINE a == wRowStart[i]
                 b == RowCount(i)
      <4>1. a \in Nat /\ b \in Nat /\ a + b <= l /\ l \in Nat
        BY <1>1, <2>2
      <4> HIDE DEF a, b
      <4>2. \A k \in 1 .. b : a + k \in 1 .. l
        BY <4>1
      <4> QED
        BY <4>2 DEF a, b
    <3> QED
      BY <1>4, <3>1
  <2> QED
    BY <2>3, <2>4, <2>5 DEF RowsAt
<1>6. ASSUME NEW i, i = n + 1 PROVE RowCount(i)' = 1
  <2>1. RowCount(i)' = Len(wRows') - wRowStart'[n + 1]
    BY <1>1, <1>3, <1>6 DEF RowCount
  <2> QED
    BY <1>1, <1>3, <1>4, <2>1
<1>7. ASSUME NEW i, i = n + 1 PROVE DOMAIN RowsAt(i)' = {1} /\ RowsAt(i)'[1] = r
  <2>1. RowsAt(i)' = [k \in 1 .. 1 |-> wRows'[l + k]]
    <3>1. RowCount(i)' = 1
      BY <1>6, <1>7
    <3>2. wRowStart'[i] = l
      BY <1>3, <1>7
    <3> QED
      BY <3>1, <3>2 DEF RowsAt
  <2> QED
    BY <1>1, <1>4, <2>1
<1>8. \A i \in 1 .. n + 1 : i = n + 1 \/ i \in 1 .. n
  BY <1>1
<1>9. n + 1 \in 1 .. n + 1 /\ \A i \in 1 .. n : i \in 1 .. n + 1 /\ i < n + 1
  BY <1>1
<1>10. Rising(wValues')
  <2>1. \A i \in 1 .. n : wValues[i] < v
    <3> SUFFICES ASSUME NEW i \in 1 .. n PROVE wValues[i] < v
      OBVIOUS
    <3>1. i = n \/ (i < n /\ n \in 1 .. n)
      BY <1>1
    <3>2. v > wValues[n] /\ n \in 1 .. n
      BY <1>1 DEF n
    <3>3. wValues[i] \in Int /\ wValues[n] \in Int
      BY <1>1, <3>2
    <3>4. i = n \/ wValues[i] < wValues[n]
      BY <1>1, <3>1
    <3> QED
      BY <3>2, <3>3, <3>4
  <2> SUFFICES ASSUME NEW i \in 1 .. n + 1, NEW j \in 1 .. n + 1, i < j PROVE wValues'[i] < wValues'[j]
    BY <1>2 DEF Rising
  <2>2. i \in 1 .. n
    BY <1>1
  <2> QED
    BY <1>1, <1>2, <1>8, <2>1, <2>2
<1>11. Rising(wRowStart')
  <2> SUFFICES ASSUME NEW i \in 1 .. n + 1, NEW j \in 1 .. n + 1, i < j PROVE wRowStart'[i] < wRowStart'[j]
    BY <1>3 DEF Rising
  <2>2. i \in 1 .. n
    BY <1>1
  <2> QED
    BY <1>1, <1>3, <1>8, <2>2
<1>12. \A i \in 1 .. n + 1 : wRowStart'[i] < l + 1
  BY <1>1, <1>3, <1>8
<1>13. ~isFloat => \A i \in 1 .. n + 1 : Rising(RowsAt(i)')
  <2> SUFFICES ASSUME ~isFloat, NEW i \in 1 .. n + 1 PROVE Rising(RowsAt(i)')
    OBVIOUS
  <2>1. CASE i = n + 1
    BY <1>7, <2>1 DEF Rising
  <2>2. CASE i \in 1 .. n
    BY <1>1, <1>5, <2>2
  <2> QED
    BY <1>8, <2>1, <2>2
<1>14. WriterFits'
  <2>1. n + 1 <= ValuesPerBlock
    <3>1. ValuesPerBlock \in Nat /\ n < ValuesPerBlock
      BY BuilderAssumption DEF n
    <3> QED
      BY <1>1, <3>1
  <2> QED
    BY <1>2, <1>3, <1>4, <1>10, <1>11, <1>12, <1>13, <2>1 DEF WriterFits
<1>15. PairsWritten' = PairsWritten \cup {Pair(v, r)}
  <2>1. ASSUME NEW x, x \in PairsWritten' PROVE x \in PairsWritten \/ x = Pair(v, r)
    <3>1. PICK i \in 1 .. n + 1 : \E k \in DOMAIN RowsAt(i)' : x = Pair(wValues'[i], RowsAt(i)'[k])
      BY <1>2, <2>1, WrittenAre
    <3>2. CASE i = n + 1
      <4>1. DOMAIN RowsAt(i)' = {1} /\ RowsAt(i)'[1] = r /\ wValues'[i] = v
        BY <1>2, <1>7, <3>2
      <4>2. PICK k \in DOMAIN RowsAt(i)' : x = Pair(wValues'[i], RowsAt(i)'[k])
        BY <3>1
      <4>3. k = 1
        BY <4>1
      <4> QED
        BY <4>1, <4>2, <4>3
    <3>3. CASE i \in 1 .. n
      BY <1>1, <1>2, <1>5, <3>1, <3>3, WrittenAre
    <3> QED
      BY <1>8, <3>2, <3>3
  <2>2. ASSUME NEW x, x \in PairsWritten PROVE x \in PairsWritten'
    <3>1. PICK i \in 1 .. n : \E k \in DOMAIN RowsAt(i) : x = Pair(wValues[i], RowsAt(i)[k])
      BY <1>1, <2>2, WrittenAre
    <3> QED
      BY <1>2, <1>5, <1>9, <3>1, WrittenAre
  <2>3. Pair(v, r) \in PairsWritten'
    <3>1. PICK i \in 1 .. n + 1 : i = n + 1
      BY <1>9
    <3>2. 1 \in DOMAIN RowsAt(i)' /\ Pair(v, r) = Pair(wValues'[i], RowsAt(i)'[1])
      BY <1>2, <1>7, <3>1
    <3> QED
      BY <1>2, <3>2, WrittenAre
  <2> QED
    BY <2>1, <2>2, <2>3
<1> QED
  BY <1>14, <1>15

\* One row more of the value that came last.
LEMMA WriterGrows ==
    ASSUME WriterFits, wValues # << >>, NEW r \in Nat, isFloat' = isFloat,
           ~isFloat => wRows[Len(wRows)] < r,
           wValues' = wValues, wRowStart' = wRowStart, wRows' = Append(wRows, r)
    PROVE  WriterFits' /\ PairsWritten' = PairsWritten \cup {Pair(wValues[Len(wValues)], r)}
<1> DEFINE n == Len(wValues)
           l == Len(wRows)
           c == RowCount(n)
           s == wRowStart[n]
<1>1. /\ wRowStart \in Seq(Nat) /\ wRows \in Seq(Nat)
      /\ Len(wRowStart) = n /\ n \in Nat /\ l \in Nat /\ n \in 1 .. n /\ DOMAIN wValues = 1 .. n
      /\ DOMAIN wRowStart = 1 .. n
      /\ \A i \in 1 .. n : wRowStart[i] < l
      /\ ~isFloat => \A i \in 1 .. n : Rising(RowsAt(i))
  <2>1. wValues \in Seq(Int) /\ wRowStart \in Seq(Nat) /\ wRows \in Seq(Nat) /\ Len(wRowStart) = n
    BY DEF WriterFits
  <2>2. DOMAIN wRowStart = 1 .. n /\ DOMAIN wValues = 1 .. n
    BY <2>1
  <2>3. /\ \A i \in 1 .. n : wRowStart[i] < l
        /\ ~isFloat => \A i \in 1 .. n : Rising(RowsAt(i))
    BY <2>2 DEF WriterFits
  <2>4. n \in Nat /\ l \in Nat /\ n \in 1 .. n
    BY <2>1
  <2> QED
    BY <2>1, <2>2, <2>3, <2>4, Zenon
<1>2. /\ wRows' \in Seq(Nat) /\ Len(wRows') = l + 1
      /\ wRows'[l + 1] = r /\ \A i \in 1 .. l : wRows'[i] = wRows[i]
  BY <1>1, AppendProperties
<1>3. ASSUME NEW i \in 1 .. n
      PROVE  /\ wRowStart[i] \in Nat /\ RowCount(i) \in Nat \ {0} /\ wRowStart[i] + RowCount(i) <= l
             /\ DOMAIN RowsAt(i) = 1 .. RowCount(i)
             /\ \A k \in 1 .. RowCount(i) : RowsAt(i)[k] = wRows[wRowStart[i] + k]
  BY <1>1, <1>3, WriterRows DEF RowsAt
<1>4. s \in Nat /\ c \in Nat \ {0} /\ s + c = l
  BY <1>1, <1>3, WriterRows
<1> HIDE DEF l
<1>5. ASSUME NEW i \in 1 .. n, i < n PROVE RowsAt(i)' = RowsAt(i)
  <2>1. RowCount(i)' = RowCount(i)
    BY <1>1, <1>5 DEF RowCount
  <2>2. \A k \in 1 .. RowCount(i) : wRows'[wRowStart[i] + k] = wRows[wRowStart[i] + k]
    <3> DEFINE a == wRowStart[i]
               b == RowCount(i)
    <3>1. a \in Nat /\ b \in Nat /\ a + b <= l /\ l \in Nat
      BY <1>1, <1>3
    <3> HIDE DEF a, b
    <3>2. \A k \in 1 .. b : a + k \in 1 .. l
      BY <3>1
    <3>3. \A k \in 1 .. b : wRows'[a + k] = wRows[a + k]
      BY <1>2, <3>2
    <3> QED
      BY <3>3 DEF a, b
  <2> QED
    BY <2>1, <2>2 DEF RowsAt
<1>6. ASSUME NEW i, i = n
      PROVE  /\ DOMAIN RowsAt(i)' = 1 .. c + 1 /\ RowsAt(i)'[c + 1] = r
             /\ DOMAIN RowsAt(i) = 1 .. c /\ RowsAt(i)[c] = wRows[l]
             /\ \A k \in 1 .. c : RowsAt(i)'[k] = RowsAt(i)[k] /\ RowsAt(i)[k] \in Nat
  <2>1. RowCount(i)' = c + 1 /\ RowCount(i) = c
    <3>1. RowCount(i) = l - s
      BY <1>1, <1>6 DEF RowCount, l
    <3>2. RowCount(i)' = l + 1 - s
      BY <1>1, <1>2, <1>6 DEF RowCount
    <3> QED
      BY <1>1, <1>4, <3>1, <3>2
  <2>2. wRowStart[i] = s /\ wRowStart'[i] = s
    BY <1>6
  <2>3. RowsAt(i)' = [k \in 1 .. c + 1 |-> wRows'[s + k]]
    BY <2>1, <2>2 DEF RowsAt
  <2>4. RowsAt(i) = [k \in 1 .. c |-> wRows[s + k]]
    BY <2>1, <2>2 DEF RowsAt
  <2> DEFINE t == RowsAt(i)
             u == RowsAt(i)'
  <2>5. t = [k \in 1 .. c |-> wRows[s + k]] /\ u = [k \in 1 .. c + 1 |-> wRows'[s + k]]
    BY <2>3, <2>4
  <2> HIDE DEF t, u, c, s
  <2>6. /\ c + 1 \in 1 .. c + 1 /\ s + (c + 1) = l + 1 /\ c \in 1 .. c
        /\ \A k \in 1 .. c : k \in 1 .. c + 1 /\ s + k \in 1 .. l
    BY <1>1, <1>4
  <2>7. u[c + 1] = r
    BY <1>2, <2>5, <2>6
  <2>8. t[c] = wRows[l]
    BY <1>4, <2>5, <2>6
  <2>9. ASSUME NEW k \in 1 .. c PROVE u[k] = t[k] /\ t[k] \in Nat
    <3>1. s + k \in 1 .. l /\ k \in 1 .. c + 1
      BY <2>6
    <3>2. wRows[s + k] \in Nat
      BY <1>1, <3>1 DEF l
    <3> QED
      BY <1>2, <2>5, <3>1, <3>2
  <2> QED
    BY <2>5, <2>7, <2>8, <2>9 DEF t, u
<1> HIDE DEF n, c, s
<1>7. \A i \in 1 .. n : i = n \/ i < n
  BY <1>1
<1>8. ~isFloat => \A i \in 1 .. n : Rising(RowsAt(i)')
  <2> SUFFICES ASSUME ~isFloat, NEW i \in 1 .. n PROVE Rising(RowsAt(i)')
    OBVIOUS
  <2>1. CASE i < n
    BY <1>1, <1>5, <2>1
  <2>2. CASE i = n
    <3> DEFINE t == RowsAt(i)
               u == RowsAt(i)'
    <3>1. /\ DOMAIN u = 1 .. c + 1 /\ u[c + 1] = r
          /\ DOMAIN t = 1 .. c /\ t[c] = wRows[l]
          /\ \A k \in 1 .. c : u[k] = t[k] /\ t[k] \in Nat
      BY <1>6, <2>2
    <3>2. Rising(t)
      BY <1>1
    <3> HIDE DEF t, u
    <3>3. t[c] < r
      BY <3>1 DEF l
    <3>4. \A k \in 1 .. c : t[k] < r
      <4> SUFFICES ASSUME NEW k \in 1 .. c PROVE t[k] < r
        OBVIOUS
      <4>1. k = c \/ (k < c /\ c \in 1 .. c)
        BY <1>4
      <4>2. k = c \/ t[k] < t[c]
        BY <3>1, <3>2, <4>1 DEF Rising
      <4>3. t[k] \in Nat /\ t[c] \in Nat
        BY <1>4, <3>1
      <4> QED
        BY <3>3, <4>2, <4>3
    <3>5. ASSUME NEW j \in 1 .. c + 1, NEW k \in 1 .. c + 1, j < k PROVE u[j] < u[k]
      <4>1. j \in 1 .. c /\ (k = c + 1 \/ k \in 1 .. c)
        BY <1>4, <3>5
      <4>2. CASE k = c + 1
        BY <3>1, <3>4, <4>1, <4>2
      <4>3. CASE k \in 1 .. c
        BY <3>1, <3>2, <3>5, <4>1, <4>3 DEF Rising
      <4> QED
        BY <4>1, <4>2, <4>3
    <3> QED
      BY <3>1, <3>5 DEF Rising, u
  <2> QED
    BY <1>7, <2>1, <2>2
<1>9. WriterFits'
  <2>1. \A i \in 1 .. n : wRowStart[i] < Len(wRows')
    BY <1>1, <1>2, <1>3
  <2> QED
    BY <1>1, <1>2, <1>8, <2>1 DEF WriterFits
<1>10. PairsWritten' = PairsWritten \cup {Pair(wValues[n], r)}
  <2>1. ASSUME NEW x, x \in PairsWritten' PROVE x \in PairsWritten \/ x = Pair(wValues[n], r)
    <3>1. PICK i \in 1 .. n : \E k \in DOMAIN RowsAt(i)' : x = Pair(wValues[i], RowsAt(i)'[k])
      BY <1>1, <2>1, WrittenAre
    <3>2. CASE i < n
      BY <1>1, <1>5, <3>1, <3>2, WrittenAre
    <3>3. CASE i = n
      <4>1. PICK k \in DOMAIN RowsAt(i)' : x = Pair(wValues[i], RowsAt(i)'[k])
        BY <3>1
      <4>2. k \in 1 .. c \/ k = c + 1
        BY <1>4, <1>6, <3>3
      <4>3. CASE k = c + 1
        BY <1>6, <3>3, <4>1, <4>3
      <4>4. CASE k \in 1 .. c
        <5>1. k \in DOMAIN RowsAt(i) /\ x = Pair(wValues[i], RowsAt(i)[k])
          BY <1>6, <3>3, <4>1, <4>4
        <5> QED
          BY <1>1, <5>1, WrittenAre
      <4> QED
        BY <4>2, <4>3, <4>4
    <3> QED
      BY <1>7, <3>2, <3>3
  <2>2. ASSUME NEW x, x \in PairsWritten PROVE x \in PairsWritten'
    <3>1. PICK i \in 1 .. n : \E k \in DOMAIN RowsAt(i) : x = Pair(wValues[i], RowsAt(i)[k])
      BY <1>1, <2>2, WrittenAre
    <3>2. CASE i < n
      BY <1>1, <1>5, <3>1, <3>2, WrittenAre
    <3>3. CASE i = n
      <4>1. PICK k \in DOMAIN RowsAt(i) : x = Pair(wValues[i], RowsAt(i)[k])
        BY <3>1
      <4>2. k \in 1 .. c + 1 /\ k \in 1 .. c
        BY <1>4, <1>6, <3>3, <4>1
      <4>3. k \in DOMAIN RowsAt(i)' /\ x = Pair(wValues[i], RowsAt(i)'[k])
        BY <1>6, <3>3, <4>1, <4>2
      <4> QED
        BY <1>1, <4>3, WrittenAre
    <3> QED
      BY <1>7, <3>2, <3>3
  <2>3. Pair(wValues[n], r) \in PairsWritten'
    <3>1. PICK i \in 1 .. n : i = n
      BY <1>1
    <3>2. c + 1 \in DOMAIN RowsAt(i)' /\ Pair(wValues[n], r) = Pair(wValues[i], RowsAt(i)'[c + 1])
      BY <1>4, <1>6, <3>1
    <3> QED
      BY <1>1, <3>2, WrittenAre
  <2> QED
    BY <2>1, <2>2, <2>3
<1> QED
  BY <1>9, <1>10 DEF n

-----------------------------------------------------------------------------
(* The index. *)

\* An item says of its rows what they are.
LEMMA ItemDescribes ==
    ASSUME WriterFits, NEW k \in DOMAIN wValues, NEW item, ItemIs(item, k)
    PROVE  Described(item) /\ item \in Item /\ item.value = wValues[k] /\ RowsOf(item) = RowsAt(k)
<1> DEFINE s == RowsOf(item)
           c == RowCount(k)
<1>1. /\ item \in Item /\ item.value = wValues[k] /\ s = RowsAt(k) /\ item.count = c
      /\ item.min = RowsAt(k)[1] /\ item.max = RowsAt(k)[c]
      /\ item.packing = "ROW_BLOCKS_LIST" =>
            item.table = [p \in DOMAIN item.pieces |-> <<item.pieces[p][1], Last(item.pieces[p])>>]
  BY Zenon DEF ItemIs
<1>2. RowsAt(k) \in Seq(Nat) /\ Len(RowsAt(k)) = c /\ c \in Nat \ {0}
  BY WriterRows
<1>3. ~isFloat => Rising(RowsAt(k))
  BY DEF WriterFits
<1> HIDE DEF s, c
<1>4. s \in Seq(Nat) /\ Len(s) = c /\ s # << >> /\ (~isFloat => Rising(s))
  BY <1>1, <1>2, <1>3
<1>5. item.count = Len(s) /\ item.min = s[1] /\ item.max = Last(s)
  BY <1>1, <1>4 DEF Last
<1>6. Described(item)
  BY <1>1, <1>4, <1>5, Zenon DEF Described, s
<1> QED
  BY <1>1, <1>6 DEF s

\* The pairs of items, and those in the index after a step.
LEMMA PairsOfAre ==
    ASSUME NEW items, NEW x
    PROVE  x \in PairsOf(items) <=>
              \E i \in DOMAIN items : \E k \in DOMAIN RowsOf(items[i]) :
                 x = Pair(items[i].value, RowsOf(items[i])[k])
BY DEF PairsOf

\* The pairs of the index, after a step.
LEMMA IndexedNext == PairsIndexed' = PairsOf(Items')
BY Zenon DEF PairsIndexed, PairsOf, RowsOf, Pair

\* The value of an item is a number.
LEMMA ItemValue ==
    ASSUME NEW item \in Item
    PROVE  item.value \in Int
BY DEF Item

\* A block more in the index: the values of the writer come after those before it.
LEMMA BlockFlushed ==
    ASSUME WriterFits, IndexFits, phase # "done", wValues # << >>,
           Len(wValues) = ValuesPerBlock \/ phase' = "done",
           isFloat' = isFloat, totalValues' = totalValues + Len(wValues),
           index' = Append(index, BlockOfValues),
           wValues' # << >> => wValues'[1] \in Int /\ wValues'[1] > wValues[Len(wValues)]
    PROVE  IndexFits' /\ PairsIndexed' = PairsIndexed \cup PairsWritten
<1> DEFINE block == BlockOfValues
           m == Len(Items)
           n == Len(wValues)
           l == Len(index)
<1>1. /\ block \in Seq(Item) /\ Len(block) = n
      /\ \A k \in 1 .. n : ItemIs(block[k], k)
  BY BlockIs DEF BlockFits
<1>2. /\ index \in Seq(Seq(Item)) /\ totalValues = m
      /\ \A b \in DOMAIN index : Len(index[b]) = ValuesPerBlock
      /\ \A i \in DOMAIN Items : Described(Items[i])
      /\ \A i, j \in DOMAIN Items : i < j => Items[i].value < Items[j].value
      /\ \A i \in DOMAIN Items : Items[i].value < wValues[1]
  BY DEF IndexFits
<1>3. /\ wValues \in Seq(Int) /\ n \in Nat /\ n # 0 /\ DOMAIN wValues = 1 .. n
      /\ \A i, j \in 1 .. n : i < j => wValues[i] < wValues[j]
      /\ \A i \in 1 .. n : wValues[i] \in Int
  <2>1. wValues \in Seq(Int) /\ Rising(wValues)
    BY DEF WriterFits
  <2> QED
    BY <2>1 DEF Rising
<1>4. Items \in Seq(Item) /\ m \in Nat /\ DOMAIN Items = 1 .. m
  <2>1. Items \in Seq(Item)
    BY <1>2, FlattenType DEF Items
  <2> HIDE DEF Items
  <2> QED
    BY <2>1
<1>5. Items' = Items \o block
  BY <1>1, <1>2, FlattenAppend DEF Items
<1>6. /\ index' \in Seq(Seq(Item)) /\ Len(index') = l + 1 /\ l \in Nat /\ DOMAIN index = 1 .. l
      /\ DOMAIN index' = 1 .. l + 1 /\ index'[l + 1] = block
      /\ \A b \in 1 .. l : index'[b] = index[b]
  <2>1. index' \in Seq(Seq(Item)) /\ Len(index') = l + 1
    BY <1>1, <1>2, AppendProperties
  <2>2. index'[l + 1] = block /\ \A b \in 1 .. l : index'[b] = index[b]
    BY <1>1, <1>2, AppendProperties
  <2>3. l \in Nat /\ DOMAIN index = 1 .. l
    BY <1>2
  <2> QED
    BY <2>1, <2>2, <2>3
<1> HIDE DEF block, m, n, l, Items
<1> DEFINE items == Items'
<1>7. /\ items \in Seq(Item) /\ Len(items) = m + n /\ DOMAIN items = 1 .. m + n
      /\ \A i \in 1 .. m : items[i] = Items[i]
      /\ \A k \in 1 .. n : items[m + k] = block[k]
  <2> DEFINE t == Items \o block
  <2>1. /\ t \in Seq(Item) /\ Len(t) = m + n
        /\ \A i \in 1 .. m + n : t[i] = IF i <= m THEN Items[i] ELSE block[i - m]
    BY <1>1, <1>4, ConcatProperties DEF m
  <2> HIDE DEF t
  <2>2. items = t
    BY <1>5 DEF t
  <2> HIDE DEF items
  <2>3. ASSUME NEW i \in 1 .. m PROVE t[i] = Items[i]
    <3>1. i \in 1 .. m + n /\ i <= m
      BY <1>3, <1>4
    <3> QED
      BY <2>1, <3>1
  <2>4. ASSUME NEW k \in 1 .. n PROVE t[m + k] = block[k]
    <3> DEFINE j == m + k
    <3>1. j \in 1 .. m + n /\ ~(j <= m) /\ j - m = k
      BY <1>3, <1>4
    <3> HIDE DEF j
    <3>2. t[j] = block[k]
      BY <2>1, <3>1
    <3> QED
      BY <3>2 DEF j
  <2> QED
    BY <2>1, <2>2, <2>3, <2>4
<1> HIDE DEF items
<1>8. ASSUME NEW i \in 1 .. m + n
      PROVE  (i \in 1 .. m /\ items[i] = Items[i]) \/ \E k \in 1 .. n : i = m + k /\ items[i] = block[k]
  <2>1. CASE i <= m
    <3>1. i \in 1 .. m
      BY <1>4, <2>1
    <3> QED
      BY <1>7, <3>1
  <2>2. CASE i > m
    <3>1. i - m \in 1 .. n /\ i = m + (i - m)
      BY <1>3, <1>4, <2>2
    <3>2. items[m + (i - m)] = block[i - m]
      BY <1>7, <3>1
    <3> QED
      BY <3>1, <3>2
  <2> QED
    BY <1>4, <2>1, <2>2
<1>9. ASSUME NEW k \in 1 .. n
      PROVE  Described(block[k]) /\ block[k].value = wValues[k] /\ RowsOf(block[k]) = RowsAt(k)
  BY <1>1, <1>3, ItemDescribes
<1>10. \A i \in 1 .. m + n : Described(items[i])
  BY <1>2, <1>4, <1>8, <1>9
<1>11. \A k \in 1 .. n : wValues[1] <= wValues[k] /\ wValues[k] <= wValues[n]
  <2> SUFFICES ASSUME NEW k \in 1 .. n PROVE wValues[1] <= wValues[k] /\ wValues[k] <= wValues[n]
    OBVIOUS
  <2>1. 1 \in 1 .. n /\ n \in 1 .. n /\ (k = 1 \/ 1 < k) /\ (k = n \/ k < n)
    BY <1>3
  <2>2. wValues[1] \in Int /\ wValues[k] \in Int /\ wValues[n] \in Int
    BY <1>3, <2>1
  <2>3. (k = 1 \/ wValues[1] < wValues[k]) /\ (k = n \/ wValues[k] < wValues[n])
    BY <1>3, <2>1
  <2> QED
    BY <2>2, <2>3
<1>12. \A i \in 1 .. m : Items[i].value \in Int
  <2>1. \A i \in 1 .. m : Items[i] \in Item
    BY <1>4
  <2> QED
    BY <2>1, ItemValue
<1>13. ASSUME NEW i \in 1 .. m + n, NEW j \in 1 .. m + n, i < j PROVE items[i].value < items[j].value
  <2>1. CASE i \in 1 .. m /\ items[i] = Items[i] /\ j \in 1 .. m /\ items[j] = Items[j]
    BY <1>2, <1>4, <1>13, <2>1
  <2>2. ASSUME i \in 1 .. m, items[i] = Items[i], NEW k \in 1 .. n, items[j] = block[k]
        PROVE  items[i].value < items[j].value
    <3>1. items[i].value < wValues[1] /\ items[i].value \in Int
      BY <1>2, <1>4, <1>12, <2>2
    <3>2. items[j].value = wValues[k] /\ wValues[1] <= wValues[k] /\ wValues[1] \in Int /\ wValues[k] \in Int
      BY <1>3, <1>9, <1>11, <2>2
    <3> QED
      BY <3>1, <3>2
  <2>3. ASSUME NEW h \in 1 .. n, i = m + h, items[i] = block[h],
               NEW k \in 1 .. n, j = m + k, items[j] = block[k]
        PROVE  items[i].value < items[j].value
    <3>1. h < k
      BY <1>3, <1>4, <1>13, <2>3
    <3> QED
      BY <1>3, <1>9, <2>3, <3>1
  <2>4. ASSUME NEW h \in 1 .. n, i = m + h PROVE j \notin 1 .. m
    BY <1>3, <1>4, <1>13, <2>4
  <2> QED
    BY <1>8, <2>1, <2>2, <2>3, <2>4
<1>14. ASSUME wValues' # << >>, NEW i \in 1 .. m + n PROVE items[i].value < wValues'[1]
  <2> DEFINE v == wValues'[1]
             last == wValues[n]
  <2>1. v \in Int /\ last \in Int /\ last < v
    <3>1. n \in 1 .. n
      BY <1>3
    <3>2. wValues'[1] \in Int /\ wValues'[1] > wValues[n]
      BY <1>14 DEF n
    <3> QED
      BY <1>3, <3>1, <3>2
  <2>2. CASE i \in 1 .. m /\ items[i] = Items[i]
    <3>1. 1 \in 1 .. n
      BY <1>3
    <3>2. items[i].value < wValues[1] /\ items[i].value \in Int /\ wValues[1] \in Int /\ wValues[1] <= last
      BY <1>2, <1>3, <1>4, <1>11, <1>12, <2>2, <3>1
    <3> HIDE DEF v, last
    <3>3. items[i].value < v
      BY <2>1, <3>2
    <3> QED
      BY <3>3 DEF v
  <2>3. ASSUME NEW k \in 1 .. n, items[i] = block[k] PROVE items[i].value < v
    <3>1. items[i].value = wValues[k] /\ wValues[k] \in Int /\ wValues[k] <= last
      BY <1>3, <1>9, <1>11, <2>3
    <3> HIDE DEF v, last
    <3> QED
      BY <2>1, <3>1
  <2> QED
    BY <1>8, <2>2, <2>3
<1>15. ASSUME NEW b \in 1 .. l + 1
       PROVE  IF b < Len(index') \/ phase' # "done" THEN Len(index'[b]) = ValuesPerBlock ELSE index'[b] # << >>
  <2>1. CASE b \in 1 .. l
    <3>1. index'[b] = index[b] /\ Len(index[b]) = ValuesPerBlock /\ b < l + 1
      <4>1. l \in Nat /\ b \in DOMAIN index
        BY <1>6, <2>1
      <4>2. b < l + 1
        BY <2>1, <4>1
      <4> QED
        BY <1>2, <1>6, <2>1, <4>1, <4>2, Zenon
    <3>2. Len(index') = l + 1
      BY <1>6
    <3> QED
      BY <3>1, <3>2
  <2>2. CASE b = l + 1
    <3>1. index'[b] = block /\ ~(b < Len(index')) /\ block # << >>
      BY <1>1, <1>3, <1>6, <2>2
    <3>2. phase' # "done" => Len(block) = ValuesPerBlock
      BY <1>1 DEF n
    <3> QED
      BY <3>1, <3>2
  <2> QED
    BY <1>6, <2>1, <2>2
<1>16. IndexFits'
  <2>1. totalValues' = Len(items)
    BY <1>2, <1>7 DEF n
  <2>2. ASSUME NEW i PROVE Described(Items[i])' <=> Described(Items'[i])
    BY DEF Described, RowsOf
  <2>3. \A i \in DOMAIN items : Described(Items[i])'
    <3>1. \A i \in DOMAIN items : Described(Items'[i])
      BY <1>7, <1>10 DEF items
    <3> QED
      BY <2>2, <3>1
  <2>4. \A i, j \in DOMAIN items : i < j => items[i].value < items[j].value
    BY <1>7, <1>13
  <2>5. wValues' # << >> => \A i \in DOMAIN items : items[i].value < wValues'[1]
    BY <1>7, <1>14
  <2>6. \A b \in DOMAIN index' :
           IF b < Len(index') \/ phase' # "done" THEN Len(index'[b]) = ValuesPerBlock ELSE index'[b] # << >>
    BY <1>6, <1>15
  <2> QED
    BY <1>6, <2>1, <2>3, <2>4, <2>5, <2>6 DEF IndexFits, items
<1>17. PairsIndexed' = PairsIndexed \cup PairsWritten
  <2>1. PairsIndexed' = PairsOf(items)
    BY IndexedNext DEF items
  <2>2. ASSUME NEW x, x \in PairsIndexed' PROVE x \in PairsIndexed \/ x \in PairsWritten
    <3>1. PICK i \in 1 .. m + n : \E k \in DOMAIN RowsOf(items[i]) : x = Pair(items[i].value, RowsOf(items[i])[k])
      <4>1. x \in PairsOf(items)
        BY <2>1, <2>2
      <4>2. \E i \in DOMAIN items : \E k \in DOMAIN RowsOf(items[i]) :
               x = Pair(items[i].value, RowsOf(items[i])[k])
        BY <4>1, PairsOfAre
      <4> QED
        BY <1>7, <4>2, Zenon
    <3>2. CASE i \in 1 .. m /\ items[i] = Items[i]
      <4>1. i \in DOMAIN Items
        BY <1>4, <3>2
      <4>2. \E k \in DOMAIN RowsOf(Items[i]) : x = Pair(Items[i].value, RowsOf(Items[i])[k])
        BY <3>1, <3>2, Zenon
      <4>3. x \in PairsOf(Items)
        BY <4>1, <4>2, PairsOfAre
      <4> QED
        BY <4>3 DEF PairsIndexed
    <3>3. ASSUME NEW k \in 1 .. n, items[i] = block[k] PROVE x \in PairsWritten
      <4>1. items[i].value = wValues[k] /\ RowsOf(items[i]) = RowsAt(k)
        BY <1>9, <3>3
      <4>2. \E r \in DOMAIN RowsAt(k) : x = Pair(wValues[k], RowsAt(k)[r])
        BY <3>1, <4>1, Zenon
      <4> QED
        BY <1>3, <4>2, WrittenAre
    <3> QED
      BY <1>8, <3>2, <3>3
  <2>3. ASSUME NEW x, x \in PairsIndexed PROVE x \in PairsIndexed'
    <3>1. \E i \in DOMAIN Items : \E k \in DOMAIN RowsOf(Items[i]) : x = Pair(Items[i].value, RowsOf(Items[i])[k])
      BY <2>3, PairsOfAre DEF PairsIndexed
    <3>2. PICK i \in 1 .. m : \E k \in DOMAIN RowsOf(Items[i]) : x = Pair(Items[i].value, RowsOf(Items[i])[k])
      BY <1>4, <3>1, Zenon
    <3>3. i \in DOMAIN items /\ items[i] = Items[i]
      BY <1>3, <1>4, <1>7
    <3>4. \E k \in DOMAIN RowsOf(items[i]) : x = Pair(items[i].value, RowsOf(items[i])[k])
      BY <3>2, <3>3, Zenon
    <3>5. x \in PairsOf(items)
      BY <3>3, <3>4, PairsOfAre
    <3> QED
      BY <2>1, <3>5
  <2>4. ASSUME NEW x, x \in PairsWritten PROVE x \in PairsIndexed'
    <3>1. PICK k \in 1 .. n : \E r \in DOMAIN RowsAt(k) : x = Pair(wValues[k], RowsAt(k)[r])
      BY <1>3, <2>4, WrittenAre
    <3>2. PICK i \in DOMAIN items : items[i] = block[k]
      <4>1. m + k \in 1 .. m + n
        BY <1>3, <1>4
      <4> QED
        BY <1>7, <4>1
    <3>3. items[i].value = wValues[k] /\ RowsOf(items[i]) = RowsAt(k)
      BY <1>9, <3>2
    <3>4. \E r \in DOMAIN RowsOf(items[i]) : x = Pair(items[i].value, RowsOf(items[i])[r])
      BY <3>1, <3>3, Zenon
    <3>5. x \in PairsOf(items)
      BY <3>4, PairsOfAre
    <3> QED
      BY <2>1, <3>5
  <2> QED
    BY <2>2, <2>3, <2>4
<1> QED
  BY <1>16, <1>17

-----------------------------------------------------------------------------
(* The steps of merging. *)

\* A pair is what it was made of.
LEMMA PairIs ==
    ASSUME NEW p \in Pairs
    PROVE  p.value \in Int /\ p.row \in Nat /\ Pair(p.value, p.row) = p
BY DEF Pairs, Pair

\* The pair on top is merged: it comes last in the writer, and all that is left after it.
LEMMA Merged ==
    ASSUME IInv, phase # "collect", NEW c \in DOMAIN runs, Top(c), Take(c),
           isFloat' = isFloat, docs' = docs, rows' = rows, runs' = runs, phase' = "merge",
           WriterFits', IndexFits', wValues' # << >>,
           wValues'[Len(wValues')] \in Int, wValues'[Len(wValues')] <= Upcoming(c).value,
           ~isFloat => Pair(wValues'[Len(wValues')], wRows'[Len(wRows')]) = Upcoming(c),
           ~isFloat => PairsWritten' \cup PairsIndexed' = PairsWritten \cup PairsIndexed \cup {Upcoming(c)}
    PROVE  IInv'
<1> DEFINE p == Upcoming(c)
           last == wValues'[Len(wValues')]
<1>1. /\ CollectedFit'
      /\ PairsLeft = PairsLeft' \cup {p}
      /\ \A d \in DOMAIN runs : \A i \in Left(d)' :
            /\ runs[d][i].value >= p.value
            /\ ~isFloat => Before(p, runs[d][i])
  BY TopTaken DEF IInv
<1>2. p \in Pairs
  BY TopIsLeast DEF IInv
<1>3. p.value \in Int
  BY <1>2, PairIs
<1>4. ASSUME NEW d \in DOMAIN runs, NEW i \in Left(d)'
      PROVE  runs[d][i].value \in Int
  <2>1. runs \in Seq(Seq(Pairs))
    BY DEF IInv, CollectedFit
  <2>2. read' \in [DOMAIN runs -> Nat]
    BY <1>1 DEF CollectedFit
  <2>3. i \in read'[d] + 1 .. Len(runs[d]) /\ read'[d] \in Nat
    BY <2>2 DEF Left, Taken
  <2>4. runs[d] \in Seq(Pairs)
    BY <2>1
  <2>5. runs[d][i] \in Pairs
    BY <2>3, <2>4
  <2> QED
    BY <2>5, PairIs
<1>5. MergeFits'
  <2>1. ASSUME NEW d \in DOMAIN runs, NEW i \in Left(d)'
        PROVE  /\ runs[d][i].value >= last
               /\ ~isFloat => Before(Pair(last, wRows'[Len(wRows')]), runs[d][i])
    <3>1. runs[d][i].value >= p.value /\ runs[d][i].value \in Int /\ last <= p.value /\ last \in Int
      BY <1>1, <1>4
    <3>2. ~isFloat => Before(p, runs[d][i]) /\ Pair(last, wRows'[Len(wRows')]) = p
      BY <1>1
    <3> HIDE DEF p, last
    <3>3. runs[d][i].value >= last
      BY <1>3, <3>1
    <3> QED
      BY <3>2, <3>3
  <2> QED
    BY <2>1 DEF MergeFits
<1>6. PairsKept'
  <2>1. PairsOfDocs' = PairsOfDocs /\ ToSet(rows)' = ToSet(rows)
    BY DEF PairsOfDocs, ToSet
  <2> QED
    BY <1>1, <2>1 DEF IInv, PairsKept
<1> QED
  BY <1>1, <1>5, <1>6 DEF IInv

\* The first pair.
LEMMA FirstMerged ==
    ASSUME IInv, FirstValue
    PROVE  IInv'
<1>1. /\ phase = "fill" /\ phase' = "merge"
      /\ isFloat' = isFloat /\ docs' = docs /\ rows' = rows /\ runs' = runs
      /\ totalValues' = totalValues /\ index' = index
  BY DEF FirstValue
<1>2. PICK c \in DOMAIN runs : Top(c) /\ Take(c) /\ AddValue(Upcoming(c), wValues, wRowStart, wRows)
  BY DEF FirstValue
<1> DEFINE p == Upcoming(c)
<1>3. p \in Pairs
  BY <1>1, <1>2, TopIsLeast DEF IInv
<1>4. p.value \in Int /\ p.row \in Nat /\ Pair(p.value, p.row) = p
  BY <1>3, PairIs
<1>5. wValues = << >> /\ wRowStart = << >> /\ wRows = << >> /\ index = << >>
  BY <1>1 DEF IInv, MergeFits
<1>6. /\ wValues' = Append(<< >>, p.value) /\ wRowStart' = Append(<< >>, Len(<< >>))
      /\ wRows' = Append(<< >>, p.row)
  BY <1>2, <1>5 DEF AddValue
<1> HIDE DEF p
<1>7. WriterFits' /\ PairsWritten' = {p}
  BY <1>1, <1>4, <1>6, WriterStarts
<1>8. /\ wValues' # << >> /\ wValues'[Len(wValues')] = p.value
      /\ wRows'[Len(wRows')] = p.row
  BY <1>6
<1>9. IndexFits' /\ PairsIndexed' = PairsIndexed
  <2>1. DOMAIN Items = {}
    BY <1>5 DEF Items, FlattenSeq
  <2> HIDE DEF Items
  <2> QED
    BY <1>1, <2>1, IndexStays DEF IInv
<1>10. PairsWritten = {}
  BY <1>5 DEF PairsWritten
<1>11. PairsWritten' \cup PairsIndexed' = PairsWritten \cup PairsIndexed \cup {p}
  BY <1>7, <1>9, <1>10
<1>12. wValues'[Len(wValues')] \in Int /\ wValues'[Len(wValues')] <= p.value
  BY <1>4, <1>8
<1>13. Pair(wValues'[Len(wValues')], wRows'[Len(wRows')]) = p
  BY <1>4, <1>8
<1> QED
  BY <1>1, <1>2, <1>7, <1>8, <1>9, <1>11, <1>12, <1>13, Merged DEF p

\* What the writer has last comes before the next pair.
LEMMA LastBeforeNext ==
    ASSUME IInv, phase = "merge", NEW c \in DOMAIN runs, Top(c)
    PROVE  /\ wValues # << >> /\ Upcoming(c) \in Pairs
           /\ Len(wValues) \in Nat /\ Len(wValues) # 0 /\ wValues[Len(wValues)] \in Int
           /\ wRows[Len(wRows)] \in Nat
           /\ wValues[Len(wValues)] <= Upcoming(c).value
           /\ ~isFloat => Before(Pair(wValues[Len(wValues)], wRows[Len(wRows)]), Upcoming(c))
<1>1. /\ Upcoming(c) \in Pairs /\ read[c] + 1 \in Left(c)
  BY TopIsLeast DEF IInv
<1>2. wValues # << >>
  <2>1. runs # << >>
    BY DEF IInv, CollectedFit
  <2> QED
    BY <2>1 DEF IInv, MergeFits
<1>3. wValues \in Seq(Int) /\ wRowStart \in Seq(Nat) /\ wRows \in Seq(Nat) /\ Len(wRowStart) = Len(wValues)
      /\ \A i \in DOMAIN wRowStart : wRowStart[i] < Len(wRows)
  BY DEF IInv, WriterFits
<1>4. Len(wValues) \in Nat /\ Len(wValues) # 0 /\ wValues[Len(wValues)] \in Int
  BY <1>2, <1>3
<1>5. wRows[Len(wRows)] \in Nat
  <2>1. 1 \in DOMAIN wRowStart /\ wRowStart[1] \in Nat
    BY <1>3, <1>4
  <2>2. wRowStart[1] < Len(wRows) /\ Len(wRows) \in Nat
    BY <1>3, <2>1
  <2>3. Len(wRows) \in 1 .. Len(wRows)
    BY <2>1, <2>2
  <2> QED
    BY <1>3, <2>3
<1>6. /\ runs[c][read[c] + 1].value >= wValues[Len(wValues)]
      /\ ~isFloat => Before(Pair(wValues[Len(wValues)], wRows[Len(wRows)]), runs[c][read[c] + 1])
  BY <1>1, <1>2 DEF IInv, MergeFits
<1>7. Upcoming(c) = runs[c][read[c] + 1]
  BY DEF Upcoming
<1>8. Upcoming(c).value \in Int
  BY <1>1, PairIs
<1> QED
  BY <1>1, <1>2, <1>4, <1>5, <1>6, <1>7, <1>8

\* A pair more.
LEMMA NextMerged ==
    ASSUME IInv, NextValue
    PROVE  IInv'
<1>1. /\ phase = "merge" /\ phase' = "merge"
      /\ isFloat' = isFloat /\ docs' = docs /\ rows' = rows /\ runs' = runs
  BY DEF NextValue
<1>2. PICK c \in DOMAIN runs :
        /\ Top(c) /\ Take(c)
        /\ IF SameValue(Upcoming(c).value)
           THEN wRows' = Append(wRows, Upcoming(c).row)
                /\ UNCHANGED <<wValues, wRowStart, totalValues, minMax, index>>
           ELSE NewValue(Upcoming(c))
  BY DEF NextValue
<1> DEFINE p == Upcoming(c)
           n == Len(wValues)
           last == wValues[n]
           lastRow == wRows[Len(wRows)]
<1>3. /\ wValues # << >> /\ p \in Pairs
      /\ n \in Nat /\ n # 0 /\ last \in Int /\ lastRow \in Nat /\ last <= p.value
      /\ ~isFloat => Before(Pair(last, lastRow), p)
  BY <1>1, <1>2, LastBeforeNext
<1>4. p.value \in Int /\ p.row \in Nat /\ Pair(p.value, p.row) = p
  BY <1>3, PairIs
<1>5. /\ WriterFits /\ IndexFits
      /\ wValues \in Seq(Int) /\ wRows \in Seq(Nat) /\ n <= ValuesPerBlock
  BY DEF IInv, WriterFits
<1>6. Tolerance \in Nat /\ ValuesPerBlock \in Nat \ {0}
  BY BuilderAssumption
<1> DEFINE Last1 == wValues'[Len(wValues')]
<1>7. SUFFICES
        /\ WriterFits' /\ IndexFits' /\ wValues' # << >>
        /\ Last1 \in Int /\ Last1 <= p.value
        /\ ~isFloat => Pair(Last1, wRows'[Len(wRows')]) = p
        /\ ~isFloat => PairsWritten' \cup PairsIndexed' = PairsWritten \cup PairsIndexed \cup {p}
  BY <1>1, <1>2, Merged
<1>8. CASE SameValue(p.value)
  <2>1. /\ wRows' = Append(wRows, p.row) /\ wValues' = wValues /\ wRowStart' = wRowStart
        /\ totalValues' = totalValues /\ index' = index
    BY <1>2, <1>8
  <2>2. ~isFloat => p.value = last
    BY <1>8 DEF SameValue
  <2>3. ~isFloat => lastRow < p.row
    <3> DEFINE q == Pair(last, lastRow)
    <3>1. q.value = last /\ q.row = lastRow
      BY DEF Pair
    <3> HIDE DEF q, p, last, lastRow
    <3>2. ~isFloat => Before(q, p)
      BY <1>3 DEF q
    <3> QED
      BY <1>3, <1>4, <2>2, <3>1, <3>2 DEF Before
  <2>4. WriterFits' /\ PairsWritten' = PairsWritten \cup {Pair(last, p.row)}
    BY <1>1, <1>3, <1>4, <1>5, <2>1, <2>3, WriterGrows
  <2>5. IndexFits' /\ PairsIndexed' = PairsIndexed
    <3>1. \A i \in DOMAIN Items : Items[i].value < wValues'[1]
      BY <1>3, <1>5, <2>1 DEF IndexFits
    <3> QED
      BY <1>1, <1>5, <2>1, <3>1, IndexStays
  <2>6. Last1 = last /\ wRows'[Len(wRows')] = p.row
    <3>1. Len(wRows') = Len(wRows) + 1 /\ wRows'[Len(wRows) + 1] = p.row
      BY <1>4, <1>5, <2>1, AppendProperties
    <3> QED
      BY <2>1, <3>1
  <2> HIDE DEF p, last, n
  <2>7. ~isFloat => Pair(last, p.row) = p
    BY <1>4, <2>2
  <2> QED
    BY <1>3, <2>1, <2>4, <2>5, <2>6, <2>7
<1>9. CASE ~SameValue(p.value)
  <2>1. NewValue(p)
    BY <1>2, <1>9
  <2>2. p.value > last
    <3>1. p.value # last
      <4>1. p.value = last => SameValue(p.value)
        <5> HIDE DEF p
        <5>1. SameValue(p.value) <=> IF isFloat THEN p.value - last <= Tolerance /\ last - p.value <= Tolerance
                                     ELSE p.value = last
          BY DEF SameValue
        <5> HIDE DEF last
        <5> QED
          BY <1>3, <1>4, <1>6, <5>1
      <4> QED
        BY <1>9, <4>1
    <3> QED
      BY <1>3, <1>4, <3>1
  <2>3. CASE n < ValuesPerBlock
    <3>1. /\ wValues' = Append(wValues, p.value) /\ wRowStart' = Append(wRowStart, Len(wRows))
          /\ wRows' = Append(wRows, p.row) /\ totalValues' = totalValues /\ index' = index
      BY <2>1, <2>3 DEF NewValue, AddValue
    <3>2. WriterFits' /\ PairsWritten' = PairsWritten \cup {Pair(p.value, p.row)}
      BY <1>1, <1>3, <1>4, <1>5, <2>2, <2>3, <3>1, WriterAdds
    <3>3. /\ wValues' # << >> /\ Last1 = p.value /\ wValues'[1] = wValues[1]
          /\ wRows'[Len(wRows')] = p.row
      <4>1. /\ Len(wValues') = n + 1 /\ wValues'[n + 1] = p.value
            /\ \A i \in 1 .. n : wValues'[i] = wValues[i]
        BY <1>4, <1>5, <3>1, AppendProperties
      <4>2. Len(wRows') = Len(wRows) + 1 /\ wRows'[Len(wRows) + 1] = p.row
        BY <1>4, <1>5, <3>1, AppendProperties
      <4>3. 1 \in 1 .. n
        BY <1>3
      <4>4. wValues' # << >>
        BY <1>3, <4>1
      <4> QED
        BY <4>1, <4>2, <4>3, <4>4
    <3>4. IndexFits' /\ PairsIndexed' = PairsIndexed
      <4>1. \A i \in DOMAIN Items : Items[i].value < wValues'[1]
        BY <1>3, <1>5, <3>3 DEF IndexFits
      <4> QED
        BY <1>1, <1>5, <3>1, <4>1, IndexStays
    <3> HIDE DEF p, last, n
    <3> QED
      BY <1>4, <3>2, <3>3, <3>4
  <2>4. CASE ~(n < ValuesPerBlock)
    <3>1. /\ wValues' = Append(<< >>, p.value) /\ wRowStart' = Append(<< >>, Len(<< >>))
          /\ wRows' = Append(<< >>, p.row)
          /\ totalValues' = totalValues + n /\ index' = Append(index, BlockOfValues)
      BY <1>3, <2>1, <2>4 DEF NewValue, AddValue, FlushBlock
    <3>2. WriterFits' /\ PairsWritten' = {Pair(p.value, p.row)}
      BY <1>1, <1>4, <3>1, WriterStarts
    <3>3. /\ wValues' # << >> /\ Last1 = p.value /\ wValues'[1] = p.value
          /\ wRows'[Len(wRows')] = p.row
      BY <3>1
    <3>4. IndexFits' /\ PairsIndexed' = PairsIndexed \cup PairsWritten
      <4>1. n = ValuesPerBlock
        BY <1>3, <1>5, <1>6, <2>4
      <4>2. phase # "done"
        BY <1>1
      <4>3. wValues'[1] \in Int /\ wValues'[1] > last
        BY <1>4, <2>2, <3>3
      <4> QED
        BY <1>1, <1>3, <1>5, <3>1, <4>1, <4>2, <4>3, BlockFlushed
    <3> HIDE DEF p, last, n
    <3> QED
      BY <1>4, <3>2, <3>3, <3>4
  <2> QED
    BY <2>3, <2>4
<1> QED
  BY <1>8, <1>9

\* The last block is written.
LEMMA AllMerged ==
    ASSUME IInv, Finish
    PROVE  IInv'
<1>1. /\ phase = "merge" /\ Unread = {} /\ FlushBlock
      /\ wValues' = << >> /\ wRowStart' = << >> /\ wRows' = << >> /\ phase' = "done"
      /\ isFloat' = isFloat /\ docs' = docs /\ rows' = rows /\ runs' = runs /\ read' = read
  BY DEF Finish
<1>2. CollectedFit'
  BY <1>1 DEF IInv, CollectedFit
<1>3. WriterFits' /\ PairsWritten' = {}
  <2>1. << >> \in Seq(Int) /\ << >> \in Seq(Nat) /\ Len(<< >>) = 0 /\ DOMAIN << >> = {}
    OBVIOUS
  <2>2. Rising(<< >>)
    BY DEF Rising
  <2>3. ValuesPerBlock \in Nat
    BY BuilderAssumption
  <2>4. WriterFits'
    BY <1>1, <2>1, <2>2, <2>3 DEF WriterFits
  <2>5. PairsWritten' = {}
    BY <1>1, <2>1 DEF PairsWritten
  <2> QED
    BY <2>4, <2>5
<1>4. IndexFits' /\ PairsIndexed' = PairsIndexed \cup PairsWritten
  <2>1. CASE wValues = << >>
    <3>1. totalValues' = totalValues /\ index' = index
      BY <1>1, <2>1 DEF FlushBlock
    <3>2. PairsWritten = {}
      BY <2>1 DEF PairsWritten
    <3>3. IndexFits' /\ PairsIndexed' = PairsIndexed
      BY <1>1, <3>1, IndexStays DEF IInv
    <3> QED
      BY <3>2, <3>3
  <2>2. CASE wValues # << >>
    <3>1. totalValues' = totalValues + Len(wValues) /\ index' = Append(index, BlockOfValues)
      BY <1>1, <2>2 DEF FlushBlock
    <3> QED
      BY <1>1, <2>2, <3>1, BlockFlushed DEF IInv
  <2> QED
    BY <2>1, <2>2
<1>5. MergeFits'
  BY <1>1 DEF MergeFits, Unread
<1>6. PairsKept'
  <2>1. ToSet(rows)' = ToSet(rows) /\ PairsOfDocs' = PairsOfDocs
    BY <1>1 DEF ToSet, PairsOfDocs
  <2>2. PairsLeft' = PairsLeft
    BY <1>1 DEF PairsLeft, Left, Taken
  <2> QED
    BY <1>1, <1>3, <1>4, <2>1, <2>2 DEF IInv, PairsKept
<1> QED
  BY <1>2, <1>3, <1>4, <1>5, <1>6 DEF IInv

-----------------------------------------------------------------------------
(* Theorems. *)

\* The invariant holds at first.
LEMMA InitIInv == Init => IInv
<1> SUFFICES ASSUME Init PROVE IInv
  OBVIOUS
<1>1. /\ isFloat \in BOOLEAN /\ docs = << >> /\ phase = "collect"
      /\ rows = << >> /\ runs = << >> /\ read = << >>
      /\ wValues = << >> /\ wRowStart = << >> /\ wRows = << >>
      /\ totalValues = 0 /\ index = << >>
  BY DEF Init
<1>2. DOMAIN << >> = {} /\ Len(<< >>) = 0 /\ \A S : << >> \in Seq(S)
  OBVIOUS
<1>3. MaxDocs \in Nat /\ ValuesPerBlock \in Nat
  BY BuilderAssumption
<1>4. Items = << >>
  BY <1>1 DEF Items, FlattenSeq
<1>5. CollectedFit
  BY <1>1, <1>2, <1>3 DEF CollectedFit, Different
<1>6. WriterFits
  BY <1>1, <1>2, <1>3 DEF WriterFits, Rising
<1>7. IndexFits
  BY <1>1, <1>2, <1>4 DEF IndexFits
<1>8. MergeFits
  BY <1>1 DEF MergeFits
<1>9. PairsKept
  <2>1. ToSet(rows) = {} /\ PairsLeft = {} /\ PairsWritten = {} /\ PairsOfDocs = {}
    BY <1>1, <1>2 DEF ToSet, PairsLeft, PairsWritten, PairsOfDocs
  <2>2. PairsIndexed = {}
    BY <1>2, <1>4 DEF PairsIndexed, PairsOf
  <2> QED
    BY <2>1, <2>2 DEF PairsKept
<1> QED
  BY <1>5, <1>6, <1>7, <1>8, <1>9 DEF IInv

\* Every step keeps it.
LEMMA NextIInv == IInv /\ [Next]_vars => IInv'
<1> SUFFICES ASSUME IInv, [Next]_vars PROVE IInv'
  OBVIOUS
<1>1. ASSUME NEW doc \in Doc, SetRow(doc) PROVE IInv'
  BY <1>1, RowSet
<1>2. CASE Done
  BY <1>2, AllCollected
<1>3. CASE FirstValue
  BY <1>3, FirstMerged
<1>4. CASE NoValue
  BY <1>4, NothingMerged
<1>5. CASE NextValue
  BY <1>5, NextMerged
<1>6. CASE Finish
  BY <1>6, AllMerged
<1>7. CASE Built
  BY <1>7, NothingDone DEF Built
<1>8. CASE UNCHANGED vars
  BY <1>8, NothingDone
<1> QED
  BY <1>1, <1>2, <1>3, <1>4, <1>5, <1>6, <1>7, <1>8 DEF Next, Process

\* All steps keep the invariant.
LEMMA Invariant == Spec => []IInv
<1> QED
  BY InitIInv, NextIInv, PTL DEF Spec

\* The documents, the readers, the writer and the number of values are as the code
\* takes them to be.
THEOREM TypeCorrect == Spec => []TypeOK
<1>1. IInv => TypeOK
  <2> SUFFICES ASSUME IInv PROVE TypeOK
    OBVIOUS
  <2>1. /\ phase \in {"collect", "fill", "merge", "done"} /\ docs \in Seq(Doc) /\ Len(docs) <= MaxDocs
        /\ runs \in Seq(Seq(Pairs))
    BY DEF IInv, CollectedFit
  <2>2. DOMAIN read \subseteq DOMAIN runs /\ \A c \in DOMAIN read : read[c] \in 0 .. Len(runs[c])
    <3>1. CASE phase = "collect"
      <4>1. read = << >>
        BY <3>1 DEF IInv, CollectedFit
      <4> QED
        BY <4>1
    <3>2. CASE phase # "collect"
      <4>1. read \in [DOMAIN runs -> Nat] /\ \A c \in DOMAIN runs : read[c] <= Len(runs[c])
        BY <3>2 DEF IInv, CollectedFit
      <4>2. \A c \in DOMAIN runs : Len(runs[c]) \in Nat
        BY <2>1
      <4> QED
        BY <4>1, <4>2
    <3> QED
      BY <3>1, <3>2
  <2>3. /\ Len(wValues) = Len(wRowStart) /\ Len(wValues) <= ValuesPerBlock
        /\ \A i \in DOMAIN wRowStart : wRowStart[i] \in 0 .. Len(wRows) - 1
    <3>1. /\ wRowStart \in Seq(Nat) /\ wRows \in Seq(Nat) /\ Len(wRowStart) = Len(wValues)
          /\ Len(wValues) <= ValuesPerBlock /\ \A i \in DOMAIN wRowStart : wRowStart[i] < Len(wRows)
      BY DEF IInv, WriterFits
    <3>2. Len(wRows) \in Nat /\ \A i \in DOMAIN wRowStart : wRowStart[i] \in Nat
      BY <3>1
    <3> QED
      BY <3>1, <3>2
  <2>4. totalValues = Len(Items)
    BY DEF IInv, IndexFits
  <2> QED
    BY <2>1, <2>2, <2>3, <2>4 DEF TypeOK
<1> QED
  BY <1>1, Invariant, PTL

\* The items of the index, as the invariant has them.
LEMMA ItemsAre ==
    ASSUME IInv
    PROVE  /\ Items \in Seq(Item) /\ DOMAIN Items = 1 .. Len(Items) /\ Len(Items) \in Nat
           /\ \A i \in DOMAIN Items : Described(Items[i])
           /\ \A i, j \in DOMAIN Items : i < j => Items[i].value < Items[j].value
<1>1. Items \in Seq(Item)
  BY FlattenType DEF IInv, IndexFits, Items
<1>2. /\ \A i \in DOMAIN Items : Described(Items[i])
      /\ \A i, j \in DOMAIN Items : i < j => Items[i].value < Items[j].value
  BY DEF IInv, IndexFits
<1> HIDE DEF Items
<1> QED
  BY <1>1, <1>2

\* What is written about the rows of a value agrees with the rows, whatever of the
\* buffer the encoding of the values before it has overwritten.
THEOREM RowsDescribed == Spec => []DescribesItsRows
<1>1. IInv => DescribesItsRows
  <2> SUFFICES ASSUME IInv, NEW item \in ToSet(Items)
               PROVE  /\ item.count = Len(RowsOf(item))
                      /\ item.min = RowsOf(item)[1] /\ item.max = Last(RowsOf(item))
                      /\ item.packing = "ROW_BLOCKS_LIST" =>
                            item.table = [k \in DOMAIN item.pieces |-> <<item.pieces[k][1], Last(item.pieces[k])>>]
    BY DEF DescribesItsRows
  <2>1. PICK i \in DOMAIN Items : item = Items[i]
    BY DEF ToSet
  <2>2. Described(item)
    BY <2>1, ItemsAre
  <2> QED
    BY <2>2, Zenon DEF Described
<1> QED
  BY <1>1, Invariant, PTL

\* Over all blocks the values ascend, and every block but the last is full, so a
\* position the PGM index finds is a block and a place in it.
THEOREM Searchable == Spec => []BlocksSearchable
<1>1. IInv => BlocksSearchable
  <2> SUFFICES ASSUME IInv PROVE BlocksSearchable
    OBVIOUS
  <2> DEFINE values == [i \in DOMAIN Items |-> Items[i].value]
  <2>1. /\ Items \in Seq(Item) /\ DOMAIN Items = 1 .. Len(Items) /\ Len(Items) \in Nat
        /\ \A i, j \in DOMAIN Items : i < j => Items[i].value < Items[j].value
    BY ItemsAre
  <2>2. Len(values) = Len(Items) /\ \A i \in DOMAIN Items : values[i] = Items[i].value
    BY <2>1
  <2> HIDE DEF values
  <2>3. Ascending(values)
    <3> SUFFICES ASSUME NEW i \in 1 .. Len(values) - 1 PROVE values[i] < values[i + 1]
      BY DEF Ascending
    <3>1. i \in DOMAIN Items /\ i + 1 \in DOMAIN Items /\ i < i + 1
      BY <2>1, <2>2
    <3> QED
      BY <2>1, <2>2, <3>1
  <2>4. ASSUME NEW b \in DOMAIN index
        PROVE  IF b < Len(index) THEN Len(index[b]) = ValuesPerBlock ELSE index[b] # << >>
    <3>1. IF b < Len(index) \/ phase # "done" THEN Len(index[b]) = ValuesPerBlock ELSE index[b] # << >>
      BY DEF IInv, IndexFits
    <3>2. index[b] \in Seq(Item)
      BY DEF IInv, IndexFits
    <3>3. Len(index[b]) = ValuesPerBlock => index[b] # << >>
      BY <3>2, BuilderAssumption
    <3> QED
      BY <3>1, <3>3
  <2> QED
    BY <2>3, <2>4 DEF BlocksSearchable, values
<1> QED
  BY <1>1, Invariant, PTL

\* What the invariant says of a finished index: it is the inverse of the documents.
LEMMA FinishedIsInverse == IInv => IndexIsInverse
<1> SUFFICES ASSUME IInv, phase = "done", ~isFloat
             PROVE  /\ {Items[i].value : i \in DOMAIN Items} = DistinctValues
                    /\ \A item \in ToSet(Items) :
                          Ascending(RowsOf(item)) /\ ToSet(RowsOf(item)) = RowsWith(item.value)
  BY DEF IndexIsInverse
<1>1. /\ Items \in Seq(Item) /\ DOMAIN Items = 1 .. Len(Items) /\ Len(Items) \in Nat
      /\ \A i \in DOMAIN Items : Described(Items[i])
      /\ \A i, j \in DOMAIN Items : i < j => Items[i].value < Items[j].value
  BY ItemsAre
<1>2. PairsIndexed = PairsOfDocs
  <2>1. ToSet(rows) = {}
    BY DEF IInv, CollectedFit, ToSet
  <2>2. PairsWritten = {}
    BY DEF IInv, MergeFits, PairsWritten
  <2>3. PairsLeft = {}
    <3>1. read \in [DOMAIN runs -> Nat] /\ runs \in Seq(Seq(Pairs)) /\ Unread = {}
      BY DEF IInv, CollectedFit, MergeFits
    <3>2. ASSUME NEW c \in DOMAIN runs PROVE Left(c) = {}
      <4>1. ~(read[c] < Len(runs[c])) /\ Len(runs[c]) \in Nat /\ read[c] \in Nat
        BY <3>1 DEF Unread
      <4> QED
        BY <3>1, <4>1 DEF Left, Taken
    <3> QED
      BY <3>2 DEF PairsLeft
  <2> QED
    BY <2>1, <2>2, <2>3 DEF IInv, PairsKept
<1>3. \A x : x \in PairsIndexed <=>
         \E i \in DOMAIN Items : \E k \in DOMAIN RowsOf(Items[i]) : x = Pair(Items[i].value, RowsOf(Items[i])[k])
  BY PairsOfAre DEF PairsIndexed
<1>4. \A x : x \in PairsOfDocs <=> \E i \in DOMAIN docs : \E k \in DOMAIN docs[i] : x = Pair(docs[i][k], i - 1)
  BY DEF PairsOfDocs
<1>5. \A v, r, w, q : Pair(v, r) = Pair(w, q) <=> v = w /\ r = q
  BY DEF Pair
<1>6. ASSUME NEW i \in DOMAIN Items
      PROVE  /\ RowsOf(Items[i]) \in Seq(Nat) /\ RowsOf(Items[i]) # << >> /\ Rising(RowsOf(Items[i]))
  BY <1>1 DEF Described
<1>7. docs \in Seq(Doc) /\ DOMAIN docs \subseteq Nat
  BY DEF IInv, CollectedFit
<1> HIDE DEF Items
\* A row is one of an item if and only if its document has the value of the item.
<1>8. ASSUME NEW v, NEW r
      PROVE  (\E i \in DOMAIN Items : Items[i].value = v /\ r \in ToSet(RowsOf(Items[i]))) <=> r \in RowsWith(v)
  <2>1. (\E i \in DOMAIN Items : Items[i].value = v /\ r \in ToSet(RowsOf(Items[i]))) <=> Pair(v, r) \in PairsIndexed
    BY <1>3, <1>5 DEF ToSet
  <2>2. Pair(v, r) \in PairsOfDocs <=> \E i \in DOMAIN docs : v \in ToSet(docs[i]) /\ r = i - 1
    BY <1>4, <1>5 DEF ToSet
  <2>3. r \in RowsWith(v) <=> \E i \in DOMAIN docs : v \in ToSet(docs[i]) /\ r = i - 1
    BY DEF RowsWith
  <2> QED
    BY <1>2, <2>1, <2>2, <2>3
<1>9. ASSUME NEW v PROVE v \in DistinctValues <=> \E r : r \in RowsWith(v)
  <2>1. v \in DistinctValues <=> \E i \in DOMAIN docs : v \in ToSet(docs[i])
    BY DEF DistinctValues
  <2>2. \A r : r \in RowsWith(v) <=> \E i \in DOMAIN docs : v \in ToSet(docs[i]) /\ r = i - 1
    BY DEF RowsWith
  <2> QED
    BY <2>1, <2>2
<1>10. ASSUME NEW i \in DOMAIN Items PROVE \E r : r \in ToSet(RowsOf(Items[i]))
  <2>1. 1 \in DOMAIN RowsOf(Items[i])
    <3> DEFINE s == RowsOf(Items[i])
    <3>1. s \in Seq(Nat) /\ s # << >>
      BY <1>6
    <3> HIDE DEF s
    <3>2. 1 \in DOMAIN s
      BY <3>1
    <3> QED
      BY <3>2 DEF s
  <2> QED
    BY <2>1 DEF ToSet
<1>11. {Items[i].value : i \in DOMAIN Items} = DistinctValues
  <2>1. ASSUME NEW v
        PROVE  v \in DistinctValues <=> \E i \in DOMAIN Items : Items[i].value = v
    BY <1>8, <1>9, <1>10
  <2> QED
    BY <2>1
<1>12. ASSUME NEW item \in ToSet(Items)
       PROVE  Ascending(RowsOf(item)) /\ ToSet(RowsOf(item)) = RowsWith(item.value)
  <2>1. PICK i \in DOMAIN Items : item = Items[i]
    BY DEF ToSet
  <2>2. Ascending(RowsOf(item))
    <3> DEFINE s == RowsOf(item)
    <3>1. s \in Seq(Nat) /\ Rising(s)
      BY <1>6, <2>1
    <3> HIDE DEF s
    <3>2. DOMAIN s = 1 .. Len(s) /\ Len(s) \in Nat
      BY <3>1
    <3>3. Ascending(s)
      BY <3>1, <3>2 DEF Ascending, Rising
    <3> QED
      BY <3>3 DEF s
  <2>3. \A j \in DOMAIN Items : Items[j].value = item.value => j = i
    <3> SUFFICES ASSUME NEW j \in DOMAIN Items, Items[j].value = item.value, j # i PROVE FALSE
      OBVIOUS
    <3>1. j < i \/ i < j
      BY <1>1
    <3>2. Items[j].value \in Int /\ Items[i].value \in Int
      BY <1>1, ItemValue
    <3>3. Items[j].value < Items[i].value \/ Items[i].value < Items[j].value
      BY <1>1, <3>1
    <3> QED
      BY <2>1, <3>2, <3>3
  <2>4. ASSUME NEW r PROVE r \in ToSet(RowsOf(item)) <=> r \in RowsWith(item.value)
    BY <1>8, <2>1, <2>3
  <2> QED
    BY <2>2, <2>4
<1> QED
  BY <1>11, <1>12

\* The index that is written is the inverse of the documents: it has their values and,
\* for each, the rows with it, ascending.
THEOREM IndexInverse == Spec => []IndexIsInverse
  BY FinishedIsInverse, Invariant, PTL

-----------------------------------------------------------------------------
(* Counting the pairs of a sequence. *)

\* The places of a sequence that have an element of S, and how many there are.
PlacesOf(S, s) == {i \in DOMAIN s : s[i] \in S}
CountIn(S, s) == Cardinality(PlacesOf(S, s))
One(S, x) == IF x \in S THEN 1 ELSE 0

\* They are finitely many.
LEMMA CountIs ==
    ASSUME NEW T, NEW s \in Seq(T), NEW S
    PROVE  IsFiniteSet(PlacesOf(S, s)) /\ CountIn(S, s) \in Nat
<1>1. Len(s) \in Nat /\ DOMAIN s = 1 .. Len(s)
  OBVIOUS
<1>2. IsFiniteSet(1 .. Len(s))
  BY <1>1, FS_Interval
<1>3. PlacesOf(S, s) \subseteq 1 .. Len(s)
  BY <1>1 DEF PlacesOf
<1>4. IsFiniteSet(PlacesOf(S, s))
  BY <1>2, <1>3, FS_Subset
<1> QED
  BY <1>4, FS_CardinalityType DEF CountIn

\* The empty sequence has none.
LEMMA CountEmpty ==
    ASSUME NEW S
    PROVE  CountIn(S, << >>) = 0
<1>1. PlacesOf(S, << >>) = {}
  BY DEF PlacesOf
<1> QED
  BY <1>1, FS_EmptySet DEF CountIn

\* A sequence of one element has one or none.
LEMMA CountOne ==
    ASSUME NEW S, NEW x
    PROVE  CountIn(S, <<x>>) = One(S, x)
<1>1. DOMAIN <<x>> = {1} /\ <<x>>[1] = x
  OBVIOUS
<1>2. CASE x \in S
  <2>1. PlacesOf(S, <<x>>) = {1}
    BY <1>1, <1>2 DEF PlacesOf
  <2> QED
    BY <1>2, <2>1, FS_Singleton DEF CountIn, One
<1>3. CASE x \notin S
  <2>1. PlacesOf(S, <<x>>) = {}
    BY <1>1, <1>3 DEF PlacesOf
  <2> QED
    BY <1>3, <2>1, FS_EmptySet DEF CountIn, One
<1> QED
  BY <1>2, <1>3

\* Sets between which there is a bijection have as many elements.
LEMMA SameNumber ==
    ASSUME NEW A, NEW B, IsFiniteSet(A), NEW f \in [A -> B],
           \A a, b \in A : f[a] = f[b] => a = b,
           \A b \in B : \E a \in A : f[a] = b
    PROVE  IsFiniteSet(B) /\ Cardinality(B) = Cardinality(A)
<1>1. f \in Bijection(A, B)
  BY DEF Bijection, Injection, Surjection, IsInjective
<1>2. ExistsBijection(A, B)
  BY <1>1 DEF ExistsBijection
<1> QED
  BY <1>2, FS_Bijection

\* A sequence joined to another has as many as both.
LEMMA CountJoined ==
    ASSUME NEW T, NEW s \in Seq(T), NEW t \in Seq(T), NEW S
    PROVE  CountIn(S, s \o t) = CountIn(S, s) + CountIn(S, t)
<1> DEFINE u == s \o t
           n == Len(s)
           m == Len(t)
           A == PlacesOf(S, s)
           B == PlacesOf(S, t)
           C == {n + i : i \in B}
<1>1. /\ n \in Nat /\ m \in Nat /\ DOMAIN s = 1 .. n /\ DOMAIN t = 1 .. m
      /\ u \in Seq(T) /\ DOMAIN u = 1 .. n + m
      /\ \A i \in 1 .. n + m : u[i] = IF i <= n THEN s[i] ELSE t[i - n]
  <2>1. u \in Seq(T) /\ Len(u) = n + m
    BY ConcatProperties
  <2>2. \A i \in 1 .. n + m : u[i] = IF i <= n THEN s[i] ELSE t[i - n]
    BY ConcatProperties
  <2> HIDE DEF u
  <2> QED
    BY <2>1, <2>2
<1> HIDE DEF u, n, m
<1>2. A \subseteq 1 .. n /\ B \subseteq 1 .. m
  BY <1>1 DEF PlacesOf
<1>3. PlacesOf(S, u) = A \cup C
  <2>1. ASSUME NEW i \in PlacesOf(S, u) PROVE i \in A \cup C
    <3>1. i \in 1 .. n + m /\ u[i] \in S
      BY <1>1 DEF PlacesOf
    <3>2. CASE i <= n
      BY <1>1, <3>1, <3>2 DEF PlacesOf
    <3>3. CASE ~(i <= n)
      <4>1. i - n \in 1 .. m /\ i = n + (i - n)
        BY <1>1, <3>1, <3>3
      <4>2. i - n \in B
        BY <1>1, <3>1, <3>3, <4>1 DEF PlacesOf
      <4> QED
        BY <4>1, <4>2
    <3> QED
      BY <3>2, <3>3
  <2>2. ASSUME NEW i \in A PROVE i \in PlacesOf(S, u)
    <3>1. i \in 1 .. n /\ s[i] \in S
      BY <1>1 DEF PlacesOf
    <3>2. i \in 1 .. n + m /\ i <= n
      BY <1>1, <3>1
    <3> QED
      BY <1>1, <3>1, <3>2 DEF PlacesOf
  <2>3. ASSUME NEW k \in B PROVE n + k \in PlacesOf(S, u)
    <3>1. k \in 1 .. m /\ t[k] \in S
      BY <1>1 DEF PlacesOf
    <3> DEFINE i == n + k
    <3>2. i \in 1 .. n + m /\ ~(i <= n) /\ i - n = k
      BY <1>1, <3>1
    <3> HIDE DEF i
    <3>3. i \in PlacesOf(S, u)
      BY <1>1, <3>1, <3>2 DEF PlacesOf
    <3> QED
      BY <3>3 DEF i
  <2> HIDE DEF A, B
  <2> QED
    BY <2>1, <2>2, <2>3
<1>4. IsFiniteSet(A) /\ IsFiniteSet(B) /\ Cardinality(A) \in Nat /\ Cardinality(B) \in Nat
  BY CountIs DEF CountIn
<1> HIDE DEF A, B
<1>5. IsFiniteSet(C) /\ Cardinality(C) = Cardinality(B)
  <2> DEFINE f == [i \in B |-> n + i]
  <2>1. f \in [B -> C] /\ \A b \in C : \E a \in B : f[a] = b
    OBVIOUS
  <2>2. \A a, b \in B : f[a] = f[b] => a = b
    BY <1>1, <1>2
  <2> HIDE DEF f, C
  <2> QED
    BY <1>4, <2>1, <2>2, SameNumber
<1>6. A \cap C = {}
  BY <1>1, <1>2
<1> HIDE DEF C
<1>7. Cardinality(A \cup C) = Cardinality(A) + Cardinality(C)
  <2>1. Cardinality(A \cup C) = Cardinality(A) + Cardinality(C) - Cardinality({})
    BY <1>4, <1>5, <1>6, FS_Union
  <2>2. Cardinality({}) = 0
    BY FS_EmptySet
  <2> QED
    BY <1>4, <1>5, <2>1, <2>2
<1> QED
  BY <1>3, <1>5, <1>7 DEF CountIn, u, A, B

\* What one sequence joined to another has.
LEMMA JoinedSet ==
    ASSUME NEW T, NEW s \in Seq(T), NEW t \in Seq(T)
    PROVE  \A x : x \in ToSet(s \o t) <=> x \in ToSet(s) \/ x \in ToSet(t)
<1> DEFINE u == s \o t
           n == Len(s)
           m == Len(t)
<1>1. /\ n \in Nat /\ m \in Nat /\ DOMAIN s = 1 .. n /\ DOMAIN t = 1 .. m /\ DOMAIN u = 1 .. n + m
      /\ \A i \in 1 .. n + m : u[i] = IF i <= n THEN s[i] ELSE t[i - n]
  <2>1. u \in Seq(T) /\ Len(u) = n + m
    BY ConcatProperties
  <2>2. \A i \in 1 .. n + m : u[i] = IF i <= n THEN s[i] ELSE t[i - n]
    BY ConcatProperties
  <2> HIDE DEF u
  <2> QED
    BY <2>1, <2>2
<1> HIDE DEF u, n, m
<1>2. ASSUME NEW x \in ToSet(u) PROVE x \in ToSet(s) \/ x \in ToSet(t)
  <2>1. PICK i \in 1 .. n + m : x = u[i]
    BY <1>1 DEF ToSet
  <2>2. CASE i <= n
    BY <1>1, <2>1, <2>2 DEF ToSet
  <2>3. CASE ~(i <= n)
    <3>1. i - n \in 1 .. m
      BY <1>1, <2>3
    <3> QED
      BY <1>1, <2>1, <2>3, <3>1 DEF ToSet
  <2> QED
    BY <2>2, <2>3
<1>3. ASSUME NEW x \in ToSet(s) PROVE x \in ToSet(u)
  <2>1. PICK i \in 1 .. n : x = s[i]
    BY <1>1 DEF ToSet
  <2>2. i \in 1 .. n + m /\ i <= n
    BY <1>1
  <2> QED
    BY <1>1, <2>1, <2>2 DEF ToSet
<1>4. ASSUME NEW x \in ToSet(t) PROVE x \in ToSet(u)
  <2>1. PICK k \in 1 .. m : x = t[k]
    BY <1>1 DEF ToSet
  <2> DEFINE i == n + k
  <2>2. i \in 1 .. n + m /\ ~(i <= n) /\ i - n = k
    BY <1>1
  <2> HIDE DEF i
  <2> QED
    BY <1>1, <2>1, <2>2 DEF ToSet
<1> QED
  BY <1>2, <1>3, <1>4 DEF u

\* Sorting keeps every pair as often as it was.
LEMMA CountSorted ==
    ASSUME NEW s \in Seq(Pairs), NEW S
    PROVE  CountIn(S, Sorted(s)) = CountIn(S, s)
<1>1. PICK o \in [DOMAIN s -> DOMAIN s] :
              /\ \A i, j \in DOMAIN s : o[i] = o[j] => i = j
              /\ \A k \in DOMAIN s : \E i \in DOMAIN s : o[i] = k
              /\ Sorted(s) = [i \in DOMAIN s |-> s[o[i]]]
  BY SortedOrder
<1> DEFINE t == Sorted(s)
           A == PlacesOf(S, t)
           B == PlacesOf(S, s)
           f == [i \in A |-> o[i]]
<1>2. t \in Seq(Pairs)
  BY SortedIs
<1>3. DOMAIN t = DOMAIN s /\ \A i \in DOMAIN s : t[i] = s[o[i]]
  BY <1>1
<1> HIDE DEF t
<1>4. IsFiniteSet(A)
  BY <1>2, CountIs
<1>5. A \subseteq DOMAIN s /\ \A i \in DOMAIN s : i \in A <=> o[i] \in B
  BY <1>1, <1>3 DEF PlacesOf
<1>6. B \subseteq DOMAIN s
  BY DEF PlacesOf
<1> HIDE DEF A, B
<1>7. f \in [A -> B] /\ \A a, b \in A : f[a] = f[b] => a = b
  BY <1>1, <1>5
<1>8. \A b \in B : \E a \in A : f[a] = b
  BY <1>1, <1>5, <1>6
<1> HIDE DEF f
<1>9. Cardinality(B) = Cardinality(A)
  BY <1>4, <1>7, <1>8, SameNumber
<1> QED
  BY <1>9 DEF CountIn, t, A, B

\* What is joined has the elements of what it is joined from.
LEMMA FlattenHas ==
    ASSUME NEW T, NEW s \in Seq(Seq(T)), NEW x
    PROVE  x \in ToSet(FlattenSeq(s)) <=> \E i \in DOMAIN s : x \in ToSet(s[i])
<1> DEFINE n == Len(s)
<1>1. n \in Nat /\ DOMAIN s = 1 .. n
  OBVIOUS
<1>2. CASE s = << >>
  BY <1>2 DEF FlattenSeq, ToSet
<1>3. CASE s # << >>
  <2>1. PICK f : IsJoin(f, n, s) /\ FlattenSeq(s) = f[n]
    BY <1>3, FlattenIs
  <2>2. \A i \in 1 .. n : f[i] \in Seq(T) /\ s[i] \in Seq(T)
    BY <2>1, JoinType
  <2> DEFINE Right(k) == x \in ToSet(f[k]) <=> \E i \in 1 .. k : x \in ToSet(s[i])
             U == {k \in 1 .. n : ~Right(k)}
  <2> HIDE DEF n
  <2>3. U = {}
    <3> SUFFICES ASSUME U # {} PROVE FALSE
      OBVIOUS
    <3>1. PICK k \in U : \A l \in U : k <= l
      <4>1. U \subseteq Nat
        OBVIOUS
      <4> HIDE DEF U
      <4> QED
        BY <4>1, LeastNatural
    <3>2. k \in 1 .. n /\ ~Right(k)
      OBVIOUS
    <3>3. f[k] = (IF k = 1 THEN s[k] ELSE f[k - 1] \o s[k])
      <4>1. n \in Nat /\ IsJoin(f, n, s) /\ k \in 1 .. n
        BY <1>1, <2>1
      <4> HIDE DEF U
      <4> QED
        BY <4>1, JoinAt
    <3>4. CASE k = 1
      <4>1. f[k] = s[k] /\ 1 .. k = {1}
        BY <3>3, <3>4
      <4> QED
        BY <3>2, <3>4, <4>1
    <3>5. CASE k # 1
      <4>1. k - 1 \in 1 .. n /\ k - 1 < k
        BY <1>1, <3>2, <3>5
      <4>2. Right(k - 1)
        <5> HIDE DEF Right
        <5> QED
          BY <3>1, <4>1
      <4>3. x \in ToSet(f[k]) <=> x \in ToSet(f[k - 1]) \/ x \in ToSet(s[k])
        <5> DEFINE a == f[k - 1]
                   b == s[k]
        <5>1. a \in Seq(T) /\ b \in Seq(T) /\ f[k] = a \o b
          BY <2>2, <3>2, <3>3, <3>5, <4>1
        <5> HIDE DEF a, b
        <5>2. x \in ToSet(a \o b) <=> x \in ToSet(a) \/ x \in ToSet(b)
          BY <5>1, JoinedSet
        <5> QED
          BY <5>1, <5>2 DEF a, b
      <4>4. \A i : i \in 1 .. k <=> i \in 1 .. k - 1 \/ i = k
        BY <1>1, <3>2
      <4> HIDE DEF U
      <4>5. Right(k)
        BY <4>2, <4>3, <4>4, Zenon
      <4> QED
        BY <3>2, <4>5
    <3> QED
      BY <3>4, <3>5
  <2>4. n \in 1 .. n
    BY <1>1, <1>3 DEF n
  <2>5. Right(n)
    <3> HIDE DEF Right
    <3> QED
      BY <2>3, <2>4
  <2> QED
    BY <1>1, <2>1, <2>5
<1> QED
  BY <1>2, <1>3

\* Joining is associative, as the library has it.
LEMMA Associative ==
    ASSUME NEW T, NEW a \in Seq(T), NEW b \in Seq(T), NEW c \in Seq(T)
    PROVE  a \o (b \o c) = (a \o b) \o c
BY ConcatAssociative

\* Joining a sequence of sequences to another joins what they are joined to.
LEMMA FlattenJoined ==
    ASSUME NEW T, NEW s \in Seq(Seq(T)), NEW t \in Seq(Seq(T))
    PROVE  FlattenSeq(s \o t) = FlattenSeq(s) \o FlattenSeq(t)
<1>0. /\ \A a, b, c \in Seq(T) : a \o (b \o c) = (a \o b) \o c
      /\ \A a, b, c \in Seq(Seq(T)) : a \o (b \o c) = (a \o b) \o c
  <2>1. \A a, b, c \in Seq(T) : a \o (b \o c) = (a \o b) \o c
    BY Associative
  <2> DEFINE V == Seq(T)
  <2> HIDE DEF V
  <2>2. \A a, b, c \in Seq(V) : a \o (b \o c) = (a \o b) \o c
    BY Associative
  <2> QED
    BY <2>1, <2>2 DEF V
<1> DEFINE m == Len(t)
           First(k) == SubSeq(t, 1, k)
           Right(k) == FlattenSeq(s \o First(k)) = FlattenSeq(s) \o FlattenSeq(First(k))
           U == {k \in 0 .. m : ~Right(k)}
<1>1. m \in Nat /\ FlattenSeq(s) \in Seq(T)
  BY FlattenType
<1>2. /\ First(0) = << >> /\ First(m) = t
      /\ \A k \in 0 .. m : First(k) \in Seq(Seq(T))
      /\ \A k \in 1 .. m : t[k] \in Seq(T) /\ First(k) = Append(First(k - 1), t[k])
  OBVIOUS
<1> HIDE DEF m, First
<1>3. U = {}
  <2> SUFFICES ASSUME U # {} PROVE FALSE
    OBVIOUS
  <2>1. PICK k \in U : \A l \in U : k <= l
    <3>1. U \subseteq Nat
      OBVIOUS
    <3> HIDE DEF U
    <3> QED
      BY <3>1, LeastNatural
  <2>2. k \in 0 .. m /\ ~Right(k)
    OBVIOUS
  <2>3. CASE k = 0
    <3>1. First(k) = << >>
      BY <1>2, <2>3
    <3>2. s \o << >> = s /\ FlattenSeq(s) \o << >> = FlattenSeq(s)
      BY <1>1, ConcatEmptySeq
    <3>3. FlattenSeq(<< >>) = << >>
      BY DEF FlattenSeq
    <3> HIDE DEF Front
    <3>4. Right(k)
      BY <3>1, <3>2, <3>3
    <3> QED
      BY <2>2, <3>4
  <2>4. CASE k # 0
    <3>1. k - 1 \in 0 .. m /\ k - 1 \notin U /\ k \in 1 .. m
      BY <1>1, <2>1, <2>4
    <3>2. Right(k - 1)
      BY <3>1
    <3> DEFINE a == First(k - 1)
               x == t[k]
               r == FlattenSeq(s)
               q == FlattenSeq(a)
    <3>3. First(k) = Append(a, x)
      BY <1>2, <3>1
    <3>4. a \in Seq(Seq(T)) /\ x \in Seq(T)
      BY <1>2, <3>1
    <3>5. q \in Seq(T)
      BY <3>4, FlattenType
    <3> HIDE DEF a, x
    <3>6. s \o Append(a, x) = Append(s \o a, x) /\ s \o a \in Seq(Seq(T))
      <4> DEFINE U1 == Seq(T)
      <4>1. s \in Seq(U1) /\ a \in Seq(U1) /\ x \in U1
        BY <3>4
      <4> HIDE DEF U1
      <4>2. Append(a, x) = a \o <<x>> /\ <<x>> \in Seq(U1)
        BY <4>1, AppendIsConcat
      <4>3. s \o a \in Seq(U1)
        BY <4>1, ConcatProperties
      <4>4. Append(s \o a, x) = (s \o a) \o <<x>>
        BY <4>1, <4>3, AppendIsConcat
      <4>5. (s \o a) \o <<x>> = s \o (a \o <<x>>)
        BY <1>0, <4>1, <4>2 DEF U1
      <4> QED
        BY <4>2, <4>3, <4>4, <4>5 DEF U1
    <3>7. FlattenSeq(Append(s \o a, x)) = FlattenSeq(s \o a) \o x
      BY <3>4, <3>6, FlattenAppend
    <3>8. FlattenSeq(Append(a, x)) = q \o x
      BY <3>4, FlattenAppend
    <3>9. FlattenSeq(s \o a) = r \o q
      BY <3>2 DEF a
    <3> HIDE DEF r, q
    <3>10. r \o (q \o x) = (r \o q) \o x
      <4>1. r \in Seq(T) /\ q \in Seq(T) /\ x \in Seq(T)
        BY <1>1, <3>4, <3>5 DEF r
      <4> QED
        BY <1>0, <4>1
    <3>11. FlattenSeq(s \o Append(a, x)) = r \o FlattenSeq(Append(a, x))
      BY <3>6, <3>7, <3>8, <3>9, <3>10
    <3>12. Right(k)
      BY <3>3, <3>11 DEF r
    <3> QED
      BY <2>2, <3>12
  <2> QED
    BY <2>3, <2>4
<1>4. m \in 0 .. m /\ m \notin U
  <2>1. m \in 0 .. m
    BY <1>1
  <2> HIDE DEF U
  <2> QED
    BY <1>3, <2>1
<1>5. Right(m)
  BY <1>4
<1> QED
  BY <1>2, <1>5

\* Sequences that differ in one place only.
SameBut(s, t, c) == Len(s) = Len(t) /\ \A i \in DOMAIN s : i # c => s[i] = t[i]

\* Sequences of sequences that differ in one place, joined, have as many as the other
\* and those in which this place differs.
LEMMA CountDiffers ==
    ASSUME NEW T, NEW s \in Seq(Seq(T)), NEW t \in Seq(Seq(T)), NEW S, NEW d \in Nat,
           NEW c \in DOMAIN s, CountIn(S, s[c]) = CountIn(S, t[c]) + d, SameBut(s, t, c)
    PROVE  CountIn(S, FlattenSeq(s)) = CountIn(S, FlattenSeq(t)) + d
<1> DEFINE n == Len(s)
<1>1. n \in Nat /\ DOMAIN s = 1 .. n /\ DOMAIN t = 1 .. n /\ n \in 1 .. n /\ s # << >> /\ t # << >>
      /\ Len(t) = n /\ \A k \in 1 .. n : k # c => s[k] = t[k]
  BY DEF SameBut
<1>2. PICK f : IsJoin(f, n, s) /\ FlattenSeq(s) = f[n]
  BY <1>1, FlattenIs
<1>3. PICK g : IsJoin(g, n, t) /\ FlattenSeq(t) = g[n]
  BY <1>1, FlattenIs
<1>4. \A i \in 1 .. n : f[i] \in Seq(T) /\ g[i] \in Seq(T) /\ s[i] \in Seq(T) /\ t[i] \in Seq(T)
  <2>1. \A i \in 1 .. n : f[i] \in Seq(T)
    BY <1>2, JoinType
  <2>2. \A i \in 1 .. n : g[i] \in Seq(T)
    <3>1. IsJoin(g, Len(t), t) /\ Len(t) = n
      BY <1>1, <1>3
    <3> HIDE DEF n
    <3>2. \A i \in 1 .. Len(t) : g[i] \in Seq(T)
      BY <3>1, JoinType
    <3> QED
      BY <3>1, <3>2
  <2>3. \A i \in 1 .. n : s[i] \in Seq(T) /\ t[i] \in Seq(T)
    <3> HIDE DEF n
    <3> QED
      BY <1>1
  <2> HIDE DEF n
  <2> QED
    BY <2>1, <2>2, <2>3
<1>5. \A i \in 1 .. n : /\ f[i] = (IF i = 1 THEN s[i] ELSE f[i - 1] \o s[i])
                         /\ g[i] = (IF i = 1 THEN t[i] ELSE g[i - 1] \o t[i])
  <2> HIDE DEF n
  <2>1. ASSUME NEW h, NEW u, IsJoin(h, n, u), NEW i \in 1 .. n
        PROVE  h[i] = (IF i = 1 THEN u[i] ELSE h[i - 1] \o u[i])
    BY <1>1, <2>1, JoinAt
  <2>2. \A i \in 1 .. n : f[i] = (IF i = 1 THEN s[i] ELSE f[i - 1] \o s[i])
    BY <1>2, <2>1
  <2>3. \A i \in 1 .. n : g[i] = (IF i = 1 THEN t[i] ELSE g[i - 1] \o t[i])
    BY <1>3, <2>1
  <2> QED
    BY <2>2, <2>3
<1> DEFINE More(k) == IF k < c THEN 0 ELSE d
           Right(k) == CountIn(S, f[k]) = CountIn(S, g[k]) + More(k)
           U == {k \in 1 .. n : ~Right(k)}
<1> HIDE DEF n
<1>6. U = {}
  <2> SUFFICES ASSUME U # {} PROVE FALSE
    OBVIOUS
  <2>1. PICK k \in U : \A l \in U : k <= l
    <3>1. U \subseteq Nat
      OBVIOUS
    <3> HIDE DEF U
    <3> QED
      BY <3>1, LeastNatural
  <2>2. k \in 1 .. n /\ ~Right(k)
    OBVIOUS
  <2>3. c \in Nat \ {0}
    BY <1>1
  <2> DEFINE here == IF k = c THEN d ELSE 0
  <2>4. CountIn(S, s[k]) = CountIn(S, t[k]) + here /\ CountIn(S, t[k]) \in Nat
    <3>1. CountIn(S, t[k]) \in Nat
      BY <1>4, <2>2, CountIs
    <3>2. k # c => s[k] = t[k]
      BY <1>1, <2>2
    <3> QED
      BY <3>1, <3>2
  <2>5. CASE k = 1
    <3>1. f[k] = s[k] /\ g[k] = t[k]
      BY <1>1, <1>2, <1>3, <2>2, <2>5, JoinAt
    <3>2. More(k) = here
      BY <2>3, <2>5
    <3> QED
      BY <2>2, <2>4, <3>1, <3>2
  <2>6. CASE k # 1
    <3>1. k - 1 \in 1 .. n /\ k - 1 \notin U
      BY <1>1, <2>1, <2>6
    <3>2. Right(k - 1)
      BY <3>1
    <3>3. f[k] = f[k - 1] \o s[k] /\ g[k] = g[k - 1] \o t[k]
      <4>1. f[k] = (IF k = 1 THEN s[k] ELSE f[k - 1] \o s[k])
        BY <1>5, <2>2
      <4>2. g[k] = (IF k = 1 THEN t[k] ELSE g[k - 1] \o t[k])
        BY <1>5, <2>2
      <4> QED
        BY <2>6, <4>1, <4>2
    <3>4. CountIn(S, f[k]) = CountIn(S, f[k - 1]) + CountIn(S, s[k])
      <4>1. f[k - 1] \in Seq(T) /\ s[k] \in Seq(T)
        BY <1>4, <2>2, <3>1
      <4> QED
        BY <3>3, <4>1, CountJoined
    <3>5. CountIn(S, g[k]) = CountIn(S, g[k - 1]) + CountIn(S, t[k])
      <4>1. g[k - 1] \in Seq(T) /\ t[k] \in Seq(T)
        BY <1>4, <2>2, <3>1
      <4> QED
        BY <3>3, <4>1, CountJoined
    <3>6. CountIn(S, g[k - 1]) \in Nat
      BY <1>4, <3>1, CountIs
    <3>7. More(k) = More(k - 1) + here
      BY <2>2, <2>3
    <3>8. More(k - 1) \in Nat /\ here \in Nat
      OBVIOUS
    <3> HIDE DEF More, here
    <3> QED
      BY <2>2, <2>4, <3>2, <3>4, <3>5, <3>6, <3>7, <3>8
  <2> QED
    BY <2>5, <2>6
<1>7. n \notin U /\ n \in 1 .. n /\ ~(n < c)
  <2>1. ~(n < c)
    BY <1>1
  <2> HIDE DEF U
  <2> QED
    BY <1>1, <1>6, <2>1
<1>8. Right(n) /\ More(n) = d
  BY <1>1, <1>7
<1> QED
  BY <1>2, <1>3, <1>8

-----------------------------------------------------------------------------
(* Where the pairs are, as sequences of sequences. *)

\* What is left of each run, the rows of each value of the writer, those of each item of
\* the index, and the values of each document.
RunLists == [c \in DOMAIN runs |-> SubSeq(runs[c], Taken(c) + 1, Len(runs[c]))]
WriterList(i) == [k \in 1 .. RowCount(i) |-> Pair(wValues[i], wRows[wRowStart[i] + k])]
WriterLists == [i \in DOMAIN wValues |-> WriterList(i)]
ItemPairs(item) == [k \in DOMAIN RowsOf(item) |-> Pair(item.value, RowsOf(item)[k])]
ItemLists(items) == [i \in DOMAIN items |-> ItemPairs(items[i])]
DocPairs(doc, i) == [k \in DOMAIN doc |-> Pair(doc[k], i - 1)]
DocLists == [i \in DOMAIN docs |-> DocPairs(docs[i], i)]

\* They are what NothingLost counts.
LEMMA ListsAre ==
    /\ InRuns = FlattenSeq(RunLists) /\ InWriter = FlattenSeq(WriterLists)
    /\ InIndex = FlattenSeq(ItemLists(Items)) /\ Collected = FlattenSeq(DocLists)
<1>1. InRuns = FlattenSeq(RunLists)
  BY DEF InRuns, RunLists, Taken
<1>2. InWriter = FlattenSeq(WriterLists)
  BY DEF InWriter, WriterLists, WriterList
<1>3. InIndex = FlattenSeq(ItemLists(Items))
  BY DEF InIndex, ItemLists, ItemPairs
<1>4. Collected = FlattenSeq(DocLists)
  BY DEF Collected, DocLists, DocPairs
<1> QED
  BY <1>1, <1>2, <1>3, <1>4

\* A pair of a value and a row.
LEMMA PairFits ==
    ASSUME NEW v \in Int, NEW r \in Nat
    PROVE  Pair(v, r) \in Pairs
BY DEF Pair, Pairs

\* They are sequences of pairs: those of the runs,
LEMMA RunListsFit ==
    ASSUME CollectedFit
    PROVE  /\ RunLists \in Seq(Seq(Pairs)) /\ Len(RunLists) = Len(runs)
           /\ \A c \in DOMAIN runs : Taken(c) \in Nat /\ Taken(c) <= Len(runs[c])
<1>1. runs \in Seq(Seq(Pairs)) /\ DOMAIN runs = 1 .. Len(runs) /\ Len(runs) \in Nat
  BY DEF CollectedFit
<1>2. ASSUME NEW c \in DOMAIN runs
      PROVE  Taken(c) \in Nat /\ Taken(c) <= Len(runs[c])
  <2>1. runs[c] \in Seq(Pairs)
    BY <1>1
  <2>2. CASE phase = "collect"
    <3>1. read = << >>
      BY <2>2 DEF CollectedFit
    <3>2. Taken(c) = 0
      BY <3>1 DEF Taken
    <3> QED
      BY <2>1, <3>2
  <2>3. CASE phase # "collect"
    <3>1. read \in [DOMAIN runs -> Nat] /\ read[c] <= Len(runs[c])
      BY <2>3 DEF CollectedFit
    <3> QED
      BY <3>1 DEF Taken
  <2> QED
    BY <2>2, <2>3
<1>3. ASSUME NEW c \in DOMAIN runs
      PROVE  SubSeq(runs[c], Taken(c) + 1, Len(runs[c])) \in Seq(Pairs)
  <2> DEFINE s == runs[c]
             k == Taken(c)
  <2>1. s \in Seq(Pairs) /\ k \in Nat
    BY <1>1, <1>2
  <2> HIDE DEF s, k
  <2>2. SubSeq(s, k + 1, Len(s)) \in Seq(Pairs)
    BY <2>1
  <2> QED
    BY <2>2 DEF s, k
<1>4. RunLists \in Seq(Seq(Pairs)) /\ Len(RunLists) = Len(runs)
  BY <1>1, <1>3 DEF RunLists
<1> QED
  BY <1>2, <1>4

\* those of the writer,
LEMMA WriterListsFit ==
    ASSUME WriterFits
    PROVE  /\ WriterLists \in Seq(Seq(Pairs)) /\ Len(WriterLists) = Len(wValues)
           /\ DOMAIN WriterLists = 1 .. Len(wValues)
           /\ \A i \in 1 .. Len(wValues) :
                 WriterLists[i] = [k \in DOMAIN RowsAt(i) |-> Pair(wValues[i], RowsAt(i)[k])]
<1>1. wValues \in Seq(Int) /\ DOMAIN wValues = 1 .. Len(wValues) /\ Len(wValues) \in Nat
  BY DEF WriterFits
<1>2. ASSUME NEW i \in DOMAIN wValues
      PROVE  /\ WriterList(i) = [k \in DOMAIN RowsAt(i) |-> Pair(wValues[i], RowsAt(i)[k])]
             /\ WriterList(i) \in Seq(Pairs)
  <2>1. RowsAt(i) \in Seq(Nat) /\ DOMAIN RowsAt(i) = 1 .. RowCount(i) /\ RowCount(i) \in Nat
    BY WriterRows DEF RowsAt
  <2>2. \A k \in 1 .. RowCount(i) : RowsAt(i)[k] = wRows[wRowStart[i] + k]
    BY DEF RowsAt
  <2>3. WriterList(i) = [k \in 1 .. RowCount(i) |-> Pair(wValues[i], RowsAt(i)[k])]
    BY <2>2 DEF WriterList
  <2>4. \A k \in 1 .. RowCount(i) : Pair(wValues[i], RowsAt(i)[k]) \in Pairs
    BY <1>1, <2>1, PairFits
  <2> QED
    BY <2>1, <2>3, <2>4
<1>3. \A i \in DOMAIN wValues : WriterList(i) \in Seq(Pairs)
  BY <1>2
<1>4. WriterLists \in Seq(Seq(Pairs)) /\ Len(WriterLists) = Len(wValues)
  BY <1>1, <1>3 DEF WriterLists
<1>5. DOMAIN WriterLists = 1 .. Len(wValues) /\ \A i \in 1 .. Len(wValues) : WriterLists[i] = WriterList(i)
  BY <1>1 DEF WriterLists
<1> QED
  BY <1>1, <1>2, <1>4, <1>5

\* those of items,
LEMMA ItemListsFit ==
    ASSUME NEW items \in Seq(Item), \A i \in DOMAIN items : RowsOf(items[i]) \in Seq(Nat)
    PROVE  ItemLists(items) \in Seq(Seq(Pairs)) /\ Len(ItemLists(items)) = Len(items)
<1>1. DOMAIN items = 1 .. Len(items) /\ Len(items) \in Nat
  OBVIOUS
<1>2. ASSUME NEW i \in DOMAIN items PROVE ItemPairs(items[i]) \in Seq(Pairs)
  <2> DEFINE r == RowsOf(items[i])
             v == items[i].value
  <2>1. r \in Seq(Nat) /\ v \in Int
    <3>1. items[i] \in Item
      OBVIOUS
    <3> QED
      BY <3>1, ItemValue
  <2> HIDE DEF r, v
  <2>2. [k \in DOMAIN r |-> Pair(v, r[k])] \in Seq(Pairs)
    <3>1. DOMAIN r = 1 .. Len(r) /\ Len(r) \in Nat /\ \A k \in DOMAIN r : Pair(v, r[k]) \in Pairs
      BY <2>1, PairFits
    <3> QED
      BY <3>1
  <2> QED
    BY <2>2 DEF ItemPairs, r, v
<1> QED
  BY <1>1, <1>2 DEF ItemLists

\* and those of the documents.
LEMMA DocListsFit ==
    ASSUME docs \in Seq(Doc)
    PROVE  DocLists \in Seq(Seq(Pairs)) /\ Len(DocLists) = Len(docs)
<1>1. DOMAIN docs = 1 .. Len(docs) /\ Len(docs) \in Nat
  OBVIOUS
<1>2. ASSUME NEW i \in DOMAIN docs PROVE DocPairs(docs[i], i) \in Seq(Pairs)
  <2>1. docs[i] \in Seq(Int) /\ i - 1 \in Nat
    BY <1>1, BuilderAssumption
  <2> DEFINE d == docs[i]
             r == i - 1
  <2> HIDE DEF d, r
  <2>2. d \in Seq(Int) /\ r \in Nat
    BY <2>1 DEF d, r
  <2>3. [k \in DOMAIN d |-> Pair(d[k], r)] \in Seq(Pairs)
    <3>1. DOMAIN d = 1 .. Len(d) /\ Len(d) \in Nat /\ \A k \in DOMAIN d : Pair(d[k], r) \in Pairs
      BY <2>2, PairFits
    <3> QED
      BY <3>1
  <2> QED
    BY <2>3 DEF DocPairs, d, r
<1> QED
  BY <1>1, <1>2 DEF DocLists

\* The same after a step.
LEMMA ListsNext ==
    /\ InRuns' = FlattenSeq(RunLists') /\ InWriter' = FlattenSeq(WriterLists')
    /\ InIndex' = FlattenSeq(ItemLists(Items')) /\ Collected' = FlattenSeq(DocLists')
<1>1. InRuns' = FlattenSeq(RunLists')
  BY DEF InRuns, RunLists, Taken
<1>2. InWriter' = FlattenSeq(WriterLists')
  BY DEF InWriter, WriterLists, WriterList, RowCount, Pair
<1>3. InIndex' = FlattenSeq(ItemLists(Items'))
  BY DEF InIndex, ItemLists, ItemPairs, RowsOf, Pair
<1>4. Collected' = FlattenSeq(DocLists')
  BY DEF Collected, DocLists, DocPairs, Pair
<1> QED
  BY <1>1, <1>2, <1>3, <1>4

\* A sequence of one sequence is joined to it.
LEMMA FlattenOne ==
    ASSUME NEW T, NEW x \in Seq(T)
    PROVE  FlattenSeq(<<x>>) = x
<1>1. << >> \in Seq(Seq(T)) /\ Append(<< >>, x) = <<x>>
  OBVIOUS
<1>2. FlattenSeq(<<x>>) = FlattenSeq(<< >>) \o x
  BY <1>1, FlattenAppend
<1>3. FlattenSeq(<< >>) = << >>
  BY DEF FlattenSeq
<1> QED
  BY <1>2, <1>3, ConcatEmptySeq

\* The pairs of a value after a step.
LEMMA WriterListNext ==
    ASSUME NEW i
    PROVE  WriterList(i)' = [k \in 1 .. RowCount(i)' |-> Pair(wValues'[i], wRows'[wRowStart'[i] + k])]
BY DEF WriterList, Pair

\* A sequence with one element more.
LEMMA AppendIs ==
    ASSUME NEW T, NEW w \in Seq(T), NEW x \in T
    PROVE  Append(w, x) = [i \in 1 .. Len(w) + 1 |-> IF i = Len(w) + 1 THEN x ELSE w[i]]
<1>1. Append(w, x) \in Seq(T) /\ Len(Append(w, x)) = Len(w) + 1 /\ Len(w) \in Nat
  OBVIOUS
<1>2. \A i \in 1 .. Len(w) + 1 : Append(w, x)[i] = IF i = Len(w) + 1 THEN x ELSE w[i]
  OBVIOUS
<1>3. Append(w, x) = [i \in 1 .. Len(w) + 1 |-> Append(w, x)[i]]
  <2> DEFINE u == Append(w, x)
  <2>1. u \in Seq(T) /\ Len(u) = Len(w) + 1
    BY <1>1
  <2> HIDE DEF u
  <2>2. u = [i \in 1 .. Len(w) + 1 |-> u[i]]
    BY <2>1
  <2> QED
    BY <2>2 DEF u
<1> QED
  BY <1>2, <1>3

\* The rows of a value after a step.
LEMMA RowCountNext ==
    ASSUME NEW i
    PROVE  RowCount(i)' = (IF i < Len(wRowStart') THEN wRowStart'[i + 1] ELSE Len(wRows')) - wRowStart'[i]
BY DEF RowCount

\* A writer with one value has one pair.
LEMMA StartCounts ==
    ASSUME NEW v \in Int, NEW r \in Nat, NEW S,
           wValues' = Append(<< >>, v), wRowStart' = Append(<< >>, Len(<< >>)), wRows' = Append(<< >>, r)
    PROVE  CountIn(S, InWriter') = One(S, Pair(v, r))
<1>1. /\ wValues' \in Seq(Int) /\ Len(wValues') = 1 /\ wValues'[1] = v /\ DOMAIN wValues' = 1 .. 1
      /\ Len(wRowStart') = 1 /\ wRowStart'[1] = 0
      /\ Len(wRows') = 1 /\ wRows'[1] = r
  OBVIOUS
<1>2. RowCount(1)' = 1
  BY <1>1 DEF RowCount
<1>3. WriterList(1)' = <<Pair(v, r)>>
  <2>1. WriterList(1)' = [k \in 1 .. 1 |-> Pair(wValues'[1], wRows'[wRowStart'[1] + k])]
    BY <1>2 DEF WriterList, Pair
  <2>2. \A k \in 1 .. 1 : Pair(wValues'[1], wRows'[wRowStart'[1] + k]) = Pair(v, r)
    BY <1>1
  <2>3. WriterList(1)' = [k \in 1 .. 1 |-> Pair(v, r)]
    BY <2>1, <2>2
  <2> QED
    BY <2>3
<1>4. WriterLists' = [i \in 1 .. 1 |-> WriterList(i)']
  BY <1>1 DEF WriterLists
<1>5. WriterLists' = <<<<Pair(v, r)>>>>
  BY <1>3, <1>4
<1>6. <<Pair(v, r)>> \in Seq(Pairs)
  BY PairFits
<1>7. InWriter' = <<Pair(v, r)>>
  BY <1>5, <1>6, ListsNext, FlattenOne
<1> QED
  BY <1>7, CountOne

\* A value more is a pair more.
LEMMA AddCounts ==
    ASSUME WriterFits, NEW v \in Int, NEW r \in Nat, NEW S,
           wValues' = Append(wValues, v), wRowStart' = Append(wRowStart, Len(wRows)), wRows' = Append(wRows, r)
    PROVE  CountIn(S, InWriter') = CountIn(S, InWriter) + One(S, Pair(v, r))
<1> DEFINE n == Len(wValues)
           l == Len(wRows)
           x == <<Pair(v, r)>>
<1>1. /\ wValues \in Seq(Int) /\ wRowStart \in Seq(Nat) /\ wRows \in Seq(Nat)
      /\ Len(wRowStart) = n /\ n \in Nat /\ l \in Nat /\ DOMAIN wValues = 1 .. n
  BY DEF WriterFits
<1>2. /\ Len(wValues') = n + 1 /\ DOMAIN wValues' = 1 .. n + 1
      /\ wValues'[n + 1] = v /\ \A i \in 1 .. n : wValues'[i] = wValues[i]
      /\ Len(wRowStart') = n + 1
      /\ wRowStart'[n + 1] = l /\ \A i \in 1 .. n : wRowStart'[i] = wRowStart[i]
      /\ Len(wRows') = l + 1
      /\ wRows'[l + 1] = r /\ \A i \in 1 .. l : wRows'[i] = wRows[i]
  <2>1. /\ Len(wValues') = n + 1 /\ wValues' \in Seq(Int)
        /\ wValues'[n + 1] = v /\ \A i \in 1 .. n : wValues'[i] = wValues[i]
    BY <1>1, AppendProperties
  <2>2. /\ Len(wRowStart') = n + 1
        /\ wRowStart'[n + 1] = l /\ \A i \in 1 .. n : wRowStart'[i] = wRowStart[i]
    BY <1>1, AppendProperties
  <2>3. /\ Len(wRows') = l + 1
        /\ wRows'[l + 1] = r /\ \A i \in 1 .. l : wRows'[i] = wRows[i]
    BY <1>1, AppendProperties
  <2>4. DOMAIN wValues' = 1 .. n + 1
    BY <2>1
  <2> QED
    BY <2>1, <2>2, <2>3, <2>4
<1>3. ASSUME NEW i \in 1 .. n PROVE WriterList(i)' = WriterList(i)
  <2> DEFINE a == wRowStart[i]
             b == RowCount(i)
  <2>1. a \in Nat /\ b \in Nat /\ a + b <= l /\ a + b = (IF i < n THEN wRowStart[i + 1] ELSE l)
    BY <1>1, WriterRows
  <2>2. RowCount(i)' = b
    <3>1. RowCount(i)' = (IF i < n + 1 THEN wRowStart'[i + 1] ELSE l + 1) - a
      BY <1>2 DEF RowCount
    <3> HIDE DEF a, b, n, l
    <3>2. i < n + 1 /\ wRowStart'[i + 1] = a + b
      <4>1. CASE i < n
        <5>1. i + 1 \in 1 .. n
          BY <1>1, <4>1
        <5>2. wRowStart'[i + 1] = wRowStart[i + 1]
          BY <1>2, <5>1
        <5> QED
          BY <1>1, <2>1, <4>1, <5>2
      <4>2. CASE i = n
        BY <1>1, <1>2, <2>1, <4>2
      <4> QED
        BY <1>1, <4>1, <4>2
    <3> QED
      BY <2>1, <3>1, <3>2
  <2> HIDE DEF b, l, n
  <2>3. \A k \in 1 .. b : wRows'[a + k] = wRows[a + k]
    <3> HIDE DEF a
    <3>1. \A k \in 1 .. b : a + k \in 1 .. l
      BY <1>1, <2>1
    <3> QED
      BY <1>2, <3>1
  <2>4. WriterList(i)' = [k \in 1 .. b |-> Pair(wValues'[i], wRows'[wRowStart'[i] + k])]
    BY <2>2, WriterListNext
  <2>5. WriterList(i) = [k \in 1 .. b |-> Pair(wValues[i], wRows[a + k])]
    BY DEF WriterList, b
  <2>6. wValues'[i] = wValues[i] /\ wRowStart'[i] = a
    BY <1>2
  <2> HIDE DEF a
  <2> QED
    BY <2>3, <2>4, <2>5, <2>6
<1>4. ASSUME NEW j, j = n + 1 PROVE WriterList(j)' = x
  <2> DEFINE c == RowCount(j)'
  <2>1. c = (IF j < Len(wRowStart') THEN wRowStart'[j + 1] ELSE Len(wRows')) - wRowStart'[j]
    BY RowCountNext
  <2>2. WriterList(j)' = [k \in 1 .. c |-> Pair(wValues'[j], wRows'[wRowStart'[j] + k])]
    BY WriterListNext
  <2> HIDE DEF l, n, c
  <2>3. c = 1
    BY <1>1, <1>2, <1>4, <2>1
  <2>4. \A k \in 1 .. 1 : Pair(wValues'[j], wRows'[wRowStart'[j] + k]) = Pair(v, r)
    BY <1>2, <1>4
  <2>5. WriterList(j)' = [k \in 1 .. 1 |-> Pair(v, r)]
    BY <2>2, <2>3, <2>4
  <2> QED
    BY <2>5
<1>5. WriterLists \in Seq(Seq(Pairs)) /\ Len(WriterLists) = n /\ x \in Seq(Pairs)
  BY WriterListsFit, PairFits
<1>6. WriterLists' = Append(WriterLists, x)
  <2>1. WriterLists' = [i \in 1 .. n + 1 |-> WriterList(i)']
    BY <1>2 DEF WriterLists
  <2>2. WriterLists = [i \in 1 .. n |-> WriterList(i)]
    BY <1>1 DEF WriterLists
  <2> HIDE DEF x, n
  <2>3. Append(WriterLists, x) = [i \in 1 .. n + 1 |-> IF i = n + 1 THEN x ELSE WriterLists[i]]
    <3> DEFINE V == Seq(Pairs)
               w == WriterLists
    <3>1. w \in Seq(V) /\ Len(w) = n /\ x \in V
      BY <1>5
    <3> HIDE DEF w, V
    <3>2. Append(w, x) = [i \in 1 .. n + 1 |-> IF i = n + 1 THEN x ELSE w[i]]
      BY <3>1, AppendIs
    <3> QED
      BY <3>2 DEF w
  <2>4. \A i \in 1 .. n + 1 : WriterList(i)' = IF i = n + 1 THEN x ELSE WriterLists[i]
    <3> SUFFICES ASSUME NEW i \in 1 .. n + 1 PROVE WriterList(i)' = IF i = n + 1 THEN x ELSE WriterLists[i]
      OBVIOUS
    <3>1. n \in Nat
      BY <1>1
    <3>2. i = n + 1 \/ (i \in 1 .. n /\ i # n + 1)
      BY <3>1
    <3>3. CASE i = n + 1
      BY <1>4, <3>3
    <3>4. CASE i \in 1 .. n /\ i # n + 1
      <4>1. WriterList(i)' = WriterList(i)
        BY <1>3, <3>4
      <4> QED
        BY <2>2, <3>4, <4>1
    <3> QED
      BY <3>2, <3>3, <3>4
  <2> QED
    BY <2>1, <2>3, <2>4
<1>7. InWriter' = InWriter \o x
  BY <1>5, <1>6, ListsAre, ListsNext, FlattenAppend
<1>8. InWriter \in Seq(Pairs)
  BY <1>5, ListsAre, FlattenType
<1>9. CountIn(S, x) = One(S, Pair(v, r))
  BY CountOne
<1> HIDE DEF x
<1> QED
  BY <1>5, <1>7, <1>8, <1>9, CountJoined

\* A row more of the last value as well.
LEMMA GrowCounts ==
    ASSUME WriterFits, wValues # << >>, NEW r \in Nat, NEW S,
           wValues' = wValues, wRowStart' = wRowStart, wRows' = Append(wRows, r)
    PROVE  CountIn(S, InWriter') = CountIn(S, InWriter) + One(S, Pair(wValues[Len(wValues)], r))
<1> DEFINE n == Len(wValues)
           l == Len(wRows)
           p == Pair(wValues[n], r)
           d == One(S, p)
<1>1. /\ wValues \in Seq(Int) /\ wRowStart \in Seq(Nat) /\ wRows \in Seq(Nat)
      /\ Len(wRowStart) = n /\ n \in Nat /\ l \in Nat /\ DOMAIN wValues = 1 .. n /\ n \in 1 .. n
  BY DEF WriterFits
<1>2. /\ Len(wRows') = l + 1
      /\ wRows'[l + 1] = r /\ \A i \in 1 .. l : wRows'[i] = wRows[i]
  BY <1>1, AppendProperties
<1>3. ASSUME NEW i \in 1 .. n
      PROVE  /\ wRowStart[i] \in Nat /\ RowCount(i) \in Nat /\ wRowStart[i] + RowCount(i) <= l
             /\ i = n => wRowStart[i] + RowCount(i) = l
             /\ RowCount(i)' = IF i = n THEN RowCount(i) + 1 ELSE RowCount(i)
             /\ \A k \in 1 .. RowCount(i) : wRows'[wRowStart[i] + k] = wRows[wRowStart[i] + k]
  <2> DEFINE a == wRowStart[i]
             b == RowCount(i)
  <2>1. a \in Nat /\ b \in Nat /\ a + b <= l /\ a + b = (IF i < n THEN wRowStart[i + 1] ELSE l)
    BY <1>1, WriterRows
  <2>2. RowCount(i)' = (IF i < n THEN wRowStart[i + 1] ELSE l + 1) - a
    BY <1>1, <1>2 DEF RowCount
  <2> HIDE DEF a, b, l, n
  <2>3. \A k \in 1 .. b : wRows'[a + k] = wRows[a + k]
    <3>1. \A k \in 1 .. b : a + k \in 1 .. l
      BY <1>1, <2>1
    <3> QED
      BY <1>2, <3>1
  <2>4. RowCount(i)' = IF i = n THEN b + 1 ELSE b
    BY <1>1, <2>1, <2>2
  <2>5. i = n => a + b = l
    BY <1>1, <2>1
  <2> QED
    BY <2>1, <2>3, <2>4, <2>5 DEF a, b
<1>4. ASSUME NEW i \in 1 .. n, i # n PROVE WriterList(i)' = WriterList(i)
  <2>1. WriterList(i)' = [k \in 1 .. RowCount(i) |-> Pair(wValues[i], wRows'[wRowStart[i] + k])]
    BY <1>3, <1>4 DEF WriterList, Pair
  <2>2. WriterList(i) = [k \in 1 .. RowCount(i) |-> Pair(wValues[i], wRows[wRowStart[i] + k])]
    BY DEF WriterList
  <2> QED
    BY <1>3, <2>1, <2>2
<1>5. /\ WriterLists \in Seq(Seq(Pairs)) /\ Len(WriterLists) = n
      /\ DOMAIN WriterLists = 1 .. n /\ WriterLists' = [i \in 1 .. n |-> WriterList(i)']
      /\ \A i \in 1 .. n : WriterLists[i] = WriterList(i) /\ WriterLists'[i] = WriterList(i)'
      /\ \A i \in 1 .. n : WriterLists[i] \in Seq(Pairs)
  <2>1. WriterLists \in Seq(Seq(Pairs)) /\ Len(WriterLists) = n
    BY WriterListsFit
  <2>2. WriterLists' = [i \in 1 .. n |-> WriterList(i)']
    BY <1>1 DEF WriterLists
  <2>3. WriterLists = [i \in 1 .. n |-> WriterList(i)]
    BY <1>1 DEF WriterLists
  <2> HIDE DEF n
  <2> QED
    BY <1>1, <2>1, <2>2, <2>3
<1>6. WriterList(n)' = Append(WriterList(n), p)
  <2> DEFINE a == wRowStart[n]
             b == RowCount(n)
  <2>1. a \in Nat /\ b \in Nat /\ RowCount(n)' = b + 1 /\ a + b = l
    BY <1>1, <1>3
  <2>2. WriterList(n)' = [k \in 1 .. b + 1 |-> Pair(wValues[n], wRows'[a + k])]
    BY <2>1 DEF WriterList, Pair
  <2>3. WriterList(n) = [k \in 1 .. b |-> Pair(wValues[n], wRows[a + k])]
    BY DEF WriterList
  <2>4. \A k \in 1 .. b : wRows'[a + k] = wRows[a + k]
    BY <1>1, <1>3
  <2>5. wRows'[a + (b + 1)] = r
    <3> HIDE DEF a, b, l
    <3>1. a + (b + 1) = l + 1
      BY <2>1
    <3> QED
      BY <1>2, <3>1
  <2> DEFINE q == WriterList(n)
  <2>6. q \in Seq(Pairs) /\ Len(q) = b
    <3>1. q \in Seq(Pairs)
      BY <1>1, <1>5
    <3> HIDE DEF b
    <3> QED
      BY <2>1, <2>3, <3>1
  <2> HIDE DEF q, b, a, n
  <2>7. Append(q, p) = [k \in 1 .. b + 1 |-> IF k = b + 1 THEN p ELSE q[k]]
    BY <2>1, <2>6
  <2>8. \A k \in 1 .. b + 1 : Pair(wValues[n], wRows'[a + k]) = IF k = b + 1 THEN p ELSE q[k]
    <3> SUFFICES ASSUME NEW k \in 1 .. b + 1
                 PROVE  Pair(wValues[n], wRows'[a + k]) = IF k = b + 1 THEN p ELSE q[k]
      OBVIOUS
    <3>1. CASE k = b + 1
      BY <2>5, <3>1
    <3>2. CASE k # b + 1
      <4>1. k \in 1 .. b
        BY <2>1, <3>2
      <4> QED
        BY <2>3, <2>4, <3>2, <4>1 DEF q
    <3> QED
      BY <3>1, <3>2
  <2> QED
    BY <2>2, <2>7, <2>8 DEF q
<1>7. WriterLists' \in Seq(Seq(Pairs)) /\ Len(WriterLists') = n
  <2>1. p \in Pairs
    BY <1>1, PairFits
  <2>2. WriterLists'[n] = Append(WriterLists[n], p)
    BY <1>1, <1>5, <1>6
  <2>3. WriterLists'[n] \in Seq(Pairs)
    <3> DEFINE q == WriterLists[n]
    <3>1. q \in Seq(Pairs)
      BY <1>1, <1>5
    <3> HIDE DEF q, p
    <3>2. Append(q, p) \in Seq(Pairs)
      BY <2>1, <3>1
    <3> QED
      BY <2>2, <3>2 DEF q
  <2> HIDE DEF p, n
  <2>4. \A i \in 1 .. n : WriterLists'[i] \in Seq(Pairs)
    <3> SUFFICES ASSUME NEW i \in 1 .. n PROVE WriterLists'[i] \in Seq(Pairs)
      OBVIOUS
    <3>1. CASE i = n
      BY <2>3, <3>1
    <3>2. CASE i # n
      BY <1>4, <1>5, <3>2
    <3> QED
      BY <3>1, <3>2
  <2> DEFINE V == Seq(Pairs)
             w == WriterLists'
  <2>5. n \in Nat /\ w = [i \in 1 .. n |-> w[i]] /\ \A i \in 1 .. n : w[i] \in V
    BY <1>1, <1>5, <2>4
  <2> HIDE DEF V, w
  <2>6. w \in Seq(V) /\ Len(w) = n
    BY <2>5
  <2> QED
    BY <2>6 DEF V, w
<1>8. CountIn(S, WriterLists'[n]) = CountIn(S, WriterLists[n]) + d
  <2> DEFINE q == WriterLists[n]
  <2>1. q \in Seq(Pairs) /\ p \in Pairs /\ WriterLists'[n] = Append(q, p)
    <3>1. p \in Pairs
      BY <1>1, PairFits
    <3> QED
      BY <1>1, <1>5, <1>6, <3>1
  <2> HIDE DEF q, p
  <2>2. <<p>> \in Seq(Pairs) /\ Append(q, p) = q \o <<p>>
    BY <2>1, AppendIsConcat
  <2>3. CountIn(S, Append(q, p)) = CountIn(S, q) + CountIn(S, <<p>>)
    BY <2>1, <2>2, CountJoined
  <2> QED
    BY <2>1, <2>3, CountOne DEF q
<1>9. d \in Nat
  BY DEF One
<1> HIDE DEF d, n
<1>10. CountIn(S, FlattenSeq(WriterLists')) = CountIn(S, FlattenSeq(WriterLists)) + d
  <2> DEFINE w == WriterLists'
             u == WriterLists
  <2>1. /\ w \in Seq(Seq(Pairs)) /\ u \in Seq(Seq(Pairs)) /\ Len(w) = Len(u) /\ n \in DOMAIN w
        /\ CountIn(S, w[n]) = CountIn(S, u[n]) + d
        /\ SameBut(w, u, n)
    BY <1>1, <1>4, <1>5, <1>7, <1>8 DEF SameBut
  <2> HIDE DEF w, u
  <2>2. CountIn(S, FlattenSeq(w)) = CountIn(S, FlattenSeq(u)) + d
    BY <1>9, <2>1, CountDiffers
  <2> QED
    BY <2>2 DEF w, u
<1> QED
  BY <1>10, ListsAre, ListsNext DEF d, n

-----------------------------------------------------------------------------
(* The pairs of a step. *)

\* Sequences with the same elements at the same places are the same.
LEMMA SameSeq ==
    ASSUME NEW T, NEW s \in Seq(T), NEW t \in Seq(T), Len(s) = Len(t),
           \A i \in 1 .. Len(s) : s[i] = t[i]
    PROVE  s = t
OBVIOUS

\* The items of one sequence joined to another.
LEMMA ItemListsJoined ==
    ASSUME NEW a \in Seq(Item), NEW b \in Seq(Item),
           \A i \in DOMAIN a : RowsOf(a[i]) \in Seq(Nat),
           \A i \in DOMAIN b : RowsOf(b[i]) \in Seq(Nat)
    PROVE  ItemLists(a \o b) = ItemLists(a) \o ItemLists(b)
<1> DEFINE c == a \o b
           n == Len(a)
           m == Len(b)
           V == Seq(Pairs)
           u == ItemLists(a)
           w == ItemLists(b)
           x == ItemLists(c)
<1>1. /\ n \in Nat /\ m \in Nat /\ DOMAIN a = 1 .. n /\ DOMAIN b = 1 .. m
      /\ c \in Seq(Item) /\ Len(c) = n + m /\ DOMAIN c = 1 .. n + m
      /\ \A i \in 1 .. n + m : c[i] = IF i <= n THEN a[i] ELSE b[i - n]
  <2>1. c \in Seq(Item) /\ Len(c) = n + m
    BY ConcatProperties
  <2>2. \A i \in 1 .. n + m : c[i] = IF i <= n THEN a[i] ELSE b[i - n]
    BY ConcatProperties
  <2> HIDE DEF c
  <2>3. DOMAIN c = 1 .. n + m
    BY <2>1
  <2>4. n \in Nat /\ m \in Nat /\ DOMAIN a = 1 .. n /\ DOMAIN b = 1 .. m
    OBVIOUS
  <2> HIDE DEF n, m
  <2> QED
    BY <2>1, <2>2, <2>3, <2>4
<1> HIDE DEF c, n, m
<1>2. \A i \in 1 .. n + m : (i <= n /\ i \in 1 .. n) \/ (~(i <= n) /\ i - n \in 1 .. m)
  BY <1>1
<1>3. \A i \in DOMAIN c : RowsOf(c[i]) \in Seq(Nat)
  BY <1>1, <1>2
<1>4. u \in Seq(V) /\ Len(u) = n /\ \A i \in 1 .. n : u[i] = ItemPairs(a[i])
  BY <1>1, ItemListsFit DEF ItemLists, n
<1>5. w \in Seq(V) /\ Len(w) = m /\ \A i \in 1 .. m : w[i] = ItemPairs(b[i])
  BY <1>1, ItemListsFit DEF ItemLists, m
<1>6. x \in Seq(V) /\ Len(x) = n + m /\ \A i \in 1 .. n + m : x[i] = ItemPairs(c[i])
  BY <1>1, <1>3, ItemListsFit DEF ItemLists
<1> HIDE DEF V, u, w, x
<1>7. u \o w \in Seq(V) /\ Len(u \o w) = n + m
  BY <1>4, <1>5, ConcatProperties
<1>8. \A i \in 1 .. n + m : (u \o w)[i] = IF i <= n THEN u[i] ELSE w[i - n]
  BY <1>4, <1>5, ConcatProperties
<1>9. \A i \in 1 .. n + m : x[i] = (u \o w)[i]
  <2> SUFFICES ASSUME NEW i \in 1 .. n + m PROVE x[i] = (u \o w)[i]
    OBVIOUS
  <2>1. CASE i <= n /\ i \in 1 .. n
    <3>1. c[i] = a[i] /\ (u \o w)[i] = u[i]
      BY <1>1, <1>8, <2>1
    <3> QED
      BY <1>4, <1>6, <2>1, <3>1
  <2>2. CASE ~(i <= n) /\ i - n \in 1 .. m
    <3>1. c[i] = b[i - n] /\ (u \o w)[i] = w[i - n]
      BY <1>1, <1>8, <2>2
    <3> QED
      BY <1>5, <1>6, <2>2, <3>1
  <2> QED
    BY <1>2, <2>1, <2>2
<1>10. x = u \o w
  BY <1>6, <1>7, <1>9, SameSeq
<1> QED
  BY <1>10 DEF x, u, w, c

\* The items of a block have the pairs of the values they are made of.
LEMMA BlockLists ==
    ASSUME WriterFits
    PROVE  /\ BlockOfValues \in Seq(Item)
           /\ \A i \in DOMAIN BlockOfValues : RowsOf(BlockOfValues[i]) \in Seq(Nat)
           /\ ItemLists(BlockOfValues) = WriterLists
<1> DEFINE block == BlockOfValues
           n == Len(wValues)
<1>1. block \in Seq(Item) /\ Len(block) = n /\ \A k \in 1 .. n : ItemIs(block[k], k)
  BY BlockIs DEF BlockFits
<1>2. n \in Nat /\ DOMAIN wValues = 1 .. n
  BY DEF WriterFits
<1>3. /\ WriterLists \in Seq(Seq(Pairs)) /\ Len(WriterLists) = n
      /\ \A i \in 1 .. n : WriterLists[i] = [k \in DOMAIN RowsAt(i) |-> Pair(wValues[i], RowsAt(i)[k])]
  BY WriterListsFit
<1> HIDE DEF block, n
<1>4. ASSUME NEW i \in 1 .. n
      PROVE  /\ RowsOf(block[i]) \in Seq(Nat)
             /\ ItemPairs(block[i]) = WriterLists[i]
  <2>1. block[i].value = wValues[i] /\ RowsOf(block[i]) = RowsAt(i)
    BY <1>1 DEF ItemIs
  <2>2. RowsAt(i) \in Seq(Nat)
    BY <1>2, WriterRows
  <2>3. ItemPairs(block[i]) = [k \in DOMAIN RowsAt(i) |-> Pair(wValues[i], RowsAt(i)[k])]
    BY <2>1 DEF ItemPairs
  <2> QED
    BY <1>3, <2>1, <2>2, <2>3
<1>5. DOMAIN block = 1 .. n
  <2>1. block \in Seq(Item) /\ Len(block) = n
    BY <1>1
  <2> QED
    BY <2>1
<1>6. /\ ItemLists(block) \in Seq(Seq(Pairs)) /\ Len(ItemLists(block)) = n
      /\ \A i \in 1 .. n : ItemLists(block)[i] = ItemPairs(block[i])
  BY <1>1, <1>4, <1>5, ItemListsFit DEF ItemLists
<1>7. ItemLists(block) = WriterLists
  <2> DEFINE V == Seq(Pairs)
             s == ItemLists(block)
             t == WriterLists
  <2>1. s \in Seq(V) /\ t \in Seq(V) /\ Len(s) = Len(t) /\ Len(s) = n /\ \A i \in 1 .. n : s[i] = t[i]
    BY <1>3, <1>4, <1>6
  <2> HIDE DEF V, s, t
  <2>2. s = t
    BY <2>1, SameSeq
  <2> QED
    BY <2>2 DEF s, t
<1> QED
  BY <1>1, <1>4, <1>5, <1>7 DEF block

\* A block takes all pairs of the writer to the index.
LEMMA FlushCounts ==
    ASSUME WriterFits, IndexFits, index' = Append(index, BlockOfValues), NEW S
    PROVE  CountIn(S, InIndex') = CountIn(S, InIndex) + CountIn(S, InWriter)
<1> DEFINE block == BlockOfValues
           items == Items
<1>1. index \in Seq(Seq(Item)) /\ \A i \in DOMAIN items : Described(items[i])
  BY DEF IndexFits
<1>2. /\ block \in Seq(Item)
      /\ \A i \in DOMAIN block : RowsOf(block[i]) \in Seq(Nat)
      /\ ItemLists(block) = WriterLists
  BY BlockLists
<1>3. items \in Seq(Item)
  BY <1>1, FlattenType DEF Items
<1>4. \A i \in DOMAIN items : RowsOf(items[i]) \in Seq(Nat)
  BY <1>1 DEF Described
<1>5. Items' = items \o block
  BY <1>1, <1>2, FlattenAppend DEF Items
<1> HIDE DEF block, items
<1>6. ItemLists(Items') = ItemLists(items) \o WriterLists
  BY <1>2, <1>3, <1>4, <1>5, ItemListsJoined
<1>7. ItemLists(items) \in Seq(Seq(Pairs)) /\ WriterLists \in Seq(Seq(Pairs))
  BY <1>3, <1>4, ItemListsFit, WriterListsFit
<1>8. InIndex' = InIndex \o InWriter
  <2> DEFINE s == ItemLists(items)
             t == WriterLists
  <2>1. InIndex' = FlattenSeq(s \o t)
    BY <1>6, ListsNext
  <2>2. s \in Seq(Seq(Pairs)) /\ t \in Seq(Seq(Pairs))
    BY <1>7
  <2> HIDE DEF s, t
  <2>3. FlattenSeq(s \o t) = FlattenSeq(s) \o FlattenSeq(t)
    BY <2>2, FlattenJoined
  <2> QED
    BY <2>1, <2>3, ListsAre DEF s, t, items
<1>9. InIndex \in Seq(Pairs) /\ InWriter \in Seq(Pairs)
  BY <1>7, ListsAre, FlattenType DEF items
<1> QED
  BY <1>8, <1>9, CountJoined

\* What follows an element, with it.
LEMMA CountTail ==
    ASSUME NEW T, NEW s \in Seq(T), NEW k \in Nat, k < Len(s), NEW S
    PROVE  /\ SubSeq(s, k + 1, Len(s)) \in Seq(T) /\ SubSeq(s, (k + 1) + 1, Len(s)) \in Seq(T)
           /\ CountIn(S, SubSeq(s, k + 1, Len(s)))
                 = CountIn(S, SubSeq(s, (k + 1) + 1, Len(s))) + One(S, s[k + 1])
<1> DEFINE n == Len(s)
           x == <<s[k + 1]>>
           b == SubSeq(s, (k + 1) + 1, n)
           a == SubSeq(s, k + 1, n)
<1>1. n \in Nat /\ k + 1 \in 1 .. n /\ s[k + 1] \in T
  OBVIOUS
<1>2. a = [i \in 1 .. n - k |-> s[k + i]] /\ a \in Seq(T)
  <2>1. a = [i \in 1 .. (n - (k + 1) + 1) |-> s[k + 1 + i - 1]] /\ a \in Seq(T)
    BY <1>1
  <2>2. n - (k + 1) + 1 = n - k /\ \A i \in 1 .. n - k : k + 1 + i - 1 = k + i
    BY <1>1
  <2> HIDE DEF a, n
  <2> QED
    BY <2>1, <2>2
<1>3. b = [i \in 1 .. n - k - 1 |-> s[k + 1 + i]] /\ b \in Seq(T)
  <2>1. b = [i \in 1 .. (n - ((k + 1) + 1) + 1) |-> s[(k + 1) + 1 + i - 1]] /\ b \in Seq(T)
    BY <1>1
  <2>2. n - ((k + 1) + 1) + 1 = n - k - 1 /\ \A i \in 1 .. n - k - 1 : (k + 1) + 1 + i - 1 = k + 1 + i
    BY <1>1
  <2> HIDE DEF b, n
  <2> QED
    BY <2>1, <2>2
<1>4. x \in Seq(T) /\ Len(x) = 1 /\ x[1] = s[k + 1]
  BY <1>1
<1> HIDE DEF a, b, x, n
<1>5. n - k \in Nat /\ n - k - 1 \in Nat
  BY <1>1
<1>6. Len(a) = n - k /\ Len(b) = n - k - 1
  BY <1>2, <1>3, <1>5
<1>7. a = x \o b
  <2>1. x \o b \in Seq(T) /\ Len(x \o b) = Len(x) + Len(b)
    BY <1>3, <1>4, ConcatProperties
  <2>6. \A i \in 1 .. Len(x) + Len(b) : (x \o b)[i] = IF i <= Len(x) THEN x[i] ELSE b[i - Len(x)]
    BY <1>3, <1>4, ConcatProperties
  <2>2. \A i \in 1 .. 1 + (n - k - 1) : (x \o b)[i] = IF i <= 1 THEN x[i] ELSE b[i - 1]
    BY <1>4, <1>6, <2>6
  <2>3. 1 + (n - k - 1) = n - k
    BY <1>1
  <2>4. ASSUME NEW i \in 1 .. n - k PROVE a[i] = (x \o b)[i]
    <3>1. a[i] = s[k + i] /\ (x \o b)[i] = IF i <= 1 THEN x[i] ELSE b[i - 1]
      BY <1>2, <2>2, <2>3
    <3>2. CASE i <= 1
      <4>1. i = 1
        BY <3>2
      <4> QED
        BY <1>4, <3>1, <4>1
    <3>3. CASE ~(i <= 1)
      <4>1. i - 1 \in 1 .. n - k - 1 /\ k + 1 + (i - 1) = k + i
        BY <1>1, <3>3
      <4>2. b[i - 1] = s[k + i]
        BY <1>3, <4>1
      <4> QED
        BY <3>1, <3>3, <4>2
    <3> QED
      BY <3>2, <3>3
  <2>5. Len(x \o b) = n - k
    BY <1>4, <1>6, <2>1, <2>3
  <2> QED
    BY <1>2, <1>6, <2>1, <2>4, <2>5, SameSeq
<1>8. CountIn(S, a) = CountIn(S, x) + CountIn(S, b)
  BY <1>3, <1>4, <1>7, CountJoined
<1>9. CountIn(S, x) = One(S, s[k + 1])
  BY CountOne DEF x
<1>10. CountIn(S, b) \in Nat /\ CountIn(S, x) \in Nat
  BY <1>3, <1>4, CountIs
<1>11. CountIn(S, a) = CountIn(S, b) + One(S, s[k + 1])
  BY <1>8, <1>9, <1>10
<1> QED
  BY <1>2, <1>3, <1>11 DEF a, b, n

\* The pair on top is taken from the runs.
LEMMA TakeCounts ==
    ASSUME CollectedFit, phase # "collect", NEW c \in DOMAIN runs, Top(c), Take(c), runs' = runs, NEW S
    PROVE  /\ InRuns \in Seq(Pairs) /\ InRuns' \in Seq(Pairs)
           /\ CountIn(S, InRuns) = CountIn(S, InRuns') + One(S, Upcoming(c))
<1>1. read[c] \in Nat /\ read[c] < Len(runs[c])
  BY TopIsLeast
<1>2. /\ runs \in Seq(Seq(Pairs)) /\ read \in [DOMAIN runs -> Nat]
      /\ DOMAIN runs = 1 .. Len(runs) /\ Len(runs) \in Nat
  BY DEF CollectedFit
<1>3. /\ read' \in [DOMAIN runs -> Nat] /\ read'[c] = read[c] + 1
      /\ \A d \in DOMAIN runs : d # c => read'[d] = read[d]
  BY <1>1, <1>2 DEF Take
<1> DEFINE After(d) == SubSeq(runs[d], read'[d] + 1, Len(runs[d]))
           Ahead(d) == SubSeq(runs[d], read[d] + 1, Len(runs[d]))
<1>4. RunLists = [d \in DOMAIN runs |-> Ahead(d)]
  BY <1>2 DEF RunLists, Taken
<1>5. RunLists' = [d \in DOMAIN runs |-> After(d)]
  BY <1>3 DEF RunLists, Taken
<1>6. /\ Ahead(c) \in Seq(Pairs) /\ After(c) \in Seq(Pairs)
      /\ CountIn(S, Ahead(c)) = CountIn(S, After(c)) + One(S, Upcoming(c))
  <2> DEFINE s == runs[c]
             k == read[c]
  <2>1. s \in Seq(Pairs) /\ k \in Nat /\ k < Len(s)
    BY <1>1, <1>2
  <2>2. Upcoming(c) = s[k + 1] /\ read'[c] = k + 1
    BY <1>3 DEF Upcoming
  <2> HIDE DEF s, k
  <2>3. /\ SubSeq(s, k + 1, Len(s)) \in Seq(Pairs) /\ SubSeq(s, (k + 1) + 1, Len(s)) \in Seq(Pairs)
        /\ CountIn(S, SubSeq(s, k + 1, Len(s)))
              = CountIn(S, SubSeq(s, (k + 1) + 1, Len(s))) + One(S, s[k + 1])
    BY <2>1, CountTail
  <2> QED
    BY <2>2, <2>3 DEF s, k
<1>7. RunLists \in Seq(Seq(Pairs)) /\ Len(RunLists) = Len(runs) /\ DOMAIN RunLists = DOMAIN runs
  BY <1>4, RunListsFit
<1> HIDE DEF After, Ahead
<1>8. \A d \in DOMAIN runs : d # c => After(d) = Ahead(d)
  BY <1>3 DEF After, Ahead
<1>9. \A d \in DOMAIN runs : After(d) \in Seq(Pairs)
  <2> SUFFICES ASSUME NEW d \in DOMAIN runs PROVE After(d) \in Seq(Pairs)
    OBVIOUS
  <2>1. CASE d = c
    BY <1>6, <2>1
  <2>2. CASE d # c
    <3>1. RunLists[d] \in Seq(Pairs)
      BY <1>7
    <3> QED
      BY <1>4, <1>8, <2>2, <3>1
  <2> QED
    BY <2>1, <2>2
<1>10. RunLists' \in Seq(Seq(Pairs)) /\ Len(RunLists') = Len(runs)
  <2> DEFINE V == Seq(Pairs)
             w == RunLists'
             n == Len(runs)
  <2>1. w = [i \in 1 .. n |-> After(i)] /\ \A i \in 1 .. n : After(i) \in V
    BY <1>2, <1>5, <1>9
  <2>2. n \in Nat
    BY <1>2
  <2> HIDE DEF V, w, n
  <2>3. w \in Seq(V) /\ Len(w) = n
    BY <2>1, <2>2
  <2> QED
    BY <2>3 DEF V, w, n
<1> DEFINE u == RunLists
           w == RunLists'
           d == One(S, Upcoming(c))
<1>11. /\ u \in Seq(Seq(Pairs)) /\ w \in Seq(Seq(Pairs)) /\ c \in DOMAIN u /\ d \in Nat
       /\ CountIn(S, u[c]) = CountIn(S, w[c]) + d
  <2>1. u[c] = Ahead(c) /\ w[c] = After(c)
    BY <1>4, <1>5
  <2> QED
    BY <1>6, <1>7, <1>10, <2>1 DEF One
<1>12. SameBut(u, w, c)
  BY <1>4, <1>5, <1>7, <1>8, <1>10 DEF SameBut
<1> HIDE DEF u, w, d
<1>13. CountIn(S, FlattenSeq(u)) = CountIn(S, FlattenSeq(w)) + d
  BY <1>11, <1>12, CountDiffers
<1>14. FlattenSeq(u) \in Seq(Pairs) /\ FlattenSeq(w) \in Seq(Pairs)
  BY <1>11, FlattenType
<1> QED
  BY <1>13, <1>14, ListsAre, ListsNext DEF u, w, d

\* All of a sequence.
LEMMA SliceAll ==
    ASSUME NEW T, NEW s \in Seq(T)
    PROVE  SubSeq(s, 0 + 1, Len(s)) = s
<1> DEFINE a == SubSeq(s, 1, Len(s))
<1>1. a \in Seq(T) /\ Len(a) = Len(s) /\ \A i \in 1 .. Len(a) : a[i] = s[i]
  OBVIOUS
<1> HIDE DEF a
<1>2. a = s
  BY <1>1, SameSeq
<1> QED
  BY <1>2 DEF a

\* Before the merge all of the runs is left.
LEMMA RunsUnread ==
    ASSUME runs \in Seq(Seq(Pairs)), \A c \in DOMAIN runs : Taken(c) = 0
    PROVE  RunLists = runs
<1>1. \A c \in DOMAIN runs : SubSeq(runs[c], Taken(c) + 1, Len(runs[c])) = runs[c]
  <2> SUFFICES ASSUME NEW c \in DOMAIN runs
               PROVE  SubSeq(runs[c], Taken(c) + 1, Len(runs[c])) = runs[c]
    OBVIOUS
  <2> DEFINE s == runs[c]
  <2>1. s \in Seq(Pairs)
    OBVIOUS
  <2> HIDE DEF s
  <2>2. SubSeq(s, 0 + 1, Len(s)) = s
    BY <2>1, SliceAll
  <2> QED
    BY <2>2 DEF s
<1>2. RunLists = [c \in DOMAIN runs |-> runs[c]]
  BY <1>1 DEF RunLists
<1> QED
  BY <1>2

\* ... also after a step.
LEMMA RunsUnreadNext ==
    ASSUME runs' \in Seq(Seq(Pairs)), \A c \in DOMAIN runs' : Taken(c)' = 0
    PROVE  RunLists' = runs'
<1>1. \A c \in DOMAIN runs' : SubSeq(runs'[c], Taken(c)' + 1, Len(runs'[c])) = runs'[c]
  <2> SUFFICES ASSUME NEW c \in DOMAIN runs'
               PROVE  SubSeq(runs'[c], Taken(c)' + 1, Len(runs'[c])) = runs'[c]
    OBVIOUS
  <2> DEFINE s == runs'[c]
  <2>1. s \in Seq(Pairs)
    OBVIOUS
  <2> HIDE DEF s
  <2>2. SubSeq(s, 0 + 1, Len(s)) = s
    BY <2>1, SliceAll
  <2> QED
    BY <2>2 DEF s
<1>2. RunLists' = [c \in DOMAIN runs' |-> SubSeq(runs'[c], Taken(c)' + 1, Len(runs'[c]))]
  BY DEF RunLists
<1>3. RunLists' = [c \in DOMAIN runs' |-> runs'[c]]
  BY <1>1, <1>2
<1> QED
  BY <1>3

\* Flushing keeps the pairs in memory.
LEMMA FlushedCounts ==
    ASSUME CollectedFit, NEW S
    PROVE  CountIn(S, FlattenSeq(Flushed)) = CountIn(S, FlattenSeq(runs)) + CountIn(S, rows)
<1>1. rows \in Seq(Pairs) /\ runs \in Seq(Seq(Pairs))
  BY DEF CollectedFit
<1>2. FlattenSeq(runs) \in Seq(Pairs)
  BY <1>1, FlattenType
<1>3. CASE rows = << >>
  <2>1. Flushed = runs /\ CountIn(S, rows) = 0
    BY <1>3, CountEmpty DEF Flushed
  <2>2. CountIn(S, FlattenSeq(runs)) \in Nat
    BY <1>2, CountIs
  <2> QED
    BY <2>1, <2>2
<1>4. CASE rows # << >>
  <2> DEFINE t == Sorted(rows)
  <2>1. Flushed = Append(runs, t)
    BY <1>4 DEF Flushed
  <2>2. t \in Seq(Pairs) /\ CountIn(S, t) = CountIn(S, rows)
    BY <1>1, SortedIs, CountSorted
  <2> HIDE DEF t
  <2>3. FlattenSeq(Flushed) = FlattenSeq(runs) \o t
    BY <1>1, <2>1, <2>2, FlattenAppend
  <2> QED
    BY <1>2, <2>2, <2>3, CountJoined
<1> QED
  BY <1>3, <1>4

\* A document more is its pairs more.
LEMMA DocCounts ==
    ASSUME docs \in Seq(Doc), NEW doc \in Doc, docs' = Append(docs, doc), NEW S
    PROVE  CountIn(S, Collected') =
              CountIn(S, Collected) + CountIn(S, [i \in DOMAIN doc |-> Pair(doc[i], Len(docs))])
<1> DEFINE n == Len(docs)
           x == [i \in DOMAIN doc |-> Pair(doc[i], n)]
<1>1. /\ n \in Nat /\ DOMAIN docs = 1 .. n /\ DOMAIN docs' = 1 .. n + 1
      /\ docs'[n + 1] = doc /\ \A i \in 1 .. n : docs'[i] = docs[i]
  <2>1. Len(docs') = n + 1 /\ docs' \in Seq(Doc)
        /\ docs'[n + 1] = doc /\ \A i \in 1 .. n : docs'[i] = docs[i]
    BY AppendProperties
  <2>2. n \in Nat /\ DOMAIN docs = 1 .. n
    OBVIOUS
  <2>3. DOMAIN docs' = 1 .. n + 1
    BY <2>1
  <2> QED
    BY <2>1, <2>2, <2>3
<1>2. x \in Seq(Pairs)
  <2>1. doc \in Seq(Int)
    BY BuilderAssumption
  <2>2. DOMAIN doc = 1 .. Len(doc) /\ Len(doc) \in Nat /\ \A k \in DOMAIN doc : Pair(doc[k], n) \in Pairs
    BY <1>1, <2>1, PairFits
  <2> QED
    BY <2>2
<1>3. DocLists \in Seq(Seq(Pairs)) /\ Len(DocLists) = n
  BY DocListsFit
<1>4. DocLists' = Append(DocLists, x)
  <2>1. DocLists' = [i \in 1 .. n + 1 |-> DocPairs(docs'[i], i)]
    <3>1. DocLists' = [i \in DOMAIN docs' |-> [k \in DOMAIN docs'[i] |-> Pair(docs'[i][k], i - 1)]]
      BY DEF DocLists, DocPairs, Pair
    <3> QED
      BY <1>1, <3>1 DEF DocPairs
  <2>2. \A i \in 1 .. n : DocLists[i] = DocPairs(docs[i], i)
    BY <1>1 DEF DocLists
  <2>3. DocPairs(doc, n + 1) = x
    <3>1. (n + 1) - 1 = n
      BY <1>1
    <3> HIDE DEF n
    <3> QED
      BY <3>1 DEF DocPairs
  <2>4. Append(DocLists, x) = [i \in 1 .. n + 1 |-> IF i = n + 1 THEN x ELSE DocLists[i]]
    <3> DEFINE V == Seq(Pairs)
               w == DocLists
    <3>1. w \in Seq(V) /\ Len(w) = n /\ x \in V
      BY <1>2, <1>3
    <3> HIDE DEF w, V, x, n
    <3>2. Append(w, x) = [i \in 1 .. n + 1 |-> IF i = n + 1 THEN x ELSE w[i]]
      BY <3>1, AppendIs
    <3> QED
      BY <3>2 DEF w
  <2> HIDE DEF x, n
  <2>5. \A i \in 1 .. n + 1 : DocPairs(docs'[i], i) = IF i = n + 1 THEN x ELSE DocLists[i]
    <3> SUFFICES ASSUME NEW i \in 1 .. n + 1
                 PROVE  DocPairs(docs'[i], i) = IF i = n + 1 THEN x ELSE DocLists[i]
      OBVIOUS
    <3>1. i = n + 1 \/ (i \in 1 .. n /\ i # n + 1)
      BY <1>1
    <3>2. CASE i = n + 1
      BY <1>1, <2>3, <3>2
    <3>3. CASE i \in 1 .. n /\ i # n + 1
      BY <1>1, <2>2, <3>3
    <3> QED
      BY <3>1, <3>2, <3>3
  <2> QED
    BY <2>1, <2>4, <2>5
<1> HIDE DEF x
<1>5. Collected' = Collected \o x
  BY <1>2, <1>3, <1>4, ListsAre, ListsNext, FlattenAppend
<1>6. Collected \in Seq(Pairs)
  BY <1>3, ListsAre, FlattenType
<1>7. CountIn(S, Collected') = CountIn(S, Collected) + CountIn(S, x)
  BY <1>2, <1>5, <1>6, CountJoined
<1> QED
  BY <1>7 DEF x

-----------------------------------------------------------------------------
(* Nothing is lost. *)

\* How many pairs of S are still to be merged, and how many are merged.
Waiting(S) == CountIn(S, rows) + CountIn(S, InRuns)
Placed(S) == CountIn(S, InWriter) + CountIn(S, InIndex)

\* Sets of pairs that, of floats, do not tell those of a row apart: a float may become
\* another the code takes for equal, but it keeps its row.
Whole(S) == isFloat => \A p, q \in Pairs : p.row = q.row => (p \in S <=> q \in S)

\* Pairs are on their way as often as they were collected, and each as itself or as one
\* of the same row and a value near.
Conserved ==
    \A S \in SUBSET Pairs : Whole(S) => Waiting(S) + Placed(S) = CountIn(S, Collected)
KeptNear ==
    \A p \in Pairs : CountIn({p}, Collected) # 0 =>
        \/ Waiting({p}) # 0
        \/ \E q \in Pairs : q.row = p.row /\ Near(q.value, p.value) /\ Placed({q}) # 0

PairsFit ==
    /\ rows \in Seq(Pairs) /\ InRuns \in Seq(Pairs) /\ InWriter \in Seq(Pairs)
    /\ InIndex \in Seq(Pairs) /\ Collected \in Seq(Pairs)

\* All that is counted are pairs.
LEMMA PairsAreFit == IInv => PairsFit
<1> SUFFICES ASSUME IInv PROVE PairsFit
  OBVIOUS
<1>1. rows \in Seq(Pairs) /\ docs \in Seq(Doc)
  BY DEF IInv, CollectedFit
<1>2. RunLists \in Seq(Seq(Pairs)) /\ WriterLists \in Seq(Seq(Pairs)) /\ DocLists \in Seq(Seq(Pairs))
  BY <1>1, RunListsFit, WriterListsFit, DocListsFit DEF IInv
<1>3. ItemLists(Items) \in Seq(Seq(Pairs))
  <2> DEFINE items == Items
  <2>1. index \in Seq(Seq(Item)) /\ \A i \in DOMAIN items : Described(items[i])
    BY DEF IInv, IndexFits
  <2>2. items \in Seq(Item)
    BY <2>1, FlattenType DEF Items
  <2>3. \A i \in DOMAIN items : RowsOf(items[i]) \in Seq(Nat)
    BY <2>1 DEF Described
  <2> HIDE DEF items
  <2>4. ItemLists(items) \in Seq(Seq(Pairs))
    BY <2>2, <2>3, ItemListsFit
  <2> QED
    BY <2>4 DEF items
<1>4. InRuns \in Seq(Pairs) /\ InWriter \in Seq(Pairs) /\ InIndex \in Seq(Pairs) /\ Collected \in Seq(Pairs)
  BY <1>2, <1>3, ListsAre, FlattenType
<1> QED
  BY <1>1, <1>4 DEF PairsFit

\* ... also after a step.
LEMMA PairsAreFitNext == IInv' => PairsFit'
BY PairsAreFit, PTL

\* A step that collects the pairs of added, and one that merges p, which becomes q.
Grown(added) ==
    /\ added \in Seq(Pairs) /\ isFloat' = isFloat
    /\ \A S \in SUBSET Pairs :
          /\ Waiting(S)' = Waiting(S) + CountIn(S, added)
          /\ Placed(S)' = Placed(S)
          /\ CountIn(S, Collected)' = CountIn(S, Collected) + CountIn(S, added)
Moved(p, q) ==
    /\ p \in Pairs /\ q \in Pairs /\ isFloat' = isFloat
    /\ q.row = p.row /\ Near(q.value, p.value) /\ (~isFloat => q = p)
    /\ \A S \in SUBSET Pairs :
          /\ Waiting(S) = Waiting(S)' + One(S, p)
          /\ Placed(S)' = Placed(S) + One(S, q)
          /\ CountIn(S, Collected)' = CountIn(S, Collected)

\* How many there are of each are natural numbers.
Numbers ==
    \A S : Waiting(S) \in Nat /\ Placed(S) \in Nat /\ CountIn(S, Collected) \in Nat

\* They are, if all that is counted are pairs.
LEMMA NumbersFit == PairsFit => Numbers
<1> SUFFICES ASSUME PairsFit, NEW S
             PROVE  Waiting(S) \in Nat /\ Placed(S) \in Nat /\ CountIn(S, Collected) \in Nat
  BY DEF Numbers
<1>1. /\ CountIn(S, rows) \in Nat /\ CountIn(S, InRuns) \in Nat /\ CountIn(S, InWriter) \in Nat
      /\ CountIn(S, InIndex) \in Nat /\ CountIn(S, Collected) \in Nat
  BY CountIs DEF PairsFit
<1> QED
  BY <1>1 DEF Waiting, Placed

\* ... also after a step.
LEMMA NumbersFitNext == PairsFit' => Numbers'
BY NumbersFit, PTL

\* A pair is a set of pairs.
LEMMA OnePair ==
    ASSUME NEW p \in Pairs
    PROVE  {p} \in SUBSET Pairs
OBVIOUS

\* Collecting loses nothing.
LEMMA GrownKeeps ==
    ASSUME PairsFit, PairsFit', Conserved, KeptNear, NEW added, Grown(added)
    PROVE  Conserved' /\ KeptNear'
<1>1. /\ added \in Seq(Pairs) /\ isFloat' = isFloat
      /\ \A S \in SUBSET Pairs :
            /\ Waiting(S)' = Waiting(S) + CountIn(S, added)
            /\ Placed(S)' = Placed(S)
            /\ CountIn(S, Collected)' = CountIn(S, Collected) + CountIn(S, added)
  BY DEF Grown
<1>2. \A S : Waiting(S) \in Nat /\ Placed(S) \in Nat /\ CountIn(S, Collected) \in Nat
  BY NumbersFit DEF Numbers
<1>3. \A S : CountIn(S, added) \in Nat
  BY <1>1, CountIs
<1>4. Conserved'
  <2> SUFFICES ASSUME NEW S \in SUBSET Pairs, Whole(S)'
               PROVE  Waiting(S)' + Placed(S)' = CountIn(S, Collected)'
    BY DEF Conserved
  <2>1. Whole(S)
    BY <1>1 DEF Whole
  <2>2. Waiting(S) + Placed(S) = CountIn(S, Collected)
    BY <2>1 DEF Conserved
  <2> DEFINE a == CountIn(S, added)
             w == Waiting(S)
             x == Placed(S)
             c == CountIn(S, Collected)
  <2>3. /\ w \in Nat /\ x \in Nat /\ c \in Nat /\ a \in Nat /\ w + x = c
        /\ Waiting(S)' = w + a /\ Placed(S)' = x /\ CountIn(S, Collected)' = c + a
    BY <1>1, <1>2, <1>3, <2>2
  <2> HIDE DEF a, w, x, c
  <2>4. (w + a) + x = c + a
    BY <2>3
  <2> QED
    BY <2>3, <2>4
<1>5. KeptNear'
  <2> SUFFICES ASSUME NEW p \in Pairs, CountIn({p}, Collected)' # 0
               PROVE  \/ Waiting({p})' # 0
                      \/ \E q \in Pairs : q.row = p.row /\ Near(q.value, p.value) /\ Placed({q})' # 0
    BY DEF KeptNear, Near
  <2> DEFINE S == {p}
             a == CountIn(S, added)
             w == Waiting(S)
             c == CountIn(S, Collected)
  <2>1. /\ w \in Nat /\ c \in Nat /\ a \in Nat
        /\ Waiting(S)' = w + a /\ CountIn(S, Collected)' = c + a
    BY <1>1, <1>2, <1>3, OnePair
  <2>2. c + a # 0
    BY <2>1
  <2> HIDE DEF a, w, c
  <2>3. CASE c = 0
    <3>1. w + a # 0
      BY <2>1, <2>2, <2>3
    <3> QED
      BY <2>1, <3>1
  <2>4. CASE w # 0
    <3>1. w + a # 0
      BY <2>1, <2>4
    <3> QED
      BY <2>1, <3>1
  <2>5. CASE c # 0 /\ w = 0
    <3>1. PICK q \in Pairs : q.row = p.row /\ Near(q.value, p.value) /\ Placed({q}) # 0
      BY <2>5 DEF KeptNear, w, c
    <3>2. Placed({q})' # 0
      BY <1>1, <3>1, OnePair
    <3> QED
      BY <3>1, <3>2
  <2> QED
    BY <2>3, <2>4, <2>5
<1> QED
  BY <1>4, <1>5

\* Merging loses nothing.
LEMMA MovedKeeps ==
    ASSUME PairsFit, PairsFit', Conserved, KeptNear, NEW p, NEW q, Moved(p, q)
    PROVE  Conserved' /\ KeptNear'
<1>1. /\ p \in Pairs /\ q \in Pairs /\ isFloat' = isFloat
      /\ q.row = p.row /\ Near(q.value, p.value) /\ (~isFloat => q = p)
      /\ \A S \in SUBSET Pairs :
            /\ Waiting(S) = Waiting(S)' + One(S, p)
            /\ Placed(S)' = Placed(S) + One(S, q)
            /\ CountIn(S, Collected)' = CountIn(S, Collected)
  BY DEF Moved
<1>2. \A S : Waiting(S) \in Nat /\ Placed(S) \in Nat /\ CountIn(S, Collected) \in Nat
  BY NumbersFit DEF Numbers
<1>3. \A S : Waiting(S)' \in Nat
  BY NumbersFitNext DEF Numbers
<1>4. Conserved'
  <2> SUFFICES ASSUME NEW S \in SUBSET Pairs, Whole(S)'
               PROVE  Waiting(S)' + Placed(S)' = CountIn(S, Collected)'
    BY DEF Conserved
  <2>1. Whole(S)
    BY <1>1 DEF Whole
  <2>2. Waiting(S) + Placed(S) = CountIn(S, Collected)
    BY <2>1 DEF Conserved
  <2>3. One(S, p) = One(S, q)
    BY <1>1, <2>1 DEF Whole, One
  <2> DEFINE w == Waiting(S)'
             x == Placed(S)
             c == CountIn(S, Collected)
             d == One(S, p)
  <2>4. /\ w \in Nat /\ x \in Nat /\ d \in Nat /\ (w + d) + x = c
        /\ Placed(S)' = x + d /\ CountIn(S, Collected)' = c
    BY <1>1, <1>2, <1>3, <2>2, <2>3 DEF One
  <2> HIDE DEF w, x, c, d
  <2>5. w + (x + d) = c
    BY <2>4
  <2> QED
    BY <2>4, <2>5 DEF w
<1>5. KeptNear'
  <2> SUFFICES ASSUME NEW r \in Pairs, CountIn({r}, Collected)' # 0
               PROVE  \/ Waiting({r})' # 0
                      \/ \E t \in Pairs : t.row = r.row /\ Near(t.value, r.value) /\ Placed({t})' # 0
    BY DEF KeptNear, Near
  <2>1. \A t \in Pairs : Placed({t}) # 0 => Placed({t})' # 0
    <3> SUFFICES ASSUME NEW t \in Pairs, Placed({t}) # 0 PROVE Placed({t})' # 0
      OBVIOUS
    <3> DEFINE x == Placed({t})
               d == One({t}, q)
    <3>1. x \in Nat /\ d \in Nat /\ x # 0 /\ Placed({t})' = x + d
      BY <1>1, <1>2, OnePair DEF One
    <3> HIDE DEF x, d
    <3> QED
      BY <3>1
  <2>2. Placed({q})' # 0
    <3> DEFINE x == Placed({q})
    <3>1. x \in Nat /\ Placed({q})' = x + 1
      BY <1>1, <1>2, OnePair DEF One
    <3> HIDE DEF x
    <3> QED
      BY <3>1
  <2>3. CASE r = p
    BY <1>1, <2>2, <2>3
  <2>4. CASE r # p /\ Waiting({r}) # 0
    <3> DEFINE w == Waiting({r})'
    <3>1. w \in Nat /\ Waiting({r}) = w + 0
      BY <1>1, <1>3, <2>4, OnePair DEF One
    <3> HIDE DEF w
    <3>2. w # 0
      BY <2>4, <3>1
    <3> QED
      BY <3>2 DEF w
  <2>5. CASE Waiting({r}) = 0
    <3>1. CountIn({r}, Collected) # 0
      BY <1>1, OnePair
    <3>2. PICK t \in Pairs : t.row = r.row /\ Near(t.value, r.value) /\ Placed({t}) # 0
      BY <2>5, <3>1 DEF KeptNear
    <3> QED
      BY <2>1, <3>2
  <2> QED
    BY <2>3, <2>4, <2>5
<1> QED
  BY <1>4, <1>5

\* A step that leaves the writer alone leaves its pairs,
LEMMA WriterSame ==
    ASSUME wValues' = wValues, wRowStart' = wRowStart, wRows' = wRows
    PROVE  InWriter' = InWriter
BY DEF InWriter, RowCount, Pair

\* one that leaves the index alone leaves those of the index,
LEMMA IndexSame ==
    ASSUME index' = index
    PROVE  InIndex' = InIndex
BY DEF InIndex, Items, RowsOf, Pair

\* one that reads nothing leaves those in the runs,
LEMMA RunsSame ==
    ASSUME runs' = runs, read' = read
    PROVE  InRuns' = InRuns
BY DEF InRuns

\* and one without a document leaves what was collected.
LEMMA DocsSame ==
    ASSUME docs' = docs
    PROVE  Collected' = Collected
BY DEF Collected, Pair

\* A writer without values has no pairs.
LEMMA NoneWritten ==
    ASSUME wValues = << >>, NEW S
    PROVE  CountIn(S, InWriter) = 0
<1>1. InWriter = << >>
  <2>1. WriterLists = << >>
    BY DEF WriterLists
  <2> QED
    BY <2>1, ListsAre DEF FlattenSeq
<1> QED
  BY <1>1, CountEmpty

\* ... also after a step.
LEMMA NoneWrittenNext ==
    ASSUME wValues' = << >>, NEW S
    PROVE  CountIn(S, InWriter') = 0
<1>1. InWriter' = << >>
  <2>1. WriterLists' = << >>
    BY DEF WriterLists
  <2> QED
    BY <2>1, ListsNext DEF FlattenSeq
<1> QED
  BY <1>1, CountEmpty

\* Numbers of pairs that are the same add nothing.
LEMMA GrownByNone ==
    ASSUME PairsFit, isFloat' = isFloat,
           \A S \in SUBSET Pairs :
              Waiting(S)' = Waiting(S) /\ Placed(S)' = Placed(S) /\ CountIn(S, Collected)' = CountIn(S, Collected)
    PROVE  Grown(<< >>)
<1>1. \A S : Waiting(S) \in Nat /\ CountIn(S, Collected) \in Nat
  BY NumbersFit DEF Numbers
<1>2. \A S : CountIn(S, << >>) = 0
  BY CountEmpty
<1>3. << >> \in Seq(Pairs)
  OBVIOUS
<1>4. ASSUME NEW S \in SUBSET Pairs
      PROVE  /\ Waiting(S)' = Waiting(S) + CountIn(S, << >>)
             /\ Placed(S)' = Placed(S)
             /\ CountIn(S, Collected)' = CountIn(S, Collected) + CountIn(S, << >>)
  <2> DEFINE w == Waiting(S)
             c == CountIn(S, Collected)
  <2>1. w \in Nat /\ c \in Nat /\ Waiting(S)' = w /\ CountIn(S, Collected)' = c /\ CountIn(S, << >>) = 0
    BY <1>1, <1>2
  <2>2. Placed(S)' = Placed(S)
    OBVIOUS
  <2> HIDE DEF w, c
  <2>3. w + 0 = w /\ c + 0 = c
    BY <2>1
  <2> QED
    BY <2>1, <2>2, <2>3 DEF w, c
<1> QED
  BY <1>3, <1>4 DEF Grown

\* A document more.
LEMMA RowGrows ==
    ASSUME IInv, NEW doc \in Doc, SetRow(doc)
    PROVE  Grown([i \in DOMAIN doc |-> Pair(doc[i], Len(docs))])
<1> DEFINE row == Len(docs)
           full == row % MaxRows = 0
           added == [i \in DOMAIN doc |-> Pair(doc[i], row)]
           base == IF full THEN << >> ELSE rows
           kept == IF full THEN Flushed ELSE runs
<1>1. /\ phase = "collect"
      /\ runs' = kept /\ rows' = base \o added /\ docs' = Append(docs, doc)
      /\ isFloat' = isFloat /\ read' = read
      /\ wValues' = wValues /\ wRowStart' = wRowStart /\ wRows' = wRows /\ index' = index
  BY DEF SetRow, writer
<1>2. /\ docs \in Seq(Doc) /\ rows \in Seq(Pairs) /\ runs \in Seq(Seq(Pairs)) /\ read = << >>
  BY <1>1 DEF IInv, CollectedFit
<1>3. doc \in Seq(Int) /\ row \in Nat
  BY <1>2, BuilderAssumption
<1>4. Flushed \in Seq(Seq(Pairs))
  BY FlushedIs DEF IInv
<1>5. kept \in Seq(Seq(Pairs)) /\ base \in Seq(Pairs)
  BY <1>2, <1>4
<1>6. added \in Seq(Pairs)
  <2>1. DOMAIN doc = 1 .. Len(doc) /\ Len(doc) \in Nat /\ \A k \in DOMAIN doc : Pair(doc[k], row) \in Pairs
    BY <1>3, PairFits
  <2> QED
    BY <2>1
<1>7. InRuns = FlattenSeq(runs)
  <2>1. RunLists = runs
    BY <1>2, RunsUnread DEF Taken
  <2> QED
    BY <2>1, ListsAre
<1>8. InRuns' = FlattenSeq(kept)
  <2>1. runs' \in Seq(Seq(Pairs)) /\ \A c \in DOMAIN runs' : Taken(c)' = 0
    BY <1>1, <1>2, <1>5 DEF Taken
  <2>2. RunLists' = runs'
    BY <2>1, RunsUnreadNext
  <2> QED
    BY <1>1, <2>2, ListsNext
<1>9. InWriter' = InWriter /\ InIndex' = InIndex
  BY <1>1, WriterSame, IndexSame
<1>10. FlattenSeq(kept) \in Seq(Pairs) /\ FlattenSeq(runs) \in Seq(Pairs)
  BY <1>2, <1>5, FlattenType
<1>11. ASSUME NEW S
       PROVE  CountIn(S, FlattenSeq(kept)) + CountIn(S, base) = CountIn(S, FlattenSeq(runs)) + CountIn(S, rows)
  <2>1. CASE full
    <3> DEFINE a == CountIn(S, FlattenSeq(kept))
    <3>1. CountIn(S, base) = 0 /\ a = CountIn(S, FlattenSeq(runs)) + CountIn(S, rows)
      BY <2>1, FlushedCounts, CountEmpty DEF IInv
    <3>2. a \in Nat
      BY <1>10, CountIs
    <3> HIDE DEF a, kept, base
    <3> QED
      BY <3>1, <3>2 DEF a
  <2>2. CASE ~full
    BY <2>2
  <2> QED
    BY <2>1, <2>2
<1> HIDE DEF row, full, added, base, kept
<1>12. ASSUME NEW S \in SUBSET Pairs
       PROVE  /\ Waiting(S)' = Waiting(S) + CountIn(S, added)
              /\ Placed(S)' = Placed(S)
              /\ CountIn(S, Collected)' = CountIn(S, Collected) + CountIn(S, added)
  <2>1. CountIn(S, base \o added) = CountIn(S, base) + CountIn(S, added)
    BY <1>5, <1>6, CountJoined
  <2> DEFINE a == CountIn(S, added)
             b == CountIn(S, base)
             x == CountIn(S, FlattenSeq(kept))
             y == CountIn(S, FlattenSeq(runs))
             z == CountIn(S, rows)
  <2>2. a \in Nat /\ b \in Nat /\ x \in Nat /\ y \in Nat /\ z \in Nat
    BY <1>2, <1>5, <1>6, <1>10, CountIs
  <2>3. Waiting(S)' = (b + a) + x
    BY <1>1, <1>8, <2>1 DEF Waiting
  <2>4. Waiting(S) = z + y /\ x + b = y + z
    BY <1>7, <1>11 DEF Waiting
  <2>5. Placed(S)' = Placed(S)
    BY <1>9 DEF Placed
  <2>6. CountIn(S, Collected)' = CountIn(S, Collected) + a
    <3>1. CountIn(S, Collected') = CountIn(S, Collected) + CountIn(S, [i \in DOMAIN doc |-> Pair(doc[i], Len(docs))])
      BY <1>1, <1>2, DocCounts
    <3> QED
      BY <3>1 DEF added, row
  <2> HIDE DEF a, b, x, y, z
  <2>7. (b + a) + x = (z + y) + a
    BY <2>2, <2>4
  <2> QED
    BY <2>3, <2>4, <2>5, <2>6, <2>7 DEF a
<1>13. Grown(added)
  BY <1>1, <1>6, <1>12 DEF Grown
<1> QED
  BY <1>13 DEF added, row

\* The end of collecting.
LEMMA DoneGrows ==
    ASSUME IInv, Done
    PROVE  Grown(<< >>)
<1>1. /\ phase = "collect" /\ runs' = Flushed /\ rows' = << >>
      /\ read' = [c \in DOMAIN runs' |-> 0] /\ isFloat' = isFloat /\ docs' = docs
      /\ wValues' = wValues /\ wRowStart' = wRowStart /\ wRows' = wRows /\ index' = index
  BY DEF Done, writer
<1>2. rows \in Seq(Pairs) /\ runs \in Seq(Seq(Pairs)) /\ read = << >>
  BY <1>1 DEF IInv, CollectedFit
<1>3. Flushed \in Seq(Seq(Pairs))
  BY FlushedIs DEF IInv
<1>4. InRuns = FlattenSeq(runs)
  <2>1. RunLists = runs
    BY <1>2, RunsUnread DEF Taken
  <2> QED
    BY <2>1, ListsAre
<1>5. InRuns' = FlattenSeq(Flushed)
  <2>1. runs' \in Seq(Seq(Pairs)) /\ \A c \in DOMAIN runs' : Taken(c)' = 0
    BY <1>1, <1>3 DEF Taken
  <2>2. RunLists' = runs'
    BY <2>1, RunsUnreadNext
  <2> QED
    BY <1>1, <2>2, ListsNext
<1>6. InWriter' = InWriter /\ InIndex' = InIndex /\ Collected' = Collected
  BY <1>1, WriterSame, IndexSame, DocsSame
<1>7. ASSUME NEW S \in SUBSET Pairs
      PROVE  Waiting(S)' = Waiting(S) /\ Placed(S)' = Placed(S) /\ CountIn(S, Collected)' = CountIn(S, Collected)
  <2> DEFINE x == CountIn(S, FlattenSeq(Flushed))
             y == CountIn(S, FlattenSeq(runs))
             z == CountIn(S, rows)
  <2>1. x = y + z
    BY FlushedCounts DEF IInv
  <2>2. y \in Nat /\ z \in Nat
    <3>1. FlattenSeq(runs) \in Seq(Pairs)
      BY <1>2, FlattenType
    <3> QED
      BY <1>2, <3>1, CountIs
  <2>3. Waiting(S)' = 0 + x
    BY <1>1, <1>5, CountEmpty DEF Waiting
  <2>4. Waiting(S) = z + y
    BY <1>4 DEF Waiting
  <2> HIDE DEF x, y, z
  <2>5. 0 + x = z + y
    BY <2>1, <2>2
  <2>6. Placed(S)' = Placed(S) /\ CountIn(S, Collected)' = CountIn(S, Collected)
    BY <1>6 DEF Placed
  <2> QED
    BY <2>3, <2>4, <2>5, <2>6
<1> QED
  BY <1>1, <1>7, PairsAreFit, GrownByNone

\* The last block, or none.
LEMMA FinishGrows ==
    ASSUME IInv, Finish
    PROVE  Grown(<< >>)
<1>1. /\ FlushBlock /\ wValues' = << >>
      /\ isFloat' = isFloat /\ docs' = docs /\ rows' = rows /\ runs' = runs /\ read' = read
  BY DEF Finish
<1>2. PairsFit
  BY PairsAreFit
<1>3. InRuns' = InRuns /\ Collected' = Collected
  BY <1>1, RunsSame, DocsSame
<1>4. ASSUME NEW S \in SUBSET Pairs
      PROVE  Waiting(S)' = Waiting(S) /\ Placed(S)' = Placed(S) /\ CountIn(S, Collected)' = CountIn(S, Collected)
  <2> DEFINE w == CountIn(S, InWriter)
             x == CountIn(S, InIndex)
  <2>1. w \in Nat /\ x \in Nat
    BY <1>2, CountIs DEF PairsFit
  <2>2. CountIn(S, InWriter)' = 0
    BY <1>1, NoneWrittenNext
  <2>3. CountIn(S, InIndex)' = x + w
    <3>1. CASE wValues = << >>
      <4>1. w = 0 /\ InIndex' = InIndex
        BY <1>1, <3>1, NoneWritten, IndexSame DEF FlushBlock
      <4> HIDE DEF w
      <4> QED
        BY <2>1, <4>1
    <3>2. CASE wValues # << >>
      <4>1. index' = Append(index, BlockOfValues)
        BY <1>1, <3>2 DEF FlushBlock
      <4> QED
        BY <4>1, FlushCounts DEF IInv
    <3> QED
      BY <3>1, <3>2
  <2>4. Placed(S) = w + x /\ Placed(S)' = 0 + (x + w)
    BY <2>2, <2>3 DEF Placed
  <2> HIDE DEF w, x
  <2>5. 0 + (x + w) = w + x
    BY <2>1
  <2>6. Waiting(S)' = Waiting(S) /\ CountIn(S, Collected)' = CountIn(S, Collected)
    BY <1>1, <1>3 DEF Waiting
  <2> QED
    BY <2>4, <2>5, <2>6
<1> QED
  BY <1>1, <1>2, <1>4, GrownByNone

\* Steps that merge nothing.
LEMMA StayGrows ==
    ASSUME IInv, NoValue \/ UNCHANGED vars
    PROVE  Grown(<< >>)
<1>1. /\ isFloat' = isFloat /\ docs' = docs /\ rows' = rows /\ runs' = runs /\ read' = read
      /\ wValues' = wValues /\ wRowStart' = wRowStart /\ wRows' = wRows /\ index' = index
  BY DEF NoValue, vars, writer
<1>2. InRuns' = InRuns /\ InWriter' = InWriter /\ InIndex' = InIndex /\ Collected' = Collected
  BY <1>1, RunsSame, WriterSame, IndexSame, DocsSame
<1>3. \A S \in SUBSET Pairs :
         Waiting(S)' = Waiting(S) /\ Placed(S)' = Placed(S) /\ CountIn(S, Collected)' = CountIn(S, Collected)
  BY <1>1, <1>2 DEF Waiting, Placed
<1> QED
  BY <1>1, <1>3, PairsAreFit, GrownByNone

\* A value is near itself.
LEMMA NearItself ==
    ASSUME NEW v \in Int
    PROVE  Near(v, v)
<1>1. Tolerance \in Nat
  BY BuilderAssumption
<1> QED
  BY <1>1 DEF Near

\* The pair on top of the queue is taken, and q is written.
LEMMA MovedBy ==
    ASSUME IInv, phase # "collect", NEW c \in DOMAIN runs, Top(c), Take(c),
           isFloat' = isFloat, docs' = docs, rows' = rows, runs' = runs,
           NEW q \in Pairs, q.row = Upcoming(c).row, Near(q.value, Upcoming(c).value),
           ~isFloat => q = Upcoming(c),
           \A S \in SUBSET Pairs : Placed(S)' = Placed(S) + One(S, q)
    PROVE  Moved(Upcoming(c), q)
<1> DEFINE p == Upcoming(c)
<1>1. p \in Pairs
  BY TopIsLeast DEF IInv
<1>2. Collected' = Collected
  BY DocsSame
<1>3. rows \in Seq(Pairs)
  BY DEF IInv, CollectedFit
<1>4. ASSUME NEW S \in SUBSET Pairs
      PROVE  Waiting(S) = Waiting(S)' + One(S, p)
  <2> DEFINE a == CountIn(S, rows)
             b == CountIn(S, InRuns')
             d == One(S, p)
  <2>1. /\ InRuns' \in Seq(Pairs)
        /\ CountIn(S, InRuns) = b + d
    BY TakeCounts DEF IInv
  <2>2. a \in Nat /\ b \in Nat /\ d \in Nat
    BY <1>3, <2>1, CountIs DEF One
  <2>3. Waiting(S) = a + (b + d) /\ Waiting(S)' = a + b
    BY <2>1 DEF Waiting
  <2> HIDE DEF a, b, d
  <2>4. a + (b + d) = (a + b) + d
    BY <2>2
  <2> QED
    BY <2>3, <2>4 DEF d
<1>5. \A S \in SUBSET Pairs : CountIn(S, Collected)' = CountIn(S, Collected)
  BY <1>2
<1> HIDE DEF p
<1>6. Moved(p, q)
  BY <1>1, <1>4, <1>5 DEF Moved, p
<1> QED
  BY <1>6 DEF p

\* The first pair.
LEMMA FirstMoves ==
    ASSUME IInv, FirstValue
    PROVE  \E p, q : Moved(p, q)
<1>1. /\ phase = "fill" /\ isFloat' = isFloat /\ docs' = docs /\ rows' = rows /\ runs' = runs /\ index' = index
  BY DEF FirstValue
<1>2. PICK c \in DOMAIN runs : Top(c) /\ Take(c) /\ AddValue(Upcoming(c), wValues, wRowStart, wRows)
  BY DEF FirstValue
<1> DEFINE p == Upcoming(c)
<1>3. p \in Pairs
  BY <1>1, <1>2, TopIsLeast DEF IInv
<1>4. p.value \in Int /\ p.row \in Nat /\ Pair(p.value, p.row) = p
  BY <1>3, PairIs
<1>5. wValues = << >> /\ wRowStart = << >> /\ wRows = << >>
  BY <1>1 DEF IInv, MergeFits
<1>6. /\ wValues' = Append(<< >>, p.value) /\ wRowStart' = Append(<< >>, Len(<< >>))
      /\ wRows' = Append(<< >>, p.row)
  BY <1>2, <1>5 DEF AddValue
<1>7. InIndex \in Seq(Pairs)
  BY PairsAreFit DEF PairsFit
<1> HIDE DEF p
<1>8. ASSUME NEW S \in SUBSET Pairs PROVE Placed(S)' = Placed(S) + One(S, p)
  <2> DEFINE x == CountIn(S, InIndex)
             d == One(S, p)
  <2>1. x \in Nat /\ d \in Nat
    BY <1>7, CountIs DEF One
  <2>2. CountIn(S, InWriter)' = d
    BY <1>4, <1>6, StartCounts
  <2>3. CountIn(S, InWriter) = 0 /\ InIndex' = InIndex
    BY <1>1, <1>5, NoneWritten, IndexSame
  <2>4. Placed(S)' = d + x /\ Placed(S) = 0 + x
    BY <2>2, <2>3 DEF Placed
  <2> HIDE DEF x, d
  <2>5. d + x = (0 + x) + d
    BY <2>1
  <2> QED
    BY <2>4, <2>5 DEF d
<1>9. Near(p.value, p.value)
  BY <1>4, NearItself
<1>10. Moved(p, p)
  BY <1>1, <1>2, <1>3, <1>8, <1>9, MovedBy DEF p
<1> QED
  BY <1>10

\* A pair more: the row of a value that counts as the last one joins its rows.
LEMMA NextMoves ==
    ASSUME IInv, NextValue
    PROVE  \E p, q : Moved(p, q)
<1>1. /\ phase = "merge" /\ isFloat' = isFloat /\ docs' = docs /\ rows' = rows /\ runs' = runs
  BY DEF NextValue
<1>2. PICK c \in DOMAIN runs :
        /\ Top(c) /\ Take(c)
        /\ IF SameValue(Upcoming(c).value)
           THEN wRows' = Append(wRows, Upcoming(c).row)
                /\ UNCHANGED <<wValues, wRowStart, totalValues, minMax, index>>
           ELSE NewValue(Upcoming(c))
  BY DEF NextValue
<1> DEFINE p == Upcoming(c)
           n == Len(wValues)
           last == wValues[n]
<1>3. wValues # << >> /\ p \in Pairs /\ n \in Nat /\ n # 0 /\ last \in Int
  BY <1>1, <1>2, LastBeforeNext
<1>4. p.value \in Int /\ p.row \in Nat /\ Pair(p.value, p.row) = p
  BY <1>3, PairIs
<1>5. WriterFits /\ IndexFits
  BY DEF IInv
<1>6. Tolerance \in Nat
  BY BuilderAssumption
<1>7. InIndex \in Seq(Pairs) /\ InWriter \in Seq(Pairs)
  BY PairsAreFit DEF PairsFit
<1>8. CASE SameValue(p.value)
  <2> DEFINE q == Pair(last, p.row)
  <2>1. wRows' = Append(wRows, p.row) /\ wValues' = wValues /\ wRowStart' = wRowStart /\ index' = index
    BY <1>2, <1>8
  <2>2. SameValue(p.value) <=> IF isFloat THEN p.value - last <= Tolerance /\ last - p.value <= Tolerance
                               ELSE p.value = last
    BY DEF SameValue
  <2> HIDE DEF p, last
  <2>3. q \in Pairs /\ q.row = p.row /\ q.value = last
    BY <1>3, <1>4, PairFits DEF Pair
  <2>4. Near(last, p.value) /\ (~isFloat => last = p.value)
    BY <1>3, <1>4, <1>6, <1>8, <2>2 DEF Near
  <2>5. ~isFloat => q = p
    BY <1>4, <2>4
  <2>6. ASSUME NEW S \in SUBSET Pairs PROVE Placed(S)' = Placed(S) + One(S, q)
    <3> DEFINE x == CountIn(S, InIndex)
               w == CountIn(S, InWriter)
               d == One(S, q)
    <3>1. x \in Nat /\ w \in Nat /\ d \in Nat
      BY <1>7, CountIs DEF One
    <3>2. CountIn(S, InWriter)' = w + d
      BY <1>3, <1>4, <1>5, <2>1, GrowCounts DEF last
    <3>3. InIndex' = InIndex
      BY <2>1, IndexSame
    <3>4. Placed(S)' = (w + d) + x /\ Placed(S) = w + x
      BY <3>2, <3>3 DEF Placed
    <3> HIDE DEF x, w, d
    <3>5. (w + d) + x = (w + x) + d
      BY <3>1
    <3> QED
      BY <3>4, <3>5 DEF d
  <2> HIDE DEF q
  <2>7. Moved(p, q)
    BY <1>1, <1>2, <2>3, <2>4, <2>5, <2>6, MovedBy DEF p
  <2> QED
    BY <2>7
<1>9. CASE ~SameValue(p.value)
  <2>1. NewValue(p)
    BY <1>2, <1>9
  <2> HIDE DEF p
  <2>2. ASSUME NEW S \in SUBSET Pairs PROVE Placed(S)' = Placed(S) + One(S, p)
    <3> DEFINE x == CountIn(S, InIndex)
               w == CountIn(S, InWriter)
               d == One(S, p)
    <3>1. x \in Nat /\ w \in Nat /\ d \in Nat
      BY <1>7, CountIs DEF One
    <3>2. CASE n < ValuesPerBlock
      <4>1. /\ wValues' = Append(wValues, p.value) /\ wRowStart' = Append(wRowStart, Len(wRows))
            /\ wRows' = Append(wRows, p.row) /\ index' = index
        BY <2>1, <3>2 DEF NewValue, AddValue
      <4>2. CountIn(S, InWriter)' = w + d
        BY <1>4, <1>5, <4>1, AddCounts
      <4>3. InIndex' = InIndex
        BY <4>1, IndexSame
      <4>4. Placed(S)' = (w + d) + x /\ Placed(S) = w + x
        BY <4>2, <4>3 DEF Placed
      <4> HIDE DEF x, w, d
      <4>5. (w + d) + x = (w + x) + d
        BY <3>1
      <4> QED
        BY <4>4, <4>5 DEF d
    <3>3. CASE ~(n < ValuesPerBlock)
      <4>1. /\ wValues' = Append(<< >>, p.value) /\ wRowStart' = Append(<< >>, Len(<< >>))
            /\ wRows' = Append(<< >>, p.row) /\ index' = Append(index, BlockOfValues)
        BY <1>3, <2>1, <3>3 DEF NewValue, AddValue, FlushBlock
      <4>2. CountIn(S, InWriter)' = d
        BY <1>4, <4>1, StartCounts
      <4>3. CountIn(S, InIndex)' = x + w
        BY <1>5, <4>1, FlushCounts
      <4>4. Placed(S)' = d + (x + w) /\ Placed(S) = w + x
        BY <4>2, <4>3 DEF Placed
      <4> HIDE DEF x, w, d
      <4>5. d + (x + w) = (w + x) + d
        BY <3>1
      <4> QED
        BY <4>4, <4>5 DEF d
    <3> QED
      BY <3>2, <3>3
  <2>3. Near(p.value, p.value)
    BY <1>4, NearItself
  <2>4. Moved(p, p)
    BY <1>1, <1>2, <1>3, <2>2, <2>3, MovedBy DEF p
  <2> QED
    BY <2>4
<1> QED
  BY <1>8, <1>9

\* At first there is nothing to lose.
LEMMA InitConserved == Init => Conserved /\ KeptNear
<1> SUFFICES ASSUME Init PROVE Conserved /\ KeptNear
  OBVIOUS
<1>1. docs = << >> /\ rows = << >> /\ runs = << >> /\ read = << >> /\ wValues = << >> /\ index = << >>
  BY DEF Init
<1>2. RunLists = << >> /\ DocLists = << >>
  BY <1>1 DEF RunLists, DocLists
<1>3. ItemLists(Items) = << >>
  <2>1. Items = << >>
    BY <1>1 DEF Items, FlattenSeq
  <2> QED
    BY <2>1 DEF ItemLists
<1>4. InRuns = << >> /\ Collected = << >> /\ InIndex = << >>
  BY <1>2, <1>3, ListsAre DEF FlattenSeq
<1>5. \A S : Waiting(S) = 0 /\ Placed(S) = 0 /\ CountIn(S, Collected) = 0
  BY <1>1, <1>4, CountEmpty, NoneWritten DEF Waiting, Placed
<1> QED
  BY <1>5 DEF Conserved, KeptNear

\* Every step keeps every pair.
LEMMA NextConserved == IInv /\ Conserved /\ KeptNear /\ [Next]_vars => Conserved' /\ KeptNear'
<1> SUFFICES ASSUME IInv, Conserved, KeptNear, [Next]_vars PROVE Conserved' /\ KeptNear'
  OBVIOUS
<1>1. PairsFit /\ PairsFit'
  BY NextIInv, PairsAreFit, PairsAreFitNext
<1>2. ASSUME NEW added, Grown(added) PROVE Conserved' /\ KeptNear'
  BY <1>1, <1>2, GrownKeeps
<1>3. ASSUME NEW p, NEW q, Moved(p, q) PROVE Conserved' /\ KeptNear'
  BY <1>1, <1>3, MovedKeeps
<1>4. ASSUME NEW doc \in Doc, SetRow(doc) PROVE Conserved' /\ KeptNear'
  BY <1>2, <1>4, RowGrows
<1>5. CASE Done
  BY <1>2, <1>5, DoneGrows
<1>6. CASE FirstValue
  BY <1>3, <1>6, FirstMoves
<1>7. CASE NoValue
  BY <1>2, <1>7, StayGrows
<1>8. CASE NextValue
  BY <1>3, <1>8, NextMoves
<1>9. CASE Finish
  BY <1>2, <1>9, FinishGrows
<1>10. CASE Built \/ UNCHANGED vars
  BY <1>2, <1>10, StayGrows DEF Built
<1> QED
  BY <1>4, <1>5, <1>6, <1>7, <1>8, <1>9, <1>10 DEF Next, Process

\* A sequence has what it has some of.
LEMMA HasCount ==
    ASSUME NEW T, NEW s \in Seq(T), NEW x
    PROVE  x \in ToSet(s) <=> CountIn({x}, s) # 0
<1> DEFINE A == PlacesOf({x}, s)
<1>1. IsFiniteSet(A)
  BY CountIs
<1>2. x \in ToSet(s) <=> A # {}
  BY DEF PlacesOf, ToSet
<1> HIDE DEF A
<1>3. Cardinality(A) = 0 <=> A = {}
  BY <1>1, FS_EmptySet
<1> QED
  BY <1>2, <1>3 DEF CountIn, A

\* What NothingLost counts are sets of pairs: those of a row, and each for itself.
RowPairs(r) == {p \in Pairs : p.row = r}

\* It counts them as CountIn does.
LEMMA TimesAre ==
    ASSUME NEW s \in Seq(Pairs)
    PROVE  /\ \A r : RowTimes(r, s) = CountIn(RowPairs(r), s)
           /\ \A p : Times(p, s) = CountIn({p}, s)
<1>1. \A i \in DOMAIN s : s[i] \in Pairs
  OBVIOUS
<1>2. ASSUME NEW r PROVE RowTimes(r, s) = CountIn(RowPairs(r), s)
  <2>1. {i \in DOMAIN s : s[i].row = r} = PlacesOf(RowPairs(r), s)
    BY <1>1 DEF PlacesOf, RowPairs
  <2> QED
    BY <2>1 DEF RowTimes, CountIn
<1>3. ASSUME NEW p PROVE Times(p, s) = CountIn({p}, s)
  <2>1. {i \in DOMAIN s : s[i] = p} = PlacesOf({p}, s)
    BY DEF PlacesOf
  <2> QED
    BY <2>1 DEF Times, CountIn
<1> QED
  BY <1>2, <1>3

\* On their way are those that wait and those that are placed.
LEMMA OnItsWayIs ==
    ASSUME PairsFit
    PROVE  /\ OnItsWay \in Seq(Pairs)
           /\ \A S : CountIn(S, OnItsWay) = Waiting(S) + Placed(S)
<1> DEFINE a == rows
           b == InRuns
           c == InWriter
           d == InIndex
<1>1. a \in Seq(Pairs) /\ b \in Seq(Pairs) /\ c \in Seq(Pairs) /\ d \in Seq(Pairs)
  BY DEF PairsFit
<1>2. OnItsWay = ((a \o b) \o c) \o d
  BY DEF OnItsWay, InMemory
<1> HIDE DEF a, b, c, d
<1>3. a \o b \in Seq(Pairs)
  BY <1>1, ConcatProperties
<1>4. (a \o b) \o c \in Seq(Pairs)
  BY <1>1, <1>3, ConcatProperties
<1>5. ((a \o b) \o c) \o d \in Seq(Pairs)
  BY <1>1, <1>4, ConcatProperties
<1>6. ASSUME NEW S PROVE CountIn(S, OnItsWay) = Waiting(S) + Placed(S)
  <2>1. CountIn(S, a \o b) = CountIn(S, a) + CountIn(S, b)
    BY <1>1, CountJoined
  <2>2. CountIn(S, (a \o b) \o c) = CountIn(S, a \o b) + CountIn(S, c)
    BY <1>1, <1>3, CountJoined
  <2>3. CountIn(S, ((a \o b) \o c) \o d) = CountIn(S, (a \o b) \o c) + CountIn(S, d)
    BY <1>1, <1>4, CountJoined
  <2> DEFINE w == CountIn(S, a)
             x == CountIn(S, b)
             y == CountIn(S, c)
             z == CountIn(S, d)
  <2>4. w \in Nat /\ x \in Nat /\ y \in Nat /\ z \in Nat
    BY <1>1, CountIs
  <2>5. Waiting(S) = w + x /\ Placed(S) = y + z
    BY DEF Waiting, Placed, a, b, c, d
  <2>6. CountIn(S, OnItsWay) = ((w + x) + y) + z
    BY <1>2, <2>1, <2>2, <2>3
  <2> HIDE DEF w, x, y, z
  <2> QED
    BY <2>4, <2>5, <2>6
<1> QED
  BY <1>2, <1>5, <1>6

\* Pairs that are conserved are not lost.
LEMMA ConservedIsKept == IInv /\ Conserved /\ KeptNear => NothingLost
<1> SUFFICES ASSUME IInv, Conserved, KeptNear PROVE NothingLost
  OBVIOUS
<1>1. PairsFit /\ Collected \in Seq(Pairs)
  BY PairsAreFit DEF PairsFit
<1>2. OnItsWay \in Seq(Pairs) /\ \A S : CountIn(S, OnItsWay) = Waiting(S) + Placed(S)
  BY <1>1, OnItsWayIs
<1>3. \A S : Waiting(S) \in Nat /\ Placed(S) \in Nat
  BY <1>1, NumbersFit DEF Numbers
<1>4. \A S \in SUBSET Pairs : Whole(S) => CountIn(S, OnItsWay) = CountIn(S, Collected)
  BY <1>2 DEF Conserved
<1>5. ASSUME NEW r PROVE RowTimes(r, OnItsWay) = RowTimes(r, Collected)
  <2>1. RowPairs(r) \in SUBSET Pairs /\ Whole(RowPairs(r))
    BY DEF RowPairs, Whole
  <2> QED
    BY <1>1, <1>2, <1>4, <2>1, TimesAre
<1>6. ASSUME NEW p \in ToSet(Collected)
      PROVE  IF isFloat
             THEN \E q \in ToSet(OnItsWay) : q.row = p.row /\ Near(q.value, p.value)
             ELSE Times(p, OnItsWay) = Times(p, Collected)
  <2>1. p \in Pairs
    BY <1>1 DEF ToSet
  <2>2. CASE ~isFloat
    <3>1. {p} \in SUBSET Pairs /\ Whole({p})
      BY <2>1, <2>2 DEF Whole
    <3> QED
      BY <1>1, <1>2, <1>4, <2>2, <3>1, TimesAre
  <2>3. CASE isFloat
    <3>1. CountIn({p}, Collected) # 0
      BY <1>1, HasCount
    <3>2. ASSUME NEW q, Waiting({q}) # 0 \/ Placed({q}) # 0
          PROVE  q \in ToSet(OnItsWay)
      <4> DEFINE w == Waiting({q})
                 x == Placed({q})
      <4>1. w \in Nat /\ x \in Nat /\ (w # 0 \/ x # 0) /\ CountIn({q}, OnItsWay) = w + x
        BY <1>2, <1>3, <3>2
      <4> HIDE DEF w, x
      <4>2. CountIn({q}, OnItsWay) # 0
        BY <4>1
      <4> QED
        BY <1>2, <4>2, HasCount
    <3>3. CASE Waiting({p}) # 0
      <4>1. p \in ToSet(OnItsWay)
        BY <3>2, <3>3
      <4>2. p.value \in Int
        BY <2>1, PairIs
      <4> QED
        BY <2>3, <4>1, <4>2, NearItself
    <3>4. CASE Waiting({p}) = 0
      <4>1. PICK q \in Pairs : q.row = p.row /\ Near(q.value, p.value) /\ Placed({q}) # 0
        BY <2>1, <3>1, <3>4 DEF KeptNear
      <4>2. q \in ToSet(OnItsWay)
        BY <3>2, <4>1
      <4> QED
        BY <2>3, <4>1, <4>2
    <3> QED
      BY <3>3, <3>4
  <2> QED
    BY <2>2, <2>3
<1> QED
  BY <1>5, <1>6 DEF NothingLost

\* Every value of every document is on its way exactly once, in memory, in a run, in the
\* writer or in the index, whatever was flushed and merged.
THEOREM NothingIsLost == Spec => []NothingLost
<1>1. Init => IInv /\ Conserved /\ KeptNear
  BY InitIInv, InitConserved
<1>2. IInv /\ Conserved /\ KeptNear /\ [Next]_vars => (IInv /\ Conserved /\ KeptNear)'
  BY NextIInv, NextConserved
<1>3. IInv /\ Conserved /\ KeptNear => NothingLost
  BY ConservedIsKept
<1> QED
  BY <1>1, <1>2, <1>3, PTL DEF Spec

=============================================================================
