------------------------ MODULE BitmapIteratorProofs ------------------------
(***************************************************************************)
(* TLAPS proofs about BitmapIterator, for every index content, block size, *)
(* word size, bounds, cutoff and hints.                                    *)
(***************************************************************************)
EXTENDS BitmapIterator, FiniteSetTheorems, WellFoundedInduction, NaturalsInduction, TLAPS

----------------------------------------------------------------------------
(* The inductive invariant. *)

\* What was asked.
QueryOK ==
    /\ query.reader \in {"values", "range"} /\ query.exclude \in BOOLEAN
    /\ query.bounds \in Bounds \cup {NoBounds}
    /\ query.cutoff \in Cutoffs \cup {NoCutoff}
    /\ query.matched \subseteq Value
    /\ split => ~query.exclude

\* The blocks of a value are disjoint pieces of its rows.
BlocksOK ==
    /\ \A B \in blocks : B # {} /\ B \subseteq MatchedRows
    /\ \A B, C \in blocks : B = C \/ B \cap C = {}

\* The rows the bitmap is built for, and those still to be added to it.
Wanted == {r \in MatchedRows : InBounds(r)}
Rest == UNION blocks
RestOf(V) == UNION {RowsOf(v) : v \in V}
PairsOf(V) == {p \in V \X AllRows : p[2] \in RowsOf(p[1])}

\* Until the cutoff is hit every row wanted is in the bitmap or still to come.
\* Without a cutoff m_iRowsLeft has room for all that is still to come.
OnlyWanted == bits \subseteq Wanted
FullSize == ~WasCutoffHit => size = NumRows
NoneMissing == RowsFit /\ ~WasCutoffHit => Wanted \subseteq bits \cup Rest \cup RestOf(todo)
RoomForRest ==
    RowsFit /\ ~HasCutoff => Cardinality(Rest) + Cardinality(PairsOf(todo)) <= rowsLeft

AddingInv ==
    ~fetching =>
        /\ BlocksOK /\ OnlyWanted /\ FullSize /\ NoneMissing /\ RoomForRest
        /\ index = 0 /\ hint = 0 /\ returned = {} /\ front = 0 /\ ended = FALSE

\* The cutoff is shared between the bits that are set and those that may be.
CutoffShared ==
    HasCutoff /\ (fetching => ~query.exclude) =>
        Cardinality(bits) + rowsLeft <= query.cutoff

\* The words before m_iIndex are read or waived, and all rows returned lie there.
ReadingInv ==
    fetching =>
        /\ \A r \in Owed : index <= Word(r)
        /\ front \in Nat /\ front <= index * WordBits
        /\ ended => \A r \in Visible : Word(r) < index

AnswerInv == RowsFit => ExactAnswer /\ NoForeignRow

IInv == TypeOK /\ QueryOK /\ AddingInv /\ CutoffShared /\ AnswerInv /\ ReadingInv

----------------------------------------------------------------------------
(* Numbers. *)

\* Any set of natural numbers that is not empty has a least one.
LEMMA LeastNatural ==
    ASSUME NEW T, T \subseteq Nat, T # {}
    PROVE  \E m \in T : \A k \in T : m <= k
<1>1. IsWellFoundedOn(OpToRel(<, Nat), Nat)
  BY NatLessThanWellFounded
<1>2. PICK m \in T : \A k \in T : ~ (<<k, m>> \in OpToRel(<, Nat))
  BY <1>1, WFMin
<1>3. \A k \in T : ~ (k < m)
  BY <1>2 DEF OpToRel
<1> QED
  BY <1>3

\* A bounded set of natural numbers that is not empty has a greatest one.
LEMMA GreatestNatural ==
    ASSUME NEW n \in Nat, NEW T, T \subseteq 0 .. n, T # {}
    PROVE  \E m \in T : \A k \in T : k <= m
<1> DEFINE U == {u \in Nat : \A k \in T : k <= u}
<1>1. n \in U
  OBVIOUS
<1>2. PICK u \in U : \A w \in U : u <= w
  <2>1. U \subseteq Nat /\ U # {}
    BY <1>1
  <2> HIDE DEF U
  <2> QED
    BY <2>1, LeastNatural
<1>3. u \in T
  <2> SUFFICES ASSUME u \notin T PROVE FALSE
    OBVIOUS
  <2>1. \A k \in T : k < u /\ k \in Nat /\ u \in Nat
    BY <1>2
  <2>0. PICK j \in T : TRUE
    OBVIOUS
  <2>2. u - 1 \in Nat /\ \A k \in T : k <= u - 1
    BY <2>0, <2>1
  <2>3. u - 1 \in U
    BY <2>2
  <2> QED
    BY <1>2, <2>3
<1> QED
  BY <1>2, <1>3

\* A later word starts after a whole word.
LEMMA WordStride ==
    ASSUME NEW k \in Nat, NEW b \in Int, NEW c \in Int, b < c
    PROVE  b * k \in Int /\ c * k \in Int /\ b * k + k <= c * k
<1>1. \A d \in Nat : b * k + k <= (b + 1 + d) * k
  OBVIOUS
<1>2. c - b - 1 \in Nat /\ c = b + 1 + (c - b - 1)
  OBVIOUS
<1> QED
  BY <1>1, <1>2

\* Where the bits of a word lie.
LEMMA WordIs ==
    ASSUME NEW b \in Nat
    PROVE  /\ WordBits \in Nat /\ WordBits > 0
           /\ Word(b) \in Nat /\ Word(b) <= b
           /\ Word(b) * WordBits \in Nat
           /\ Word(b) * WordBits <= b /\ b < Word(b) * WordBits + WordBits
<1> DEFINE k == WordBits
           q == b \div k
           m == b % k
<1>1. k \in Nat /\ k > 0
  BY SizesAssumption
<1>2. q \in Int /\ m \in 0 .. (k - 1) /\ b = k * q + m
  BY <1>1
<1>3. q >= 0
  <2> SUFFICES ASSUME q < 0 PROVE FALSE
    BY <1>2
  <2>1. q * k + k <= 0 * k
    BY <1>1, <1>2, WordStride
  <2> HIDE DEF q, m
  <2> QED
    BY <1>1, <1>2, <2>1
<1>4. q * k \in Nat /\ q * k <= b /\ b < q * k + k
  <2>1. q * k = k * q /\ k * q \in Int
    BY <1>1, <1>2
  <2>2. q * k >= 0
    BY <1>1, <1>2, <1>3, WordStride, q = 0 \/ 0 < q
  <2> HIDE DEF q, m
  <2> QED
    BY <1>1, <1>2, <2>1, <2>2
<1>5. q <= b
  <2>1. \A n \in Nat : n <= n * k
    BY <1>1
  <2> HIDE DEF q
  <2> QED
    BY <1>2, <1>3, <1>4, <2>1
<1> QED
  BY <1>1, <1>2, <1>3, <1>4, <1>5 DEF Word

\* Words are in the order of their bits.
LEMMA WordsAscend ==
    ASSUME NEW a \in Nat, NEW b \in Nat
    PROVE  /\ a <= b => Word(a) <= Word(b)
           /\ Word(a) < Word(b) => a < b
<1>1. /\ Word(a) \in Nat /\ Word(b) \in Nat /\ WordBits \in Nat
      /\ Word(a) * WordBits <= a /\ b < Word(b) * WordBits + WordBits
      /\ Word(b) * WordBits <= b /\ a < Word(a) * WordBits + WordBits
      /\ Word(a) * WordBits \in Nat /\ Word(b) * WordBits \in Nat
  BY WordIs
<1>2. Word(b) < Word(a) => Word(b) * WordBits + WordBits <= Word(a) * WordBits
  BY <1>1, WordStride
<1>3. Word(a) < Word(b) => Word(a) * WordBits + WordBits <= Word(b) * WordBits
  BY <1>1, WordStride
<1> QED
  BY <1>1, <1>2, <1>3

\* A bit below the start of word k is in a word before it, and the other way round.
LEMMA WordBefore ==
    ASSUME NEW b \in Nat, NEW k \in Nat
    PROVE  k * WordBits \in Nat /\ (b < k * WordBits <=> Word(b) < k)
<1>1. /\ Word(b) \in Nat /\ WordBits \in Nat
      /\ Word(b) * WordBits <= b /\ b < Word(b) * WordBits + WordBits
      /\ Word(b) * WordBits \in Nat
  BY WordIs
<1>2. k * WordBits \in Nat
  BY <1>1
<1>3. Word(b) < k => Word(b) * WordBits + WordBits <= k * WordBits
  BY <1>1, WordStride
<1>4. k < Word(b) => k * WordBits + WordBits <= Word(b) * WordBits
  BY <1>1, WordStride
<1> QED
  BY <1>1, <1>2, <1>3, <1>4

\* The words of a bitmap of n bits.
LEMMA WordsOf ==
    ASSUME size \in Nat \ {0}
    PROVE  DataLen = Word(size - 1) + 1 /\ DataLen \in Nat \ {0} /\ DataLen <= size
<1>1. size - 1 \in Nat
  OBVIOUS
<1>2. Word(size - 1) \in Nat /\ Word(size - 1) <= size - 1 /\ WordBits \in Nat /\ WordBits > 0
  BY <1>1, WordIs
<1>3. \A a \in Nat, k \in Nat \ {0} : (a + k) \div k = (a \div k) + 1
  OBVIOUS
<1>4. size + WordBits - 1 = (size - 1) + WordBits
  BY <1>2
<1>5. DataLen = Word(size - 1) + 1
  BY <1>1, <1>2, <1>3, <1>4 DEF DataLen, Word
<1> QED
  BY <1>1, <1>2, <1>5

----------------------------------------------------------------------------
(* Rows and counts. *)

\* The rows of the shard, and so any set of them, are finite.
LEMMA RowsFinite ==
    ASSUME NEW S, S \subseteq AllRows
    PROVE  IsFiniteSet(S) /\ Cardinality(S) \in Nat
<1>1. IsFiniteSet(AllRows)
  BY SizesAssumption, FS_Interval DEF AllRows
<1> QED
  BY <1>1, FS_Subset, FS_CardinalityType

\* Lowest takes n rows, or all when there are fewer.
LEMMA LowestCounts ==
    ASSUME NEW S \in SUBSET AllRows, NEW n \in Nat
    PROVE  Cardinality(Lowest(S, n)) = IF Cardinality(S) <= n THEN Cardinality(S) ELSE n
<1> DEFINE Right(T, k) ==
             Cardinality(Lowest(T, k)) = IF Cardinality(T) <= k THEN Cardinality(T) ELSE k
           Bad == {c \in Nat : \E T \in SUBSET AllRows : Cardinality(T) = c /\ \E k \in Nat : ~Right(T, k)}
<1>0. AllRows \subseteq Nat /\ NumRows - 1 \in Nat
  BY SizesAssumption DEF AllRows
<1>1. ASSUME Bad # {} PROVE FALSE
  <2>1. Bad \subseteq Nat
    OBVIOUS
  <2>2. PICK c \in Bad : \A d \in Bad : c <= d
    <3> HIDE DEF Bad
    <3> QED
      BY <1>1, <2>1, LeastNatural
  <2>3. PICK T \in SUBSET AllRows : Cardinality(T) = c /\ \E k \in Nat : ~Right(T, k)
    BY <2>2
  <2>4. PICK k \in Nat : ~Right(T, k)
    BY <2>3
  <2>5. IsFiniteSet(T) /\ Cardinality(T) \in Nat
    BY RowsFinite
  <2>6. T # {}
    <3> SUFFICES ASSUME T = {} PROVE FALSE
      OBVIOUS
    <3>1. Lowest(T, k) = {} /\ Cardinality({}) = 0
      BY FS_EmptySet DEF Lowest
    <3> QED
      BY <2>4, <3>1
  <2>7. PICK m \in T : \A r \in T : r <= m
    BY <1>0, <2>6, GreatestNatural DEF AllRows
  <2> DEFINE U == T \ {m}
  <2>8. /\ U \in SUBSET AllRows /\ Cardinality(U) \in Nat /\ Cardinality(T) = Cardinality(U) + 1
    <3>1. Cardinality(U) = Cardinality(T) - 1
      BY <2>5, FS_RemoveElement
    <3> QED
      BY <3>1, <2>5, RowsFinite
  <2>9. \A j \in Nat : Right(U, j)
    <3> SUFFICES ASSUME ~\A j \in Nat : Right(U, j) PROVE FALSE
      OBVIOUS
    <3>1. Cardinality(U) \in Bad
      <4> HIDE DEF U, Right
      <4> QED
        BY <2>8
    <3>2. c <= Cardinality(U)
      <4> HIDE DEF U, Bad
      <4> QED
        BY <2>2, <3>1
    <3> HIDE DEF U, Bad
    <3> QED
      BY <2>3, <2>8, <3>2
  <2>10. {x \in T : x < m} = U
    <3>1. \A x \in U : x \in Nat /\ m \in Nat /\ x <= m /\ x # m
      BY <1>0, <2>7
    <3>2. ~(m < m)
      BY <1>0
    <3> QED
      BY <3>1, <3>2
  <2>11. \A r \in U : {x \in T : x < r} = {x \in U : x < r}
    <3>1. \A r \in U : ~(m < r)
      BY <1>0, <2>7
    <3> QED
      BY <3>1
  <2>12. CASE Cardinality(U) < k
    <3>1. Lowest(U, k) = U
      <4>1. Cardinality(Lowest(U, k)) = Cardinality(U)
        <5> HIDE DEF U
        <5> QED
          BY <2>8, <2>9, <2>12
      <4>2. Lowest(U, k) \subseteq U /\ IsFiniteSet(U)
        BY <2>8, RowsFinite DEF Lowest
      <4> QED
        BY <4>1, <4>2, FS_Subset
    <3>2. Lowest(T, k) = T
      <4>1. \A r \in U : Cardinality({x \in U : x < r}) < k
        BY <3>1 DEF Lowest
      <4>2. \A r \in U : Cardinality({x \in T : x < r}) < k
        BY <2>11, <4>1
      <4>3. Cardinality({x \in T : x < m}) < k
        BY <2>10, <2>12
      <4> QED
        BY <4>2, <4>3 DEF Lowest
    <3>3. Cardinality(T) <= k
      <4> HIDE DEF U
      <4> QED
        BY <2>8, <2>12
    <3> QED
      BY <2>4, <3>2, <3>3
  <2>13. CASE ~(Cardinality(U) < k)
    <3>1. Lowest(T, k) = Lowest(U, k)
      <4>1. m \notin Lowest(T, k)
        BY <2>10, <2>13 DEF Lowest
      <4>2. \A r \in U : r \in Lowest(T, k) <=> r \in Lowest(U, k)
        BY <2>11 DEF Lowest
      <4>3. Lowest(T, k) \subseteq T /\ Lowest(U, k) \subseteq U
        BY DEF Lowest
      <4> QED
        BY <4>1, <4>2, <4>3
    <3>2. Cardinality(Lowest(U, k)) = k
      <4>1. Right(U, k)
        BY <2>9
      <4>2. Cardinality(Lowest(U, k)) = IF Cardinality(U) <= k THEN Cardinality(U) ELSE k
        BY <4>1
      <4> HIDE DEF U
      <4> QED
        BY <2>8, <2>13, <4>2
    <3>3. ~(Cardinality(T) <= k)
      <4> HIDE DEF U
      <4> QED
        BY <2>8, <2>13
    <3> QED
      BY <2>4, <3>1, <3>2, <3>3
  <2> QED
    BY <2>12, <2>13
<1>2. Right(S, n)
  <2> SUFFICES ASSUME ~Right(S, n) PROVE FALSE
    OBVIOUS
  <2>1. Cardinality(S) \in Nat
    BY RowsFinite
  <2>2. Cardinality(S) \in Bad
    <3> HIDE DEF Right
    <3> QED
      BY <2>1
  <2> HIDE DEF Bad
  <2> QED
    BY <1>1, <2>2
<1> QED
  BY <1>2

\* What the cutoff leaves of a block.
LEMMA LowestIs ==
    ASSUME NEW S \in SUBSET AllRows, NEW n \in Nat
    PROVE  /\ Lowest(S, n) \subseteq S
           /\ Cardinality(Lowest(S, n)) \in Nat /\ Cardinality(Lowest(S, n)) <= n
           /\ Cardinality(Lowest(S, n)) <= Cardinality(S)
           /\ Lowest(S, n) # S => Cardinality(Lowest(S, n)) = n
           /\ Cardinality(S) <= n => Lowest(S, n) = S
<1>1. Lowest(S, n) \subseteq S
  BY DEF Lowest
<1>2. IsFiniteSet(S) /\ Cardinality(S) \in Nat
  BY RowsFinite
<1>3. Cardinality(Lowest(S, n)) = IF Cardinality(S) <= n THEN Cardinality(S) ELSE n
  BY LowestCounts
<1>4. Cardinality(S) <= n => Lowest(S, n) = S
  BY <1>1, <1>2, <1>3, FS_Subset
<1> QED
  BY <1>1, <1>2, <1>3, <1>4

\* The pairs still to be added, and what taking a value out of them leaves.
LEMMA PairsFinite ==
    ASSUME NEW V, V \subseteq Value
    PROVE  IsFiniteSet(PairsOf(V)) /\ Cardinality(PairsOf(V)) \in Nat
<1>1. IsFiniteSet(V) /\ IsFiniteSet(AllRows)
  BY ValuesAssumption, FS_Subset, RowsFinite
<1>2. IsFiniteSet(V \X AllRows)
  BY <1>1, FS_Product
<1>3. PairsOf(V) \subseteq V \X AllRows
  BY DEF PairsOf
<1> QED
  BY <1>2, <1>3, FS_Subset, FS_CardinalityType

LEMMA PairsSplit ==
    ASSUME NEW V, V \subseteq Value, NEW v \in V
    PROVE  Cardinality(PairsOf(V)) = Cardinality(PairsOf(V \ {v})) + Cardinality(RowsOf(v))
<1> DEFINE A == PairsOf(V \ {v})
           B == {v} \X RowsOf(v)
<1>1. RowsOf(v) \subseteq AllRows
  BY ValuesAssumption DEF RowsOf
<1>2. PairsOf(V) = A \cup B /\ A \cap B = {}
  BY <1>1 DEF PairsOf
<1>3. IsFiniteSet(A) /\ Cardinality(A) \in Nat
  BY PairsFinite
<1>4. IsFiniteSet(RowsOf(v)) /\ Cardinality(RowsOf(v)) \in Nat
  BY <1>1, RowsFinite
<1>5. IsFiniteSet(B) /\ Cardinality(B) = Cardinality(RowsOf(v))
  <2>1. IsFiniteSet({v}) /\ Cardinality({v}) = 1
    BY FS_Singleton
  <2>2. IsFiniteSet(B) /\ Cardinality(B) = Cardinality({v}) * Cardinality(RowsOf(v))
    BY <1>4, <2>1, FS_Product
  <2> QED
    BY <1>4, <2>1, <2>2
<1>6. Cardinality(A \cup B) = Cardinality(A) + Cardinality(B) - Cardinality(A \cap B)
  <2> HIDE DEF A, B
  <2> QED
    BY <1>3, <1>5, FS_Union
<1>7. Cardinality(A \cap B) = 0
  BY <1>2, FS_EmptySet
<1>8. Cardinality(A \cup B) = Cardinality(A) + Cardinality(RowsOf(v))
  <2> HIDE DEF A, B
  <2> QED
    BY <1>3, <1>4, <1>5, <1>6, <1>7
<1> QED
  BY <1>2, <1>8

----------------------------------------------------------------------------
(* The blocks of a value. *)

\* A query's bounds.
LEMMA BoundsAre ==
    ASSUME QueryOK, query.bounds # NoBounds
    PROVE  /\ query.bounds.min \in AllRows /\ query.bounds.max \in AllRows
           /\ query.bounds.min <= query.bounds.max
           /\ query.bounds.min \in Nat /\ query.bounds.max \in Nat
<1>1. query.bounds \in Bounds
  BY DEF QueryOK
<1>2. AllRows \subseteq Nat
  BY SizesAssumption DEF AllRows
<1> QED
  BY <1>1, <1>2, BoundsAssumption

\* The rows of a value are rows of the shard.
LEMMA RowsOfValue ==
    ASSUME NEW v \in Value
    PROVE  RowsOf(v) \subseteq AllRows /\ IsFiniteSet(RowsOf(v)) /\ Cardinality(RowsOf(v)) \in Nat
<1>1. RowsOf(v) \subseteq AllRows
  BY ValuesAssumption DEF RowsOf
<1> QED
  BY <1>1, RowsFinite

\* The matched rows are rows of the shard.
LEMMA MatchedAreRows ==
    ASSUME QueryOK
    PROVE  /\ MatchedRows \subseteq AllRows /\ AllRows \subseteq Nat
           /\ \A v \in query.matched : v \in Value /\ RowsOf(v) \subseteq MatchedRows
<1>1. AllRows \subseteq Nat
  BY SizesAssumption DEF AllRows
<1>2. \A v \in query.matched : v \in Value
  BY DEF QueryOK
<1> QED
  BY <1>1, <1>2, RowsOfValue DEF MatchedRows

\* A stored block is a piece of its value, and two of them share no row.
LEMMA StoredBlocks ==
    ASSUME NEW v \in Value, NEW i \in DOMAIN Rowids[v]
    PROVE  /\ Rowids[v][i] \in StoredBlock(v, i) /\ StoredBlock(v, i) \subseteq RowsOf(v)
           /\ \A j \in DOMAIN Rowids[v] :
                 \/ StoredBlock(v, i) = StoredBlock(v, j)
                 \/ StoredBlock(v, i) \cap StoredBlock(v, j) = {}
<1>1. Rowids[v][i] \in StoredBlock(v, i) /\ StoredBlock(v, i) \subseteq RowsOf(v)
  BY DEF StoredBlock, RowsOf
<1>2. ASSUME NEW j \in DOMAIN Rowids[v], NEW r \in StoredBlock(v, i), r \in StoredBlock(v, j)
      PROVE  StoredBlock(v, i) = StoredBlock(v, j)
  <2>1. PICK a \in DOMAIN Rowids[v] :
             r = Rowids[v][a] /\ (a - 1) \div RowidsPerBlock = (i - 1) \div RowidsPerBlock
    BY DEF StoredBlock
  <2>2. PICK b \in DOMAIN Rowids[v] :
             r = Rowids[v][b] /\ (b - 1) \div RowidsPerBlock = (j - 1) \div RowidsPerBlock
    BY <1>2 DEF StoredBlock
  <2>3. a = b
    <3>1. Rowids[v] \in Seq(AllRows) /\ AllRows \subseteq Nat
      BY ValuesAssumption, SizesAssumption DEF AllRows
    <3>2. a \in Nat /\ b \in Nat /\ r \in Nat
      <4> DEFINE f == Rowids[v]
      <4>1. f \in Seq(AllRows) /\ a \in DOMAIN f /\ b \in DOMAIN f /\ r = f[a]
        BY <2>1, <3>1
      <4> HIDE DEF f
      <4>2. DOMAIN f \subseteq Nat /\ \A k \in DOMAIN f : f[k] \in AllRows
        BY <4>1
      <4> QED
        BY <3>1, <4>1, <4>2
    <3>3. a < b => r < r
      BY <2>1, <2>2, ValuesAssumption
    <3>4. b < a => r < r
      BY <2>1, <2>2, ValuesAssumption
    <3> QED
      BY <3>2, <3>3, <3>4
  <2>4. (i - 1) \div RowidsPerBlock = (j - 1) \div RowidsPerBlock
    BY <2>1, <2>2, <2>3, Zenon
  <2> QED
    BY <2>4, Zenon DEF StoredBlock
<1> QED
  BY <1>1, <1>2

\* The blocks the common iterator delivers hold every row within the bounds.
LEMMA BlocksOfValue ==
    ASSUME QueryOK, NEW v \in query.matched
    PROVE  /\ \A B \in Blocks(v) : B # {} /\ B \subseteq RowsOf(v)
           /\ \A B, C \in Blocks(v) : B = C \/ B \cap C = {}
           /\ \A r \in RowsOf(v) : InBounds(r) => r \in UNION Blocks(v)
<1>1. v \in Value
  BY DEF QueryOK
<1>2. \A B \in Blocks(v) : B # {} /\ B \subseteq RowsOf(v)
  BY <1>1, StoredBlocks DEF Blocks
<1>3. \A B, C \in Blocks(v) : B = C \/ B \cap C = {}
  BY <1>1, StoredBlocks DEF Blocks
<1>4. ASSUME NEW r \in RowsOf(v), InBounds(r)
      PROVE  r \in UNION Blocks(v)
  <2>1. PICK i \in DOMAIN Rowids[v] : r = Rowids[v][i]
    BY DEF RowsOf
  <2>2. r \in StoredBlock(v, i)
    BY <1>1, <2>1, StoredBlocks
  <2>3. OverlapsBounds(StoredBlock(v, i))
    BY <1>4, <2>2 DEF OverlapsBounds, InBounds
  <2> QED
    BY <2>2, <2>3 DEF Blocks
<1> QED
  BY <1>2, <1>3, <1>4

\* Taking a block away leaves the other blocks, and their rows.
LEMMA BlockTaken ==
    ASSUME TypeOK, BlocksOK, NEW B \in blocks, blocks' = blocks \ {B}
    PROVE  /\ Rest' \cap B = {} /\ Rest = Rest' \cup B
           /\ Rest \subseteq AllRows /\ B \subseteq AllRows
           /\ Cardinality(Rest) = Cardinality(Rest') + Cardinality(B)
           /\ Cardinality(Rest') \in Nat /\ Cardinality(B) \in Nat /\ Cardinality(B) > 0
<1>1. Rest' \cap B = {} /\ Rest = Rest' \cup B
  BY DEF BlocksOK, Rest
<1>2. Rest \subseteq AllRows /\ B \subseteq AllRows /\ Rest' \subseteq AllRows
  BY <1>1 DEF TypeOK, Rest
<1>3. /\ IsFiniteSet(B) /\ Cardinality(B) \in Nat
      /\ IsFiniteSet(Rest') /\ Cardinality(Rest') \in Nat
  BY <1>2, RowsFinite
<1>4. Cardinality(Rest' \cup B) = Cardinality(Rest') + Cardinality(B) - Cardinality(Rest' \cap B)
  BY <1>3, FS_Union
<1>5. Cardinality(Rest' \cap B) = 0
  BY <1>1, FS_EmptySet
<1>6. Cardinality(B) # 0
  BY <1>3, FS_EmptySet DEF BlocksOK
<1>7. Cardinality(Rest) = Cardinality(Rest') + Cardinality(B)
  BY <1>1, <1>3, <1>4, <1>5
<1> QED
  BY <1>1, <1>2, <1>3, <1>6, <1>7

----------------------------------------------------------------------------
(* Adding. *)

\* The limits of the inversion are rows of the shard.
LEMMA SizesAre ==
    /\ NumRows \in Nat \ {0} /\ WordBits \in Nat \ {0} /\ SplitWords \in Nat \ {0}
    /\ IntMax \in Nat /\ AllRows = 0 .. NumRows - 1 /\ AllRows \subseteq Nat
BY SizesAssumption DEF AllRows

\* Words that come later start later.
LEMMA WordsGrow ==
    \A a, b \in Nat : a <= b => /\ a * WordBits \in Nat /\ b * WordBits \in Nat
                              /\ a * WordBits <= b * WordBits
<1> SUFFICES ASSUME NEW a \in Nat, NEW b \in Nat, a <= b
             PROVE  /\ a * WordBits \in Nat /\ b * WordBits \in Nat
                    /\ a * WordBits <= b * WordBits
  OBVIOUS
<1>1. WordBits \in Nat
  BY SizesAre
<1>2. a * WordBits \in Nat /\ b * WordBits \in Nat
  BY <1>1
<1>3. a < b => a * WordBits + WordBits <= b * WordBits
  BY <1>1, WordStride
<1> QED
  BY <1>1, <1>2, <1>3

\* Every row has its bit.
LEMMA RowsHaveBits ==
    AllRows \subseteq 0 .. (Word(NumRows - 1) + 1) * WordBits - 1
<1> SUFFICES ASSUME NEW r \in AllRows PROVE r \in 0 .. (Word(NumRows - 1) + 1) * WordBits - 1
  OBVIOUS
<1>1. r \in Nat /\ NumRows - 1 \in Nat /\ r <= NumRows - 1
  BY SizesAre
<1>2. Word(r) <= Word(NumRows - 1) /\ Word(r) \in Nat /\ Word(NumRows - 1) \in Nat
  BY <1>1, WordsAscend, WordIs
<1> DEFINE k == Word(NumRows - 1) + 1
<1>3. k \in Nat /\ Word(r) < k
  BY <1>2
<1>4. k * WordBits \in Nat /\ r < k * WordBits
  <2> HIDE DEF k
  <2> QED
    BY <1>1, <1>3, WordBefore
<1> HIDE DEF k
<1>5. r \in 0 .. k * WordBits - 1
  BY <1>1, <1>4
<1> QED
  BY <1>5 DEF k

\* Rows wanted are rows of the shard.
LEMMA WantedAreRows ==
    ASSUME QueryOK PROVE Wanted \subseteq AllRows /\ IsFiniteSet(Wanted)
<1>1. Wanted \subseteq AllRows
  BY MatchedAreRows DEF Wanted
<1> QED
  BY <1>1, RowsFinite

\* Bits that are rows wanted are finitely many.
LEMMA BitsFinite ==
    ASSUME QueryOK, OnlyWanted PROVE IsFiniteSet(bits) /\ Cardinality(bits) \in Nat
BY WantedAreRows, FS_Subset, FS_CardinalityType DEF OnlyWanted

\* A new iterator satisfies the invariant.
LEMMA Initially == Init => IInv /\ Stream!Init
<1> SUFFICES ASSUME Init PROVE IInv /\ Stream!Init
  OBVIOUS
<1>1. QueryOK
  <2>1. /\ query.reader \in {"values", "range"} /\ query.exclude \in BOOLEAN
        /\ query.bounds \in Bounds \cup {NoBounds}
        /\ query.cutoff \in Cutoffs \cup {NoCutoff}
        /\ query.matched \in SUBSET Value
    BY DEF Init
  <2> QED
    BY <2>1 DEF Init, QueryOK
<1>2. rowsLeft \in Nat
  <2>1. HasCutoff => query.cutoff \in Cutoffs
    BY <1>1 DEF QueryOK, HasCutoff
  <2> QED
    BY <2>1, SizesAssumption DEF Init
<1>3. TypeOK
  <2>1. size \in 1 .. NumRows
    BY SizesAre DEF Init
  <2>2. /\ split \in BOOLEAN /\ fetching \in BOOLEAN /\ ended \in BOOLEAN
        /\ todo \subseteq query.matched /\ blocks \subseteq SUBSET AllRows
        /\ bits \subseteq 0 .. (Word(NumRows - 1) + 1) * WordBits - 1
        /\ returned \subseteq Nat
    BY DEF Init
  <2>3. {rowsLeft, index, hint} \subseteq Nat /\ front \in Nat \cup {-1}
    BY <1>2 DEF Init
  <2> QED
    BY <2>1, <2>2, <2>3 DEF TypeOK
<1>4. BlocksOK /\ OnlyWanted /\ FullSize
  BY DEF Init, BlocksOK, OnlyWanted, FullSize
<1>5. NoneMissing
  BY DEF Init, NoneMissing, Wanted, MatchedRows, RestOf
<1>6. RoomForRest
  <2> SUFFICES ASSUME RowsFit, ~HasCutoff
               PROVE  Cardinality(Rest) + Cardinality(PairsOf(todo)) <= rowsLeft
    BY DEF RoomForRest
  <2>1. Rest = {} /\ Cardinality(Rest) = 0
    BY FS_EmptySet DEF Init, Rest
  <2>2. rowsLeft = IntMax /\ todo \subseteq Value
    BY <1>1 DEF Init, QueryOK
  <2>3. PairsOf(todo) \subseteq PairsOf(Value)
    BY <2>2 DEF PairsOf
  <2>4. Cardinality(PairsOf(todo)) <= Cardinality(PairsOf(Value))
    BY <2>3, PairsFinite, FS_Subset
  <2>5. Cardinality(PairsOf(Value)) <= IntMax
    BY DEF RowsFit, PairsOf
  <2>6. Cardinality(PairsOf(todo)) \in Nat /\ Cardinality(PairsOf(Value)) \in Nat /\ IntMax \in Nat
    BY <2>2, PairsFinite, SizesAre
  <2> QED
    BY <2>1, <2>2, <2>4, <2>5, <2>6
<1>7. AddingInv
  BY <1>4, <1>5, <1>6 DEF Init, AddingInv
<1>8. CutoffShared
  <2> SUFFICES ASSUME HasCutoff PROVE Cardinality(bits) + rowsLeft <= query.cutoff
    BY DEF CutoffShared
  <2>1. Cardinality(bits) = 0 /\ rowsLeft = query.cutoff
    BY FS_EmptySet DEF Init
  <2> QED
    BY <1>2, <2>1
<1>9. AnswerInv /\ ReadingInv
  BY DEF Init, AnswerInv, ExactAnswer, NoForeignRow, ReadingInv
<1>10. Stream!Init
  BY DEF Init, Stream!Init, Owed
<1> QED
  BY <1>1, <1>3, <1>7, <1>8, <1>9, <1>10 DEF IInv

\* A step of the stream or none.
StreamStep == Stream!Next \/ UNCHANGED Stream!streamVars

\* While the bitmap is built nothing is owed, and the reader's state stays.
LEMMA AddingStutters ==
    ASSUME IInv, ~fetching, ~fetching', UNCHANGED reading
    PROVE  /\ StreamStep /\ AnswerInv' /\ ReadingInv'
           /\ index' = 0 /\ hint' = 0 /\ returned' = {} /\ front' = 0 /\ ended' = FALSE
<1>1. /\ index' = index /\ hint' = hint /\ returned' = returned /\ front' = front /\ ended' = ended
      /\ index = 0 /\ hint = 0 /\ returned = {} /\ front = 0 /\ ended = FALSE
  BY DEF IInv, AddingInv, reading
<1>2. Owed' = Owed
  BY DEF Owed
<1>3. StreamStep
  BY <1>1, <1>2 DEF StreamStep, Stream!streamVars
<1>4. AnswerInv' /\ ReadingInv'
  BY DEF AnswerInv, ExactAnswer, NoForeignRow, ReadingInv
<1> QED
  BY <1>1, <1>3, <1>4

\* Everything wanted of a value is in the blocks delivered for it, and these
\* hold at most as many rows as the value has.
LEMMA BeginValueStep == IInv /\ BeginValue => IInv' /\ StreamStep
<1> SUFFICES ASSUME IInv, BeginValue PROVE IInv' /\ StreamStep
  OBVIOUS
<1>1. /\ TypeOK /\ QueryOK /\ BlocksOK /\ OnlyWanted /\ FullSize /\ NoneMissing /\ RoomForRest
      /\ CutoffShared /\ ~fetching /\ blocks = {}
      /\ query' = query /\ split' = split /\ bits' = bits /\ size' = size
      /\ rowsLeft' = rowsLeft /\ fetching' = fetching /\ UNCHANGED reading
  BY DEF IInv, AddingInv, BeginValue
<1>2. PICK v \in todo : todo' = todo \ {v} /\ blocks' = Blocks(v)
  BY DEF BeginValue
<1>3. v \in query.matched /\ v \in Value /\ todo \subseteq Value /\ todo' \subseteq query.matched
  BY <1>1, <1>2 DEF TypeOK, QueryOK
<1>4. /\ StreamStep /\ AnswerInv' /\ ReadingInv'
      /\ index' = 0 /\ hint' = 0 /\ returned' = {} /\ front' = 0 /\ ended' = FALSE
  BY <1>1, AddingStutters
<1>5. /\ \A B \in Blocks(v) : B # {} /\ B \subseteq RowsOf(v)
      /\ \A B, C \in Blocks(v) : B = C \/ B \cap C = {}
      /\ \A r \in RowsOf(v) : InBounds(r) => r \in UNION Blocks(v)
  BY <1>1, <1>3, BlocksOfValue
<1>6. RowsOf(v) \subseteq AllRows /\ RowsOf(v) \subseteq MatchedRows
  BY <1>1, <1>3, RowsOfValue, MatchedAreRows
<1>7. /\ HasCutoff' = HasCutoff /\ WasCutoffHit' = WasCutoffHit
      /\ MatchedRows' = MatchedRows /\ Wanted' = Wanted
  BY <1>1 DEF HasCutoff, WasCutoffHit, MatchedRows, Wanted, InBounds
<1>8. TypeOK'
  <2>1. blocks' \subseteq SUBSET AllRows
    BY <1>2, <1>5, <1>6
  <2>2. index' \in Nat /\ hint' \in Nat /\ front' \in Nat /\ returned' \subseteq Nat /\ ended' \in BOOLEAN
    BY <1>4
  <2>3. /\ split' \in BOOLEAN /\ fetching' \in BOOLEAN
        /\ bits' \subseteq 0 .. (Word(NumRows - 1) + 1) * WordBits - 1
        /\ size' \in 1 .. NumRows /\ rowsLeft' \in Nat /\ todo' \subseteq query'.matched
    BY <1>1, <1>3 DEF TypeOK
  <2> QED
    BY <2>1, <2>2, <2>3 DEF TypeOK
<1>9. QueryOK' /\ OnlyWanted' /\ FullSize' /\ CutoffShared'
  BY <1>1, <1>7 DEF QueryOK, OnlyWanted, FullSize, CutoffShared
<1>10. BlocksOK'
  BY <1>2, <1>5, <1>6, <1>7 DEF BlocksOK
<1>11. NoneMissing'
  <2> SUFFICES ASSUME RowsFit, ~WasCutoffHit, NEW r \in Wanted
               PROVE  r \in bits' \cup Rest' \cup RestOf(todo')
    BY <1>7 DEF NoneMissing
  <2>1. r \in bits \/ r \in RestOf(todo)
    BY <1>1 DEF NoneMissing, Rest
  <2>2. RestOf(todo) = RestOf(todo') \cup RowsOf(v)
    BY <1>2 DEF RestOf
  <2>3. r \in RowsOf(v) => r \in Rest'
    BY <1>2, <1>5 DEF Wanted, Rest
  <2> QED
    BY <1>1, <2>1, <2>2, <2>3
<1>12. RoomForRest'
  <2> SUFFICES ASSUME RowsFit, ~HasCutoff
               PROVE  Cardinality(Rest') + Cardinality(PairsOf(todo')) <= rowsLeft'
    BY <1>7 DEF RoomForRest
  <2>1. Cardinality(Rest) = 0
    BY <1>1, FS_EmptySet DEF Rest
  <2>2. Cardinality(PairsOf(todo)) = Cardinality(PairsOf(todo')) + Cardinality(RowsOf(v))
    BY <1>2, <1>3, PairsSplit
  <2>3. Cardinality(Rest) + Cardinality(PairsOf(todo)) <= rowsLeft /\ rowsLeft \in Nat
    BY <1>1 DEF RoomForRest, TypeOK
  <2>4. Rest' \subseteq RowsOf(v)
    BY <1>2, <1>5 DEF Rest
  <2>5. /\ Cardinality(Rest') \in Nat /\ Cardinality(RowsOf(v)) \in Nat
        /\ Cardinality(Rest') <= Cardinality(RowsOf(v))
    BY <2>4, <1>3, RowsOfValue, FS_Subset, FS_CardinalityType
  <2>6. Cardinality(PairsOf(todo')) \in Nat
    BY <1>2, <1>3, PairsFinite
  <2>7. Cardinality(RowsOf(v)) + Cardinality(PairsOf(todo')) <= rowsLeft
    BY <2>1, <2>2, <2>3, <2>5, <2>6
  <2> QED
    BY <1>1, <2>3, <2>5, <2>6, <2>7
<1>13. AddingInv'
  BY <1>4, <1>9, <1>10, <1>11, <1>12 DEF AddingInv
<1> QED
  BY <1>4, <1>8, <1>9, <1>13 DEF IInv

\* Counting a block that is taken whole.
LEMMA RoomLeft ==
    ASSUME NEW all \in Nat, NEW rest \in Nat, NEW block \in Nat, NEW few \in Nat,
           NEW pairs \in Nat, NEW left \in Nat,
           all = rest + block, few <= block, all + pairs <= left
    PROVE  few <= left /\ rest + pairs <= left - few
OBVIOUS

\* Without a cutoff a block is taken whole, and so it is with one that is not
\* hit by it; a cutoff that cuts a block is hit.
LEMMA AddBlockStep == IInv /\ AddBlock => IInv' /\ StreamStep
<1> SUFFICES ASSUME IInv, AddBlock PROVE IInv' /\ StreamStep
  OBVIOUS
<1>1. /\ TypeOK /\ QueryOK /\ BlocksOK /\ OnlyWanted /\ FullSize /\ NoneMissing /\ RoomForRest
      /\ CutoffShared /\ ~fetching /\ rowsLeft > 0
      /\ query' = query /\ split' = split /\ todo' = todo
      /\ fetching' = fetching /\ UNCHANGED reading
  BY DEF IInv, AddingInv, AddBlock
<1>2. PICK B \in blocks :
          \E rows \in {Trimmed(B)} : \E taken \in {Lowest(rows, rowsLeft)} :
              /\ blocks' = blocks \ {B}
              /\ bits' = bits \cup taken
              /\ rowsLeft' = rowsLeft - Cardinality(taken)
              /\ \/ ~(HasCutoff /\ taken # rows) /\ UNCHANGED size
                 \/ /\ HasCutoff /\ taken # rows
                    /\ IF split THEN UNCHANGED size
                       ELSE \E last \in taken : (\A r \in taken : r <= last) /\ size' = last + 1
  BY DEF AddBlock
<1> DEFINE rows == Trimmed(B)
           taken == Lowest(rows, rowsLeft)
<1>3. /\ blocks' = blocks \ {B} /\ bits' = bits \cup taken
      /\ rowsLeft' = rowsLeft - Cardinality(taken)
      /\ size' = size \/ (HasCutoff /\ taken # rows /\ \E last \in taken : size' = last + 1)
  BY <1>2
<1>4. /\ StreamStep /\ AnswerInv' /\ ReadingInv'
      /\ index' = 0 /\ hint' = 0 /\ returned' = {} /\ front' = 0 /\ ended' = FALSE
  BY <1>1, AddingStutters
<1>5. /\ HasCutoff' = HasCutoff /\ MatchedRows' = MatchedRows /\ Wanted' = Wanted
      /\ WasCutoffHit' = (HasCutoff /\ rowsLeft' = 0) /\ ~WasCutoffHit
  BY <1>1 DEF HasCutoff, WasCutoffHit, MatchedRows, Wanted, InBounds
<1>6. /\ Rest' \cap B = {} /\ Rest = Rest' \cup B /\ B \subseteq AllRows
      /\ Cardinality(Rest) = Cardinality(Rest') + Cardinality(B)
      /\ Cardinality(Rest') \in Nat /\ Cardinality(B) \in Nat /\ Cardinality(Rest) \in Nat
  <2>1. Rest \subseteq AllRows /\ Cardinality(Rest) = Cardinality(Rest') + Cardinality(B)
    BY <1>1, <1>3, BlockTaken
  <2>2. Cardinality(Rest) \in Nat
    BY <2>1, RowsFinite
  <2> QED
    BY <1>1, <1>3, <2>2, BlockTaken
<1>7. rows \subseteq B /\ rows \subseteq Wanted /\ rows \in SUBSET AllRows
  <2>1. rows \subseteq B
    BY DEF Trimmed
  <2>2. rows \subseteq Wanted
    BY <1>1 DEF Trimmed, BlocksOK, Wanted
  <2> QED
    BY <1>6, <2>1, <2>2
<1>8. /\ taken \subseteq rows /\ Cardinality(taken) \in Nat /\ Cardinality(taken) <= rowsLeft
      /\ taken # rows => Cardinality(taken) = rowsLeft
      /\ Cardinality(rows) <= rowsLeft => taken = rows
      /\ Cardinality(taken) <= Cardinality(rows) /\ rowsLeft \in Nat
  <2>1. rowsLeft \in Nat
    BY <1>1 DEF TypeOK
  <2> HIDE DEF rows
  <2> QED
    BY <1>7, <2>1, LowestIs
<1>9. Cardinality(rows) <= Cardinality(B) /\ Cardinality(rows) \in Nat
  <2>1. IsFiniteSet(B)
    BY <1>6, RowsFinite
  <2> HIDE DEF rows
  <2> QED
    BY <1>7, <2>1, FS_Subset, FS_CardinalityType
<1>10. rowsLeft' \in Nat /\ (HasCutoff /\ taken # rows => rowsLeft' = 0)
  <2> DEFINE n == Cardinality(taken)
  <2>1. /\ n \in Nat /\ n <= rowsLeft /\ (taken # rows => n = rowsLeft) /\ rowsLeft \in Nat
        /\ rowsLeft' = rowsLeft - n
    BY <1>3, <1>8
  <2> HIDE DEF n, taken, rows
  <2> QED
    BY <2>1
<1> HIDE DEF rows, taken
<1>11. RowsFit /\ ~HasCutoff =>
           /\ taken = rows
           /\ Cardinality(Rest') + Cardinality(PairsOf(todo)) <= rowsLeft'
  <2> SUFFICES ASSUME RowsFit, ~HasCutoff
               PROVE  /\ taken = rows
                      /\ Cardinality(Rest') + Cardinality(PairsOf(todo)) <= rowsLeft'
    OBVIOUS
  <2>1. Cardinality(Rest) + Cardinality(PairsOf(todo)) <= rowsLeft
    BY <1>1 DEF RoomForRest
  <2>2. Cardinality(PairsOf(todo)) \in Nat
    <3>1. todo \subseteq Value
      BY <1>1 DEF TypeOK, QueryOK
    <3> QED
      BY <3>1, PairsFinite
  <2>3. Cardinality(rows) <= rowsLeft
    BY <1>6, <1>8, <1>9, <2>1, <2>2, RoomLeft
  <2>4. taken = rows
    BY <1>8, <2>3
  <2>5. Cardinality(Rest') + Cardinality(PairsOf(todo)) <= rowsLeft - Cardinality(rows)
    BY <1>6, <1>8, <1>9, <2>1, <2>2, RoomLeft
  <2> QED
    BY <1>3, <2>4, <2>5
<1>12. TypeOK'
  <2>1. index' \in Nat /\ hint' \in Nat /\ front' \in Nat /\ returned' \subseteq Nat /\ ended' \in BOOLEAN
    BY <1>4
  <2>2. /\ split' \in BOOLEAN /\ fetching' \in BOOLEAN /\ todo' \subseteq query'.matched
        /\ blocks' \subseteq SUBSET AllRows
    BY <1>1, <1>3 DEF TypeOK
  <2>3. bits' \subseteq 0 .. (Word(NumRows - 1) + 1) * WordBits - 1
    <3>1. taken \subseteq AllRows
      BY <1>7, <1>8
    <3>2. bits \subseteq 0 .. (Word(NumRows - 1) + 1) * WordBits - 1
      BY <1>1 DEF TypeOK
    <3> QED
      BY <1>3, <3>1, <3>2, RowsHaveBits, Zenon
  <2>4. size' \in 1 .. NumRows
    <3>1. size \in 1 .. NumRows
      BY <1>1 DEF TypeOK
    <3>2. \A last \in taken : last + 1 \in 1 .. NumRows
      <4>1. \A last \in taken : last \in AllRows
        BY <1>7, <1>8
      <4>2. \A last \in AllRows : last + 1 \in 1 .. NumRows
        BY SizesAre
      <4> QED
        BY <4>1, <4>2
    <3> QED
      BY <1>3, <3>1, <3>2
  <2> QED
    BY <1>10, <2>1, <2>2, <2>3, <2>4 DEF TypeOK
<1>13. QueryOK' /\ OnlyWanted'
  <2>1. QueryOK'
    BY <1>1 DEF QueryOK
  <2>2. bits' \subseteq Wanted
    BY <1>1, <1>3, <1>7, <1>8 DEF OnlyWanted
  <2> QED
    BY <1>5, <2>1, <2>2 DEF OnlyWanted
<1>14. FullSize'
  BY <1>1, <1>3, <1>5, <1>10 DEF FullSize
<1>15. BlocksOK'
  <2>1. \A C \in blocks' : C \in blocks
    BY <1>3
  <2> QED
    BY <1>1, <1>5, <2>1 DEF BlocksOK
<1>16. NoneMissing'
  <2> SUFFICES ASSUME RowsFit, ~WasCutoffHit', NEW r \in Wanted
               PROVE  r \in bits' \cup Rest' \cup RestOf(todo')
    BY <1>5 DEF NoneMissing
  <2>1. taken = rows
    <3>1. HasCutoff => rowsLeft' # 0
      BY <1>5
    <3> QED
      BY <1>10, <1>11, <3>1
  <2>2. r \in bits \cup Rest \cup RestOf(todo)
    BY <1>1, <1>5 DEF NoneMissing
  <2>3. r \in B => r \in rows
    BY DEF Wanted, Trimmed, rows
  <2>4. r \in Rest => r \in Rest' \/ r \in rows
    BY <1>6, <2>3
  <2>5. RestOf(todo') = RestOf(todo)
    BY <1>1
  <2> QED
    BY <1>3, <2>1, <2>2, <2>4, <2>5
<1>17. RoomForRest'
  BY <1>1, <1>5, <1>11 DEF RoomForRest
<1>18. CutoffShared'
  <2> SUFFICES ASSUME HasCutoff PROVE Cardinality(bits') + rowsLeft' <= query'.cutoff
    BY <1>5 DEF CutoffShared
  <2>1. Cardinality(bits) + rowsLeft <= query.cutoff
    BY <1>1 DEF CutoffShared
  <2>2. query.cutoff \in Nat
    BY <1>1, SizesAssumption DEF QueryOK, HasCutoff
  <2>3. IsFiniteSet(bits) /\ Cardinality(bits) \in Nat
    BY <1>1, BitsFinite
  <2>4. IsFiniteSet(taken)
    <3>1. taken \subseteq AllRows
      BY <1>7, <1>8
    <3> QED
      BY <3>1, RowsFinite
  <2>5. /\ Cardinality(bits') = Cardinality(bits) + Cardinality(taken) - Cardinality(bits \cap taken)
        /\ Cardinality(bits \cap taken) \in Nat
    BY <1>3, <2>3, <2>4, FS_Union, FS_Intersection, FS_CardinalityType
  <2>6. Cardinality(bits') + rowsLeft' <= Cardinality(bits) + rowsLeft
    BY <1>3, <1>8, <2>3, <2>5
  <2>7. Cardinality(bits') \in Int /\ rowsLeft' \in Int
    BY <1>8, <1>10, <2>3, <2>5
  <2>8. query' = query
    BY <1>1
  <2> QED
    BY <1>8, <2>1, <2>2, <2>3, <2>6, <2>7, <2>8
<1>19. AddingInv'
  BY <1>4, <1>13, <1>14, <1>15, <1>16, <1>17 DEF AddingInv
<1> QED
  BY <1>4, <1>12, <1>13, <1>18, <1>19 DEF IInv

\* Blocks are dropped only when the cutoff is hit: without one there is room.
LEMMA AddStopsStep == IInv /\ AddStops => IInv' /\ StreamStep
<1> SUFFICES ASSUME IInv, AddStops PROVE IInv' /\ StreamStep
  OBVIOUS
<1>1. /\ TypeOK /\ QueryOK /\ BlocksOK /\ OnlyWanted /\ FullSize /\ NoneMissing /\ RoomForRest
      /\ CutoffShared /\ ~fetching /\ rowsLeft = 0 /\ blocks # {} /\ blocks' = {}
      /\ query' = query /\ split' = split /\ todo' = todo /\ bits' = bits /\ size' = size
      /\ rowsLeft' = rowsLeft /\ fetching' = fetching /\ UNCHANGED reading
  BY DEF IInv, AddingInv, AddStops
<1>2. /\ StreamStep /\ AnswerInv' /\ ReadingInv'
      /\ index' = 0 /\ hint' = 0 /\ returned' = {} /\ front' = 0 /\ ended' = FALSE
  BY <1>1, AddingStutters
<1>3. /\ HasCutoff' = HasCutoff /\ MatchedRows' = MatchedRows /\ Wanted' = Wanted
      /\ WasCutoffHit' = WasCutoffHit
  BY <1>1 DEF HasCutoff, WasCutoffHit, MatchedRows, Wanted, InBounds
<1>4. RowsFit => HasCutoff /\ WasCutoffHit
  <2> SUFFICES ASSUME RowsFit, ~HasCutoff PROVE FALSE
    BY <1>1 DEF WasCutoffHit
  <2>1. Cardinality(Rest) + Cardinality(PairsOf(todo)) <= 0
    BY <1>1 DEF RoomForRest
  <2>2. Cardinality(PairsOf(todo)) \in Nat
    <3>1. todo \subseteq Value
      BY <1>1 DEF TypeOK, QueryOK
    <3> QED
      BY <3>1, PairsFinite
  <2>3. IsFiniteSet(Rest) /\ Cardinality(Rest) \in Nat
    <3>1. Rest \subseteq AllRows
      BY <1>1 DEF TypeOK, Rest
    <3> QED
      BY <3>1, RowsFinite
  <2>4. Rest # {}
    BY <1>1 DEF Rest, BlocksOK
  <2>5. Cardinality(Rest) # 0
    BY <2>3, <2>4, FS_EmptySet
  <2> QED
    BY <2>1, <2>2, <2>3, <2>5
<1>5. TypeOK'
  <2>1. index' \in Nat /\ hint' \in Nat /\ front' \in Nat /\ returned' \subseteq Nat /\ ended' \in BOOLEAN
    BY <1>2
  <2> QED
    BY <1>1, <2>1 DEF TypeOK
<1>6. QueryOK' /\ OnlyWanted' /\ FullSize' /\ CutoffShared'
  BY <1>1, <1>3 DEF QueryOK, OnlyWanted, FullSize, CutoffShared
<1>7. BlocksOK' /\ NoneMissing' /\ RoomForRest'
  BY <1>1, <1>3, <1>4 DEF BlocksOK, NoneMissing, RoomForRest
<1>8. AddingInv'
  BY <1>2, <1>6, <1>7 DEF AddingInv
<1> QED
  BY <1>2, <1>5, <1>6, <1>8 DEF IInv

----------------------------------------------------------------------------
(* The inversion. *)

\* The bits it is delimited by are the first and the last row within the bounds.
LEMMA Delimits ==
    ASSUME TypeOK, QueryOK
    PROVE  /\ MinBit \in Nat /\ MaxBit \in Nat /\ MaxBit <= NumRows - 1
           /\ size = NumRows => {r \in AllRows : InBounds(r)} = MinBit .. MaxBit
<1>1. size \in Nat /\ size >= 1 /\ size <= NumRows /\ NumRows \in Nat /\ AllRows = 0 .. NumRows - 1
  BY SizesAre DEF TypeOK
<1>2. CASE query.bounds = NoBounds
  <2>1. MinBit = 0 /\ MaxBit = size - 1 /\ \A r : InBounds(r)
    BY <1>2 DEF MinBit, MaxBit, InBounds
  <2> QED
    BY <1>1, <2>1
<1>3. CASE query.bounds # NoBounds
  <2> DEFINE lo == query.bounds.min
             hi == query.bounds.max
  <2>1. lo \in AllRows /\ hi \in AllRows /\ lo <= hi
    BY <1>3, BoundsAre
  <2>2. MinBit = lo /\ MaxBit = hi /\ \A r : InBounds(r) <=> lo <= r /\ r <= hi
    BY <1>3 DEF MinBit, MaxBit, InBounds
  <2> HIDE DEF lo, hi
  <2>3. {r \in 0 .. NumRows - 1 : lo <= r /\ r <= hi} = lo .. hi
    BY <1>1, <2>1
  <2> QED
    BY <1>1, <2>1, <2>2, <2>3
<1> QED
  BY <1>2, <1>3

\* Only bits up to the word of the last row are flipped.
LEMMA FlippedHaveBits ==
    ASSUME TypeOK, QueryOK
    PROVE  Flipped \subseteq 0 .. (Word(NumRows - 1) + 1) * WordBits - 1
<1>1. /\ MaxBit \in Nat /\ MaxBit <= NumRows - 1 /\ NumRows - 1 \in Nat
  BY Delimits, SizesAre
<1> DEFINE a == Word(MaxBit) + 1
           z == Word(NumRows - 1) + 1
<1>2. a \in Nat /\ z \in Nat /\ a <= z
  <2>1. Word(MaxBit) \in Nat /\ Word(NumRows - 1) \in Nat /\ Word(MaxBit) <= Word(NumRows - 1)
    BY <1>1, WordIs, WordsAscend
  <2> QED
    BY <2>1
<1>3. a * WordBits \in Nat /\ z * WordBits \in Nat /\ a * WordBits <= z * WordBits
  <2> HIDE DEF a, z
  <2>1. a * WordBits \in Nat /\ z * WordBits \in Nat
    BY <1>2, SizesAre
  <2>2. a < z => a * WordBits + WordBits <= z * WordBits
    BY <1>2, SizesAre, WordStride
  <2> QED
    BY <1>2, <2>1, <2>2, SizesAre
<1>4. Flipped \subseteq (0 .. a * WordBits - 1) \cup bits
  BY DEF Flipped
<1>5. bits \subseteq 0 .. z * WordBits - 1
  BY DEF TypeOK
<1> HIDE DEF a, z
<1>6. 0 .. a * WordBits - 1 \subseteq 0 .. z * WordBits - 1
  BY <1>3
<1>7. Flipped \subseteq 0 .. z * WordBits - 1
  BY <1>4, <1>5, <1>6
<1> QED
  BY <1>7 DEF z

\* Words flipped and masked at both ends are the rows between the delimiters
\* that were not set.
LEMMA FlippedRows ==
    ASSUME TypeOK, QueryOK, bits \subseteq MinBit .. MaxBit, NEW b
    PROVE  /\ b \in Flipped
           /\ Word(b) = Word(MinBit) => MinBit <= b
           /\ Word(b) = Word(MaxBit) => b <= MaxBit
           <=> b \in MinBit .. MaxBit /\ b \notin bits
<1>1. MinBit \in Nat /\ MaxBit \in Nat
  BY Delimits
<1> DEFINE w == Word(MaxBit) + 1
<1>2. w \in Nat /\ Word(MaxBit) \in Nat /\ Word(MinBit) \in Nat
  BY <1>1, WordIs
<1>3. \A c \in Nat : /\ c \in 0 .. w * WordBits - 1 <=> Word(c) < w
                     /\ Word(c) \in Nat
  <2> TAKE c \in Nat
  <2> HIDE DEF w
  <2>1. w * WordBits \in Nat /\ (c < w * WordBits <=> Word(c) < w)
    BY <1>2, WordBefore
  <2>2. \A n \in Nat : c \in 0 .. n - 1 <=> c < n
    OBVIOUS
  <2>3. c \in 0 .. w * WordBits - 1 <=> c < w * WordBits
    BY <2>1, <2>2
  <2>4. Word(c) \in Nat
    BY WordIs
  <2> QED
    BY <2>1, <2>3, <2>4, Zenon
<1>4. \A c \in bits : ~(Word(c) < Word(MinBit) \/ Word(c) > Word(MaxBit))
  <2> TAKE c \in bits
  <2>1. c \in Nat /\ MinBit <= c /\ c <= MaxBit
    BY <1>1
  <2>2. Word(MinBit) <= Word(c) /\ Word(c) <= Word(MaxBit) /\ Word(c) \in Nat
    BY <1>1, <2>1, WordsAscend, WordIs
  <2> QED
    BY <1>2, <2>2
<1>5. Flipped = {c \in 0 .. w * WordBits - 1 : Word(MinBit) <= Word(c) /\ c \notin bits}
  BY <1>4 DEF Flipped
<1>6. 0 .. w * WordBits - 1 \subseteq Nat
  OBVIOUS
<1> HIDE DEF w
<1>7. CASE b \in Nat
  <2>1. /\ b \in 0 .. w * WordBits - 1 <=> Word(b) <= Word(MaxBit)
        /\ Word(b) \in Nat
    <3>1. b \in 0 .. w * WordBits - 1 <=> Word(b) < w
      BY <1>3, <1>7
    <3>2. Word(b) \in Nat
      BY <1>3, <1>7
    <3> QED
      BY <1>2, <3>1, <3>2 DEF w
  <2>2. /\ MinBit <= b => Word(MinBit) <= Word(b)
        /\ Word(MinBit) < Word(b) => MinBit < b
        /\ b <= MaxBit => Word(b) <= Word(MaxBit)
        /\ Word(b) < Word(MaxBit) => b < MaxBit
    BY <1>1, <1>7, WordsAscend
  <2>3. b \in Flipped <=> Word(b) <= Word(MaxBit) /\ Word(MinBit) <= Word(b) /\ b \notin bits
    BY <1>5, <2>1
  <2>4. b \in MinBit .. MaxBit <=> MinBit <= b /\ b <= MaxBit
    BY <1>1, <1>7
  <2> QED
    BY <1>1, <1>2, <1>7, <2>1, <2>2, <2>3, <2>4
<1>8. CASE b \notin Nat
  <2>1. b \notin Flipped
    BY <1>5, <1>6, <1>8, Zenon
  <2>2. b \notin MinBit .. MaxBit
    BY <1>1, <1>8
  <2> QED
    BY <2>1, <2>2
<1> QED
  BY <1>7, <1>8

\* The inversion leaves the rows within the bounds that were not set; all of
\* them unless its last shift is as wide as a word.
LEMMA Inverted ==
    ASSUME TypeOK, QueryOK, size = NumRows, bits \subseteq Wanted, Invert
    PROVE  /\ bits' \subseteq {r \in AllRows : InBounds(r) /\ r \notin bits}
           /\ ~ShiftUndefined => bits' = {r \in AllRows : InBounds(r) /\ r \notin bits}
<1>1. {r \in AllRows : InBounds(r)} = MinBit .. MaxBit
  BY Delimits
<1>2. bits \subseteq MinBit .. MaxBit
  BY <1>1, WantedAreRows DEF Wanted
<1>3. PICK kept \in (IF ShiftUndefined THEN BOOLEAN ELSE {TRUE}) :
          bits' = {b \in Flipped : /\ Word(b) = Word(MinBit) => MinBit <= b
                                   /\ Word(b) = Word(MaxBit) => b <= MaxBit /\ kept}
  BY DEF Invert
<1>4. bits' \subseteq {b \in Flipped : /\ Word(b) = Word(MinBit) => MinBit <= b
                                       /\ Word(b) = Word(MaxBit) => b <= MaxBit}
  BY <1>3
<1>5. ~ShiftUndefined =>
          bits' = {b \in Flipped : /\ Word(b) = Word(MinBit) => MinBit <= b
                                   /\ Word(b) = Word(MaxBit) => b <= MaxBit}
  BY <1>3
<1>6. {b \in Flipped : /\ Word(b) = Word(MinBit) => MinBit <= b
                       /\ Word(b) = Word(MaxBit) => b <= MaxBit}
      = {b \in MinBit .. MaxBit : b \notin bits}
  BY <1>2, FlippedRows
<1>7. {b \in MinBit .. MaxBit : b \notin bits} = {r \in AllRows : InBounds(r) /\ r \notin bits}
  BY <1>1
<1> QED
  BY <1>4, <1>5, <1>6, <1>7, Zenon

\* No row of the shard lies behind the words of a bitmap of full size.
LEMMA RowsVisible ==
    ASSUME size = NumRows, NEW r \in AllRows PROVE Word(r) < DataLen
<1>1. size \in Nat \ {0} /\ r \in Nat /\ size - 1 \in Nat /\ r <= size - 1
  BY SizesAre
<1>2. DataLen = Word(size - 1) + 1
  BY <1>1, WordsOf
<1>3. Word(r) <= Word(size - 1) /\ Word(r) \in Nat /\ Word(size - 1) \in Nat
  BY <1>1, WordsAscend, WordIs
<1> QED
  BY <1>2, <1>3

\* The bitmap is handed over: what it holds is the answer, and is owed.
LEMMA FinishAddingStep == IInv /\ FinishAdding => IInv' /\ StreamStep
<1> SUFFICES ASSUME IInv, FinishAdding PROVE IInv' /\ StreamStep
  OBVIOUS
<1>1. /\ TypeOK /\ QueryOK /\ BlocksOK /\ OnlyWanted /\ FullSize /\ NoneMissing /\ RoomForRest
      /\ CutoffShared /\ ~fetching /\ blocks = {}
      /\ todo = {} \/ WasCutoffHit
      /\ fetching' = TRUE
      /\ query' = query /\ split' = split /\ todo' = todo /\ blocks' = blocks
      /\ size' = size /\ rowsLeft' = rowsLeft
      /\ index' = index /\ hint' = hint /\ returned' = returned /\ front' = front /\ ended' = ended
      /\ index = 0 /\ hint = 0 /\ returned = {} /\ front = 0 /\ ended = FALSE
  BY DEF IInv, AddingInv, FinishAdding, reading
<1>2. IF query.exclude THEN Invert ELSE bits' = bits
  BY DEF FinishAdding
<1>3. /\ HasCutoff' = HasCutoff /\ WasCutoffHit' = WasCutoffHit /\ DataLen' = DataLen
      /\ ShiftUndefined' = ShiftUndefined /\ Answer' = Answer /\ MatchedRows' = MatchedRows
      /\ QueryOK'
  BY <1>1 DEF HasCutoff, WasCutoffHit, DataLen, ShiftUndefined, MaxBit, Answer, InBounds,
              MatchedRows, QueryOK
<1>4. Visible' = {b \in bits' : Word(b) < DataLen}
  BY <1>3 DEF Visible
<1>5. bits' \subseteq 0 .. (Word(NumRows - 1) + 1) * WordBits - 1
  <2>1. query.exclude => bits' \subseteq Flipped
    BY <1>2 DEF Invert
  <2>2. bits \subseteq 0 .. (Word(NumRows - 1) + 1) * WordBits - 1
    BY <1>1 DEF TypeOK
  <2> QED
    BY <1>1, <1>2, <2>1, <2>2, FlippedHaveBits, Zenon
<1>6. TypeOK'
  BY <1>1, <1>5 DEF TypeOK
<1>7. CutoffShared'
  BY <1>1, <1>2, <1>3 DEF CutoffShared
<1>8. AddingInv'
  BY <1>1 DEF AddingInv
<1>9. RowsFit /\ ~WasCutoffHit => bits = Wanted
  <2>1. WasCutoffHit \/ (Rest = {} /\ RestOf(todo) = {})
    BY <1>1 DEF Rest, RestOf
  <2> QED
    BY <1>1, <2>1 DEF NoneMissing, OnlyWanted
<1>10. ASSUME query.exclude PROVE AnswerInv'
  <2>1. ASSUME RowsFit, ~WasCutoffHit
        PROVE  /\ bits' \subseteq Answer
               /\ ~ShiftUndefined => bits' = Answer
    <3>1. size = NumRows /\ bits = Wanted
      BY <1>1, <1>9, <2>1 DEF FullSize
    <3>2. Answer = {r \in AllRows : InBounds(r) /\ r \notin bits}
      BY <1>10, <3>1 DEF Answer, Wanted
    <3>3. Invert /\ bits \subseteq Wanted
      BY <1>2, <1>10, <3>1
    <3> QED
      BY <1>1, <3>1, <3>2, <3>3, Inverted
  <2>2. ASSUME RowsFit, ~WasCutoffHit
        PROVE  /\ Visible' \subseteq Answer
               /\ ~ShiftUndefined => Visible' = Answer
    <3>1. size = NumRows /\ Answer \subseteq AllRows
      BY <1>1, <2>2 DEF FullSize, Answer
    <3> QED
      BY <1>4, <2>1, <2>2, <3>1, RowsVisible
  <2>3. AnswerInv'
    BY <1>1, <1>3, <1>10, <2>2 DEF AnswerInv, ExactAnswer, NoForeignRow
  <2> QED
    BY <2>3
<1>11. ASSUME ~query.exclude PROVE AnswerInv'
  <2>1. Answer = Wanted
    BY <1>1, <1>11, MatchedAreRows DEF Answer, Wanted
  <2>2. Visible' \subseteq Answer
    BY <1>1, <1>2, <1>4, <1>11, <2>1 DEF OnlyWanted
  <2>3. ASSUME RowsFit, ~WasCutoffHit PROVE Visible' = Answer
    <3>1. size = NumRows /\ bits' = Answer /\ Answer \subseteq AllRows
      BY <1>1, <1>2, <1>9, <1>11, <2>1, <2>3 DEF FullSize, Answer
    <3> QED
      BY <1>4, <3>1, RowsVisible
  <2>4. AnswerInv'
    BY <1>1, <1>3, <1>11, <2>2, <2>3 DEF AnswerInv, ExactAnswer, NoForeignRow
  <2> QED
    BY <2>4
<1>12. AnswerInv'
  BY <1>10, <1>11
<1>13. \A r \in Visible' : r \in Nat /\ Word(r) \in Nat
  <2>1. Visible' \subseteq bits' /\ bits' \subseteq Nat
    BY <1>4, <1>5
  <2> QED
    BY <2>1, WordIs
<1>14. Owed' = Visible'
  <2>1. Owed' = {r \in Visible' : r >= 0 /\ r \notin {}}
    BY <1>1 DEF Owed
  <2> QED
    BY <1>13, <2>1
<1>15. ReadingInv'
  <2>1. \A r \in Owed' : index' <= Word(r)
    BY <1>1, <1>13, <1>14
  <2>2. front' \in Nat /\ front' <= index' * WordBits
    BY <1>1, SizesAre
  <2> QED
    BY <1>1, <2>1, <2>2 DEF ReadingInv
<1>16. Stream!Restart
  <2>1. Owed' \in SUBSET (0 .. (Word(NumRows - 1) + 1) * WordBits - 1)
    BY <1>4, <1>5, <1>14
  <2> QED
    BY <1>1, <2>1 DEF Stream!Restart
<1> QED
  BY <1>3, <1>6, <1>7, <1>8, <1>12, <1>15, <1>16 DEF IInv, StreamStep, Stream!Next

----------------------------------------------------------------------------
(* Reading. *)

\* The bits that can be read are numbers below the end of the bitmap.
LEMMA VisibleBits ==
    ASSUME TypeOK
    PROVE  /\ Visible \subseteq Nat /\ Visible \subseteq bits /\ IsFiniteSet(Visible)
           /\ \A r \in Visible : Word(r) \in Nat /\ Word(r) < DataLen
           /\ DataLen \in Nat /\ DataLen <= size
           /\ \A j, k : /\ RowsInWords(j, k) \subseteq Visible
                        /\ IsFiniteSet(RowsInWords(j, k))
                        /\ Cardinality(RowsInWords(j, k)) \in Nat
                        /\ Cardinality(RowsInWords(j, k)) = 0 <=> RowsInWords(j, k) = {}
<1>1. Visible \subseteq Nat /\ Visible \subseteq bits
  <2> DEFINE z == (Word(NumRows - 1) + 1) * WordBits - 1
  <2>0. z \in Int
    <3>1. NumRows - 1 \in Nat
      BY SizesAre
    <3>2. Word(NumRows - 1) \in Nat /\ WordBits \in Nat
      BY <3>1, WordIs
    <3> QED
      BY <3>2
  <2>1. bits \subseteq 0 .. z
    BY DEF TypeOK
  <2> HIDE DEF z
  <2>2. 0 .. z \subseteq Nat
    BY <2>0
  <2> QED
    BY <2>1, <2>2 DEF Visible
<1>2. IsFiniteSet(Visible)
  <2> DEFINE z == (Word(NumRows - 1) + 1) * WordBits - 1
  <2>1. z \in Int
    <3>1. NumRows - 1 \in Nat
      BY SizesAre
    <3>2. Word(NumRows - 1) \in Nat /\ WordBits \in Nat
      BY <3>1, WordIs
    <3> QED
      BY <3>2
  <2>2. Visible \subseteq 0 .. z
    BY <1>1 DEF TypeOK
  <2> HIDE DEF z
  <2>3. IsFiniteSet(0 .. z)
    BY <2>1, FS_Interval
  <2> QED
    BY <2>2, <2>3, FS_Subset
<1>3. \A r \in Visible : Word(r) \in Nat /\ Word(r) < DataLen
  BY <1>1, WordIs DEF Visible
<1>4. DataLen \in Nat /\ DataLen <= size
  <2>1. size \in Nat \ {0}
    BY SizesAre DEF TypeOK
  <2> QED
    BY <2>1, WordsOf
<1>5. ASSUME NEW j, NEW k
      PROVE  /\ RowsInWords(j, k) \subseteq Visible
             /\ IsFiniteSet(RowsInWords(j, k))
             /\ Cardinality(RowsInWords(j, k)) \in Nat
             /\ Cardinality(RowsInWords(j, k)) = 0 <=> RowsInWords(j, k) = {}
  <2>1. RowsInWords(j, k) \subseteq Visible
    BY DEF RowsInWords
  <2>2. IsFiniteSet(RowsInWords(j, k))
    BY <1>2, <2>1, FS_Subset
  <2> QED
    BY <2>1, <2>2, FS_CardinalityType, FS_EmptySet
<1> QED
  BY <1>1, <1>2, <1>3, <1>4, <1>5

\* Fetch stops within reach of where it started, and finds nothing only when
\* nothing lies ahead.
LEMMA FetchesAhead ==
    ASSUME TypeOK
    PROVE  /\ FetchEnd \in Nat /\ index <= FetchEnd
           /\ RowsInWords(index, FetchEnd) = {} => \A r \in Visible : Word(r) < index
<1>1. /\ index \in Nat /\ DataLen \in Nat /\ SplitWords \in Nat \ {0}
  BY VisibleBits, SizesAre DEF TypeOK
<1> DEFINE ahead == RowsInWords(index, DataLen)
           first == CHOOSE b \in ahead : \A x \in ahead : b <= x
<1>2. ahead # {} => /\ first \in ahead /\ first \in Visible
                    /\ index <= Word(first) /\ Word(first) < DataLen /\ Word(first) \in Nat
  <2> SUFFICES ASSUME ahead # {}
               PROVE  /\ first \in ahead /\ first \in Visible
                      /\ index <= Word(first) /\ Word(first) < DataLen /\ Word(first) \in Nat
    OBVIOUS
  <2>1. ahead \subseteq Visible /\ ahead \subseteq Nat
    BY VisibleBits
  <2>2. \E b \in ahead : \A x \in ahead : b <= x
    <3> HIDE DEF ahead
    <3> QED
      BY <2>1, LeastNatural
  <2>3. first \in ahead
    BY <2>2
  <2>4. first \in Visible /\ index <= Word(first)
    <3> HIDE DEF first
    <3> QED
      BY <2>1, <2>3 DEF RowsInWords
  <2> HIDE DEF first, ahead
  <2> QED
    BY <2>3, <2>4, VisibleBits
<1>3. \A r \in Visible : index <= Word(r) => r \in ahead
  BY VisibleBits DEF RowsInWords
<1> DEFINE limit == FetchLimit
<1>4. /\ limit \in Nat /\ limit <= index + DataLen + SplitWords
      /\ ahead # {} => Word(first) < limit
  <2>1. CASE ~split \/ ahead = {}
    <3>1. limit = DataLen
      BY <2>1 DEF FetchLimit
    <3> HIDE DEF limit, ahead, first
    <3> QED
      BY <1>1, <1>2, <3>1
  <2>2. CASE split /\ ahead # {}
    <3>1. limit = (Word(first) \div SplitWords + 1) * SplitWords
      BY <2>2 DEF FetchLimit
    <3> HIDE DEF limit, ahead, first
    <3> DEFINE w == Word(first)
               q == w \div SplitWords
               m == w % SplitWords
    <3>2. w \in Nat /\ w < DataLen
      BY <1>2, <2>2
    <3>3. q \in Int /\ m \in 0 .. SplitWords - 1 /\ w = SplitWords * q + m
      <4> HIDE DEF w
      <4> QED
        BY <1>1, <3>2
    <3>4. (q + 1) * SplitWords = SplitWords * q + SplitWords /\ SplitWords * q \in Int
      <4> HIDE DEF q
      <4> QED
        BY <1>1, <3>3
    <3>5. limit = SplitWords * q + SplitWords
      BY <3>1, <3>4
    <3>6. w < limit /\ limit <= w + SplitWords /\ limit \in Int
      <4> DEFINE p == SplitWords * q
      <4>1. p \in Int /\ limit = p + SplitWords /\ w = p + m
        BY <3>3, <3>4, <3>5
      <4> HIDE DEF p, q, m, w
      <4> QED
        BY <1>1, <3>3, <4>1
    <3> HIDE DEF q, m
    <3>7. limit \in Nat /\ limit <= index + DataLen + SplitWords
      <4> HIDE DEF w
      <4> QED
        BY <1>1, <3>2, <3>6
    <3> QED
      BY <3>6, <3>7
  <2> QED
    BY <2>1, <2>2
<1> DEFINE far == index + DataLen + SplitWords
           Stops == {k \in index .. far : FetchStops(k)}
<1>5. far \in Nat /\ index <= far
  BY <1>1
<1>6. far \in Stops
  BY <1>4, <1>5 DEF FetchStops
<1>7. PICK e \in Stops : \A k \in Stops : e <= k
  <2>1. Stops \subseteq Nat /\ Stops # {}
    BY <1>1, <1>6
  <2> HIDE DEF Stops
  <2> QED
    BY <2>1, LeastNatural
<1>8. e \in index .. far /\ FetchStops(e) /\ \A j \in index .. e - 1 : ~FetchStops(j)
  <2>1. e \in index .. far /\ FetchStops(e)
    BY <1>7
  <2>2. ASSUME NEW j \in index .. e - 1 PROVE ~FetchStops(j)
    <3>1. j \in index .. far /\ j < e /\ e \in Nat /\ j \in Nat
      BY <1>1, <1>5, <2>1
    <3>2. j \in Stops => e <= j
      BY <1>7
    <3> QED
      BY <3>1, <3>2
  <2> QED
    BY <2>1, <2>2
<1>9. FetchEnd \in index .. far /\ FetchStops(FetchEnd)
  <2>1. \E k \in index .. far : FetchStops(k) /\ \A j \in index .. k - 1 : ~FetchStops(j)
    BY <1>8
  <2> HIDE DEF far
  <2>2. \E k \in index .. (index + DataLen + SplitWords) :
            FetchStops(k) /\ \A j \in index .. k - 1 : ~FetchStops(j)
    BY <2>1 DEF far
  <2> QED
    BY <2>2 DEF FetchEnd, far
<1> HIDE DEF far, Stops
<1>10. FetchEnd \in Nat /\ index <= FetchEnd
  BY <1>1, <1>5, <1>9
<1>11. ASSUME RowsInWords(index, FetchEnd) = {}, NEW r \in Visible PROVE Word(r) < index
  <2>0. Word(r) \in Nat
    BY VisibleBits
  <2> SUFFICES ASSUME index <= Word(r) PROVE FALSE
    BY <1>1, <2>0
  <2>1. Cardinality(RowsInWords(index, FetchEnd)) = 0
    BY <1>11, FS_EmptySet
  <2>2. ~(Cardinality(RowsInWords(index, FetchEnd)) >= ResultSize - WordBits)
    BY <2>1, SizesAssumption
  <2>3. FetchEnd >= limit
    BY <1>9, <2>2 DEF FetchStops
  <2>4. first \in Visible /\ index <= Word(first) /\ Word(first) < limit /\ Word(first) \in Nat
    BY <1>2, <1>3, <1>4
  <2> HIDE DEF limit, first, ahead
  <2>5. first \in RowsInWords(index, FetchEnd)
    BY <1>4, <1>10, <2>3, <2>4 DEF RowsInWords
  <2> QED
    BY <1>11, <2>5
<1> QED
  BY <1>10, <1>11

\* A row read lies in the words before m_iIndex afterwards, and above every row
\* read before.
LEMMA Deliver ==
    ASSUME TypeOK, ReadingInv, fetching, NEW B, B = RowsInWords(index, FetchEnd), B # {}, Hand(B),
           index' = FetchEnd, query' = query, split' = split, bits' = bits, size' = size,
           fetching' = fetching, hint' = hint
    PROVE  ReadingInv' /\ Stream!Deliver /\ front' \in Nat /\ returned' \subseteq Nat /\ ended' = ended
<1>1. /\ FetchEnd \in Nat /\ index <= FetchEnd /\ index \in Nat /\ hint \in Nat /\ ended \in BOOLEAN
      /\ front \in Nat /\ front <= index * WordBits
      /\ \A r \in Owed : index <= Word(r)
      /\ ended => \A r \in Visible : Word(r) < index
      /\ returned \subseteq Nat
  BY FetchesAhead DEF TypeOK, ReadingInv
<1>2. /\ returned' = returned \cup B /\ ended' = ended
      /\ \E last \in B : /\ \A r \in B : r <= last
                         /\ front' = IF \E r \in B : r < front THEN -1 ELSE last + 1
  BY DEF Hand
<1>3. PICK last \in B : /\ \A r \in B : r <= last
                        /\ front' = IF \E r \in B : r < front THEN -1 ELSE last + 1
  BY <1>2
<1>4. \A r \in Visible : r \in Nat /\ Word(r) \in Nat
  BY VisibleBits
<1>5. \A r : r \in B <=> r \in Visible /\ index <= Word(r) /\ Word(r) < FetchEnd
  BY DEF RowsInWords
<1>6. \A r \in B : r \in Nat /\ ~(r < front)
  <2> TAKE r \in B
  <2>1. r \in Nat /\ index <= Word(r) /\ Word(r) \in Nat
    BY <1>4, <1>5
  <2>2. index * WordBits \in Nat /\ ~(r < index * WordBits)
    BY <1>1, <2>1, WordBefore
  <2> QED
    BY <1>1, <2>1, <2>2
<1>7. front' = last + 1 /\ last \in Nat /\ front' \in Nat /\ last >= front
  <2>1. front' = last + 1
    BY <1>3, <1>6
  <2> QED
    BY <1>1, <1>3, <1>6, <2>1
<1>8. Visible' = Visible
  BY DEF Visible, DataLen
<1>9. Owed' = {r \in Visible : r >= hint /\ r \notin returned'}
  BY <1>8 DEF Owed
<1>10. Owed = {r \in Visible : r >= hint /\ r \notin returned}
  BY DEF Owed
<1>11. \A r \in Owed' : r \in Owed /\ FetchEnd <= Word(r)
  <2> TAKE r \in Owed'
  <2>1. r \in Owed /\ r \notin B /\ r \in Visible /\ Word(r) \in Nat
    BY <1>2, <1>4, <1>9, <1>10
  <2>2. index <= Word(r)
    BY <1>1, <2>1
  <2> QED
    BY <1>1, <1>5, <2>1, <2>2
<1>12. \A r \in Visible : FetchEnd <= Word(r) => last < r
  <2> TAKE r \in Visible
  <2>1. Word(last) < FetchEnd /\ Word(last) \in Nat /\ last \in Nat /\ r \in Nat /\ Word(r) \in Nat
    BY <1>3, <1>4, <1>5
  <2>2. Word(last) < Word(r) => last < r
    BY <2>1, WordsAscend
  <2> QED
    BY <1>1, <2>1, <2>2
<1>13. \A r \in Visible : Word(r) < FetchEnd => r \in B \/ Word(r) < index
  BY <1>1, <1>4, <1>5
<1>14. Owed' = {r \in Owed : r > last}
  <2>1. \A r \in Owed' : r \in Owed /\ r > last
    BY <1>4, <1>7, <1>9, <1>11, <1>12
  <2>2. ASSUME NEW r \in Owed, r > last PROVE r \in Owed'
    <3>1. r \notin B /\ r \in Visible /\ r \in Nat
      BY <1>3, <1>4, <1>6, <1>10, <2>2
    <3> QED
      BY <1>2, <1>9, <1>10, <3>1
  <2> QED
    BY <2>1, <2>2
<1>15. ~ended
  <2> SUFFICES ASSUME ended PROVE FALSE
    OBVIOUS
  <2>1. last \in Visible /\ index <= Word(last) /\ Word(last) \in Nat
    BY <1>3, <1>4, <1>5
  <2> QED
    BY <1>1, <2>1
<1>16. \A r \in Owed : r <= last => r >= front
  <2> SUFFICES ASSUME NEW r \in Owed PROVE r >= front
    OBVIOUS
  <2>1. r \in Visible /\ r \in Nat /\ Word(r) \in Nat /\ index <= Word(r)
    BY <1>1, <1>4, <1>10
  <2>2. index * WordBits \in Nat /\ ~(r < index * WordBits)
    BY <1>1, <2>1, WordBefore
  <2> QED
    BY <1>1, <2>1, <2>2
<1>17. last \in 0 .. (Word(NumRows - 1) + 1) * WordBits - 1
  <2>1. last \in bits
    BY <1>3, <1>5 DEF Visible
  <2> QED
    BY <2>1 DEF TypeOK
<1>18. Stream!Deliver
  BY <1>2, <1>7, <1>14, <1>15, <1>16, <1>17 DEF Stream!Deliver
<1>19. ReadingInv'
  <2>1. front' <= FetchEnd * WordBits
    <3>1. Word(last) < FetchEnd
      BY <1>3, <1>5
    <3>2. FetchEnd * WordBits \in Nat /\ last < FetchEnd * WordBits
      BY <1>1, <1>7, <3>1, WordBefore
    <3> QED
      BY <1>7, <3>2
  <2> QED
    BY <1>2, <1>7, <1>11, <1>15, <2>1 DEF ReadingInv
<1> QED
  BY <1>1, <1>2, <1>4, <1>5, <1>7, <1>18, <1>19

\* What reading leaves alone.
LEMMA ReadingKeeps ==
    ASSUME IInv, fetching, fetching' = fetching, query' = query, split' = split, UNCHANGED building,
           index' \in Nat, hint' \in Nat, returned' \subseteq Nat, front' \in Nat, ended' \in BOOLEAN,
           ReadingInv'
    PROVE  IInv'
<1>1. /\ todo' = todo /\ blocks' = blocks /\ bits' = bits /\ size' = size /\ rowsLeft' = rowsLeft
      /\ TypeOK /\ QueryOK /\ CutoffShared /\ AnswerInv
  BY DEF building, IInv
<1>2. TypeOK' /\ QueryOK'
  BY <1>1 DEF TypeOK, QueryOK
<1>3. AddingInv'
  BY DEF AddingInv
<1>4. CutoffShared'
  BY <1>1 DEF CutoffShared, HasCutoff
<1>5. AnswerInv'
  BY <1>1 DEF AnswerInv, ExactAnswer, NoForeignRow, WasCutoffHit, HasCutoff, ShiftUndefined, MaxBit,
              Visible, DataLen, Answer, InBounds, MatchedRows
<1> QED
  BY <1>2, <1>3, <1>4, <1>5 DEF IInv

\* A read delivers every row in the words it takes, or finds none left.
LEMMA GetNextRowIdBlockStep == IInv /\ GetNextRowIdBlock => IInv' /\ StreamStep
<1> SUFFICES ASSUME IInv, GetNextRowIdBlock PROVE IInv' /\ StreamStep
  OBVIOUS
<1> DEFINE B == RowsInWords(index, FetchEnd)
<1>1. /\ TypeOK /\ ReadingInv /\ fetching /\ Hand(B) /\ index' = FetchEnd
      /\ query' = query /\ split' = split /\ UNCHANGED building
      /\ fetching' = fetching /\ hint' = hint
  BY DEF IInv, GetNextRowIdBlock
<1>2. /\ bits' = bits /\ size' = size
      /\ FetchEnd \in Nat /\ index <= FetchEnd /\ index \in Nat /\ hint \in Nat /\ returned \subseteq Nat
      /\ front \in Nat /\ front <= index * WordBits /\ ended \in BOOLEAN
      /\ RowsInWords(index, FetchEnd) = {} => \A r \in Visible : Word(r) < index
      /\ \A r \in Owed : index <= Word(r)
  BY <1>1, FetchesAhead DEF building, TypeOK, ReadingInv
<1>3. CASE B # {}
  <2>1. ReadingInv' /\ Stream!Deliver /\ front' \in Nat /\ returned' \subseteq Nat /\ ended' = ended
    <3> HIDE DEF B
    <3> QED
      BY <1>1, <1>2, <1>3, Deliver DEF B
  <2>2. IInv'
    BY <1>1, <1>2, <2>1, ReadingKeeps
  <2> QED
    BY <2>1, <2>2 DEF StreamStep, Stream!Next
<1>4. CASE B = {}
  <2>1. ended' = TRUE /\ returned' = returned /\ front' = front
    BY <1>1, <1>4 DEF Hand
  <2>2. \A r \in Visible : Word(r) < index /\ Word(r) \in Nat
    BY <1>1, <1>2, <1>4, VisibleBits
  <2>3. Visible' = Visible
    BY <1>2 DEF Visible, DataLen
  <2>4. Owed = {}
    <3>1. Owed \subseteq Visible
      BY DEF Owed
    <3> QED
      BY <1>2, <2>2, <3>1
  <2>5. Owed' = Owed
    BY <1>1, <2>1, <2>3 DEF Owed
  <2>6. front' <= index' * WordBits
    <3>1. index = FetchEnd \/ index < FetchEnd
      BY <1>2
    <3>2. index < FetchEnd => index * WordBits + WordBits <= FetchEnd * WordBits
      BY <1>2, SizesAre, WordStride
    <3>3. index * WordBits \in Nat /\ FetchEnd * WordBits \in Nat /\ WordBits \in Nat
      BY <1>2, SizesAre
    <3> QED
      BY <1>1, <1>2, <2>1, <3>1, <3>2, <3>3
  <2>7. \A r \in Visible' : Word(r) < index'
    BY <1>1, <1>2, <2>2, <2>3
  <2>8. ReadingInv'
    BY <1>2, <2>1, <2>4, <2>5, <2>6, <2>7 DEF ReadingInv
  <2>9. IInv'
    BY <1>1, <1>2, <2>1, <2>8, ReadingKeeps
  <2>10. Stream!Exhaust
    BY <2>1, <2>4, <2>5 DEF Stream!Exhaust
  <2> QED
    BY <2>9, <2>10 DEF StreamStep, Stream!Next
<1> QED
  BY <1>3, <1>4

\* A hint waives the rows below it, and no others: it moves by whole words.
LEMMA HintRowIDStep == IInv /\ HintRowID => IInv' /\ StreamStep
<1> SUFFICES ASSUME IInv, HintRowID PROVE IInv' /\ StreamStep
  OBVIOUS
<1>1. /\ TypeOK /\ ReadingInv /\ fetching
      /\ query' = query /\ split' = split /\ UNCHANGED building
      /\ fetching' = fetching /\ returned' = returned /\ front' = front
  BY DEF IInv, HintRowID
<1>2. PICK r \in HintRow : /\ index' = IF Word(r) > index THEN Word(r) ELSE index
                           /\ hint' = IF r > hint THEN r ELSE hint
                           /\ ended' = (ended \/ index' >= size)
  BY DEF HintRowID
<1>3. /\ r \in Nat /\ Word(r) \in Nat /\ index \in Nat /\ hint \in Nat /\ size \in Nat
      /\ returned \subseteq Nat /\ front \in Nat /\ front <= index * WordBits /\ ended \in BOOLEAN
      /\ \A x \in Owed : index <= Word(x)
      /\ ended => \A x \in Visible : Word(x) < index
      /\ bits' = bits /\ size' = size
  <2>1. r \in Nat
    BY SizesAssumption
  <2>2. size \in Nat /\ bits' = bits /\ size' = size
    BY <1>1, SizesAre DEF building, TypeOK
  <2> QED
    BY <1>1, <2>1, <2>2, WordIs DEF TypeOK, ReadingInv
<1>4. /\ index' \in Nat /\ index <= index' /\ Word(r) <= index' /\ hint' \in Nat
      /\ index' = Word(r) \/ index' = index
  BY <1>2, <1>3
<1>5. Visible' = Visible /\ \A x \in Visible : x \in Nat /\ Word(x) \in Nat /\ Word(x) < DataLen
  BY <1>1, <1>3, VisibleBits DEF Visible, DataLen
<1>6. Owed' = {x \in Owed : x >= r}
  <2>1. Owed' = {x \in Visible : x >= hint' /\ x \notin returned}
    BY <1>1, <1>5 DEF Owed
  <2>2. Owed = {x \in Visible : x >= hint /\ x \notin returned}
    BY <1>1 DEF Owed
  <2>3. \A x \in Visible : x >= hint' <=> x >= hint /\ x >= r
    BY <1>2, <1>3, <1>5
  <2> QED
    BY <2>1, <2>2, <2>3
<1>7. \A x \in Owed' : index' <= Word(x)
  <2> TAKE x \in Owed'
  <2>1. x \in Owed /\ x >= r /\ x \in Nat /\ Word(x) \in Nat
    BY <1>5, <1>6 DEF Owed
  <2>2. Word(r) <= Word(x)
    BY <1>3, <2>1, WordsAscend
  <2>3. index <= Word(x)
    BY <1>3, <2>1
  <2> QED
    BY <1>4, <2>2, <2>3
<1>8. index' >= size => \A x \in Visible : Word(x) < index'
  <2>1. DataLen \in Nat /\ DataLen <= size
    BY <1>1, VisibleBits
  <2> QED
    BY <1>3, <1>4, <1>5, <2>1
<1>9. ended' => \A x \in Visible' : Word(x) < index'
  BY <1>2, <1>3, <1>4, <1>5, <1>8
<1>10. front' <= index' * WordBits
  <2>1. /\ index * WordBits \in Nat /\ index' * WordBits \in Nat
        /\ index * WordBits <= index' * WordBits
    BY <1>3, <1>4, WordsGrow, Zenon
  <2>2. \A x, y, z \in Nat : x <= y /\ y <= z => x <= z
    OBVIOUS
  <2>3. front <= index' * WordBits
    BY <1>3, <2>1, <2>2, Zenon
  <2> QED
    BY <1>1, <2>3, Zenon
<1>11. ReadingInv'
  BY <1>1, <1>3, <1>7, <1>9, <1>10 DEF ReadingInv
<1>12. ended' \in BOOLEAN
  BY <1>2, <1>3
<1>13. IInv'
  <2>1. returned' \subseteq Nat /\ front' \in Nat
    BY <1>1, <1>3
  <2>2. index' \in Nat /\ hint' \in Nat
    BY <1>4
  <2> QED
    BY <1>1, <1>11, <1>12, <2>1, <2>2, ReadingKeeps, Zenon
<1>14. ended' = ended \/ (Owed' = {} /\ ended' = TRUE)
  <2>1. ASSUME index' >= size PROVE Owed' = {}
    <3>1. Owed' \subseteq Visible
      BY <1>5 DEF Owed
    <3>2. \A x \in Owed' : index' <= Word(x) /\ Word(x) < index' /\ Word(x) \in Nat
      BY <1>5, <1>7, <1>8, <2>1, <3>1
    <3>3. \A x \in Owed' : FALSE
      BY <1>4, <3>2
    <3> QED
      BY <3>3
  <2> QED
    BY <1>2, <1>3, <2>1
<1>15. Stream!Hint
  BY <1>1, <1>6, <1>14 DEF Stream!Hint
<1> QED
  BY <1>13, <1>15 DEF StreamStep, Stream!Next

\* Steps of other parts leave the stream alone.
LEMMA StutterStep == IInv /\ UNCHANGED vars => IInv' /\ StreamStep
<1> SUFFICES ASSUME IInv, UNCHANGED vars PROVE IInv' /\ StreamStep
  OBVIOUS
<1>1. /\ query' = query /\ split' = split /\ fetching' = fetching
      /\ UNCHANGED <<todo, blocks, bits, size, rowsLeft>>
      /\ UNCHANGED <<index, hint, returned, front, ended>>
  BY DEF vars, building, reading
<1>2. TypeOK' /\ QueryOK'
  BY <1>1 DEF IInv, TypeOK, QueryOK
<1>3. /\ HasCutoff' = HasCutoff /\ WasCutoffHit' = WasCutoffHit /\ MatchedRows' = MatchedRows
      /\ Wanted' = Wanted /\ Visible' = Visible /\ Answer' = Answer /\ Owed' = Owed
      /\ ShiftUndefined' = ShiftUndefined
  BY <1>1 DEF HasCutoff, WasCutoffHit, MatchedRows, Wanted, InBounds, Visible, DataLen, Answer,
              Owed, ShiftUndefined, MaxBit
<1>4. AddingInv'
  BY <1>1, <1>3 DEF IInv, AddingInv, BlocksOK, OnlyWanted, FullSize, NoneMissing, RoomForRest, Rest
<1>5. CutoffShared' /\ AnswerInv' /\ ReadingInv'
  BY <1>1, <1>3 DEF IInv, CutoffShared, AnswerInv, ExactAnswer, NoForeignRow, ReadingInv
<1>6. StreamStep
  BY <1>1, <1>3 DEF StreamStep, Stream!streamVars
<1> QED
  BY <1>2, <1>4, <1>5, <1>6 DEF IInv

\* Every step keeps the invariant and is a step of the stream or none.
LEMMA Stepwise == IInv /\ [Next]_vars => IInv' /\ StreamStep
BY BeginValueStep, AddBlockStep, AddStopsStep, FinishAddingStep, GetNextRowIdBlockStep,
   HintRowIDStep, StutterStep DEF Next

----------------------------------------------------------------------------
(* Theorems. *)

\* IInv holds throughout.
LEMMA Invariance == Spec => []IInv
<1> QED
  BY Initially, Stepwise, PTL DEF Spec

\* Bits, counters and histories keep their types; no bit is set or flipped
\* outside the words of the bitmap.
THEOREM TypeCorrect == Spec => []TypeOK
<1>1. IInv => TypeOK
  BY DEF IInv
<1> QED
  BY <1>1, Invariance, PTL

\* A bitmap whose cutoff was not hit holds exactly the rows of the answer, for
\* any values, bounds, sizes of blocks and words, with or without an inversion
\* whose last shift is defined, as long as m_iRowsLeft has room for the rows.
THEOREM BitmapIsAnswer == RowsFit => (Spec => []ExactAnswer)
<1> SUFFICES ASSUME RowsFit PROVE Spec => []ExactAnswer
  OBVIOUS
<1>1. IInv => ExactAnswer
  BY DEF IInv, AnswerInv
<1> QED
  BY <1>1, Invariance, PTL

\* No row outside the answer is handed out, cutoff or not, except by an
\* excluding filter whose cutoff was hit before the inversion.
THEOREM OnlyAnswerRows == RowsFit => (Spec => []NoForeignRow)
<1> SUFFICES ASSUME RowsFit PROVE Spec => []NoForeignRow
  OBVIOUS
<1>1. IInv => NoForeignRow
  BY DEF IInv, AnswerInv
<1> QED
  BY <1>1, Invariance, PTL

\* A filter that is not excluding never sets more rows than its cutoff.
THEOREM CutoffIsRespected == Spec => []CutoffRespected
<1>1. IInv => CutoffRespected
  <2> SUFFICES ASSUME IInv, query.cutoff # NoCutoff, ~query.exclude
               PROVE  Cardinality(bits) <= query.cutoff
    BY DEF CutoffRespected
  <2>1. HasCutoff
    BY DEF HasCutoff
  <2>2. Cardinality(bits) + rowsLeft <= query.cutoff
    BY <2>1 DEF IInv, CutoffShared
  <2>3. rowsLeft \in Nat /\ query.cutoff \in Nat
    BY SizesAssumption DEF IInv, TypeOK, QueryOK
  <2>4. Cardinality(bits) \in Nat
    <3> DEFINE z == (Word(NumRows - 1) + 1) * WordBits - 1
    <3>1. NumRows - 1 \in Nat
      BY SizesAre
    <3>2. Word(NumRows - 1) \in Nat /\ WordBits \in Nat
      BY <3>1, WordIs
    <3>3. z \in Int
      BY <3>2
    <3>4. bits \subseteq 0 .. z
      BY DEF IInv, TypeOK
    <3> HIDE DEF z
    <3>5. IsFiniteSet(0 .. z)
      BY <3>3, FS_Interval
    <3> QED
      BY <3>4, <3>5, FS_Subset, FS_CardinalityType
  <2> QED
    BY <2>2, <2>3, <2>4
<1> QED
  BY <1>1, Invariance, PTL

\* The bitmap iterator implements the contract of BlockIterator_i.
THEOREM StreamRefinement == Spec => ImplementsStream
<1> QED
  BY Initially, Stepwise, Invariance, PTL DEF Spec, ImplementsStream, Stream!Spec, StreamStep
=============================================================================
