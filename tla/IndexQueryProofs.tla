-------------------------- MODULE IndexQueryProofs --------------------------
(***************************************************************************)
(* TLAPS proofs about IndexQuery, for any stored values, block size, error  *)
(* of the predicted positions and filters, whatever the cache holds: both   *)
(* readers make an iterator for each value that is asked for and stored,    *)
(* for no other, and from the rows of its block.                            *)
(***************************************************************************)
EXTENDS IndexQuery, FiniteSetTheorems, SequenceTheorems, WellFoundedInduction, TLAPS

(* Numbers. *)

\* Any set of natural numbers that is not empty has a least one.
LEMMA LeastNatural ==
    ASSUME NEW T, T \subseteq Nat, T # {}
    PROVE  \E m \in T : \A k \in T : m <= k
<1>1. IsWellFoundedOn(OpToRel(<, Nat), Nat)
  BY NatLessThanWellFounded
<1>2. PICK m \in T : \A k \in T : ~ (<<k, m>> \in OpToRel(<, Nat))
  BY <1>1, WFMin
<1>3. \A k \in T : ~ (k < m)
  BY <1>2 DEF OpToRel
<1> QED
  BY <1>3

\* Multiples are as far apart as their factors.
LEMMA MultiplesApart ==
    ASSUME NEW k \in Nat, NEW b \in Nat, NEW c \in Nat, b < c
    PROVE  b * k \in Nat /\ c * k \in Nat /\ b * k + k <= c * k
<1>1. \A d \in Nat : b * k + k <= (b + 1 + d) * k
  OBVIOUS
<1>2. c - b - 1 \in Nat /\ c = b + 1 + (c - b - 1)
  OBVIOUS
<1>3. b * k + k <= (b + 1 + (c - b - 1)) * k
  BY <1>1, <1>2
<1> QED
  BY <1>2, <1>3

\* A number lies in the block its quotient names.
LEMMA Quotient ==
    ASSUME NEW a \in Nat, NEW d \in Nat \ {0}
    PROVE  /\ a \div d \in Nat
           /\ (a \div d) * d \in Nat
           /\ (a \div d) * d <= a /\ a < (a \div d) * d + d
<1>1. a \div d \in Int /\ a % d \in 0 .. d - 1 /\ a = d * (a \div d) + (a % d)
  OBVIOUS
<1>2. a \div d \in Nat
  <2> SUFFICES ASSUME a \div d < 0 PROVE FALSE
    BY <1>1
  <2> DEFINE q == a \div d
             m == -q - 1
  <2>1. m \in Nat /\ q = -(m + 1)
    BY <1>1
  <2> HIDE DEF q, m
  <2>2. d * (-(m + 1)) <= -d
    <3>1. \A x \in Nat : d * (-(x + 1)) <= -d
      OBVIOUS
    <3> QED
      BY <2>1, <3>1
  <2>3. d * q <= -d
    BY <2>1, <2>2
  <2> QED
    BY <1>1, <2>3 DEF q
<1>3. d * (a \div d) = (a \div d) * d /\ (a \div d) * d \in Nat
  BY <1>2
<1> QED
  BY <1>1, <1>2, <1>3

\* A number between two multiples that follow one another has the quotient of the first.
LEMMA QuotientIs ==
    ASSUME NEW a \in Nat, NEW d \in Nat \ {0}, NEW q \in Nat, q * d <= a, a < q * d + d
    PROVE  a \div d = q
<1> DEFINE p == a \div d
<1>1. p \in Nat /\ p * d \in Nat /\ p * d <= a /\ a < p * d + d
  BY Quotient
<1>2. d \in Nat /\ q * d \in Nat
  OBVIOUS
<1> HIDE DEF p
<1>3. ~ (p < q)
  <2> SUFFICES ASSUME p < q PROVE FALSE
    OBVIOUS
  <2>1. p * d + d <= q * d
    BY <1>1, <1>2, MultiplesApart
  <2> QED
    BY <1>1, <1>2, <2>1
<1>4. ~ (q < p)
  <2> SUFFICES ASSUME q < p PROVE FALSE
    OBVIOUS
  <2>1. q * d + d <= p * d
    BY <1>1, <1>2, MultiplesApart
  <2> QED
    BY <1>1, <1>2, <2>1
<1> QED
  BY <1>1, <1>3, <1>4 DEF p

\* Larger numbers have no smaller quotients.
LEMMA QuotientsAscend ==
    ASSUME NEW a \in Nat, NEW b \in Nat, NEW d \in Nat \ {0}, a <= b
    PROVE  a \div d <= b \div d
<1> DEFINE p == a \div d
           q == b \div d
<1>1. p \in Nat /\ p * d \in Nat /\ p * d <= a /\ q \in Nat /\ q * d \in Nat /\ b < q * d + d
  BY Quotient
<1> HIDE DEF p, q
<1>2. ~ (q < p)
  <2> SUFFICES ASSUME q < p PROVE FALSE
    OBVIOUS
  <2>1. q * d + d <= p * d
    BY <1>1, MultiplesApart
  <2> QED
    BY <1>1, <2>1
<1> QED
  BY <1>1, <1>2 DEF p, q

\* Numbers no more than a divisor apart have neighbouring quotients.
LEMMA QuotientsNear ==
    ASSUME NEW a \in Nat, NEW b \in Nat, NEW d \in Nat \ {0}, b <= a + d
    PROVE  b \div d <= a \div d + 1
<1> DEFINE p == a \div d
           q == b \div d
<1>1. p \in Nat /\ p * d \in Nat /\ a < p * d + d /\ q \in Nat /\ q * d \in Nat /\ q * d <= b
  BY Quotient
<1> HIDE DEF p, q
<1>2. ~ (p + 1 < q)
  <2> SUFFICES ASSUME p + 1 < q PROVE FALSE
    OBVIOUS
  <2>1. (p + 1) * d + d <= q * d
    BY <1>1, MultiplesApart
  <2>2. (p + 1) * d = p * d + d
    BY <1>1
  <2> QED
    BY <1>1, <2>1, <2>2
<1> QED
  BY <1>1, <1>2 DEF p, q
-----------------------------------------------------------------------------
(* The blocks of values. *)

V == ValuesPerBlock
N == m_uTotalValues
At(b, i) == b * V + i

LEMMA Sizes ==
    /\ N \in Nat /\ N > 0 /\ V \in Nat /\ V > 1 /\ Epsilon \in Nat \ {0} /\ 2 * Epsilon + 2 <= V
    /\ m_uBlocksCount \in Nat \ {0}
    /\ (m_uBlocksCount - 1) * V \in Nat /\ (m_uBlocksCount - 1) * V < N
    /\ N <= (m_uBlocksCount - 1) * V + V
    /\ DOMAIN Values = 1 .. N
    /\ \A i \in 1 .. N : Values[i] \in Nat
    /\ \A i, j \in 1 .. N : i < j => Values[i] < Values[j]
<1>1. N = Len(Values) /\ Values \in Seq(Nat) /\ Values # << >>
  BY ValuesAssumption DEF N, m_uTotalValues
<1>2. N \in Nat /\ N > 0 /\ DOMAIN Values = 1 .. N /\ \A i \in 1 .. N : Values[i] \in Nat
  BY <1>1
<1>3. V \in Nat /\ Epsilon \in Nat \ {0} /\ 2 * Epsilon + 2 <= V /\ V > 1
  BY ValuesAssumption DEF V
<1> DEFINE q == (N + V - 1) \div V
<1>4. m_uBlocksCount = q
  BY DEF m_uBlocksCount, N, V
<1>5. N + V - 1 \in Nat /\ V \in Nat \ {0}
  BY <1>2, <1>3
<1>6. q \in Nat /\ q * V \in Nat /\ q * V <= N + V - 1 /\ N + V - 1 < q * V + V
  BY <1>5, Quotient
<1> HIDE DEF q
<1>7. q # 0
  <2>1. q = 0 => q * V = 0
    BY <1>3
  <2> QED
    BY <1>2, <1>3, <1>6, <2>1
<1>8. q - 1 \in Nat /\ q - 1 < q
  BY <1>6, <1>7
<1>9. (q - 1) * V \in Nat /\ (q - 1) * V + V = q * V
  <2>1. \A x \in Nat : (x + 1) * V = x * V + V /\ x * V \in Nat
    BY <1>3
  <2>2. ((q - 1) + 1) * V = (q - 1) * V + V /\ (q - 1) + 1 = q
    BY <1>8, <1>6, <2>1
  <2> QED
    BY <1>8, <2>1, <2>2
<1>10. (q - 1) * V < N /\ N <= (q - 1) * V + V
  BY <1>2, <1>3, <1>6, <1>9
<1>11. \A i, j \in 1 .. N : i < j => Values[i] < Values[j]
  BY <1>2, ValuesAssumption
<1> QED
  BY <1>2, <1>3, <1>4, <1>6, <1>7, <1>9, <1>10, <1>11

\* The last block holds what is left.
LEMMA LastIs ==
    LET c == m_uBlocksCount IN CalcNumBlockValues(c - 1) = N - (c - 1) * V
<1> DEFINE c == m_uBlocksCount
           x == c - 1
           q == N \div V
           m == N % V
<1>1. /\ N \in Nat /\ N > 0 /\ V \in Nat \ {0} /\ x \in Nat /\ x * V \in Nat /\ x * V < N /\ N <= x * V + V
      /\ c \in Nat \ {0}
  BY Sizes
<1>2. CalcNumBlockValues(x) = IF m # 0 THEN m ELSE V
  <2>1. ~ (x < c - 1)
    BY <1>1
  <2> QED
    BY <2>1 DEF CalcNumBlockValues, N, V
<1>3. /\ q \in Nat /\ q * V \in Nat /\ q * V <= N /\ N < q * V + V
      /\ m = N - q * V
  <2>1. N = V * q + m /\ m \in 0 .. V - 1 /\ q \in Nat /\ q * V \in Nat /\ q * V <= N /\ N < q * V + V
    BY <1>1, Quotient
  <2>2. V * q = q * V
    BY <1>1, <2>1
  <2> HIDE DEF q, m
  <2> QED
    BY <1>1, <2>1, <2>2
<1> HIDE DEF q, m, x
<1>4. CASE N < x * V + V
  <2>1. q = x
    BY <1>1, <1>4, QuotientIs DEF q
  <2> QED
    BY <1>1, <1>2, <1>3, <1>4, <2>1 DEF x, c
<1>5. CASE N = x * V + V
  <2>1. (x + 1) * V = x * V + V /\ x + 1 \in Nat
    BY <1>1
  <2>2. q = x + 1
    <3>1. (x + 1) * V <= N /\ N < (x + 1) * V + V
      BY <1>1, <1>5, <2>1
    <3> QED
      BY <1>1, <2>1, <3>1, QuotientIs DEF q
  <2>3. m = 0
    BY <1>1, <1>3, <1>5, <2>1, <2>2
  <2> QED
    BY <1>1, <1>2, <1>5, <2>3 DEF x, c
<1> QED
  BY <1>1, <1>4, <1>5

\* A block holds a piece of the values, and all but the last are full.
LEMMA BlockIs ==
    ASSUME NEW b \in Blocks
    PROVE  /\ b \in Nat /\ b * V \in Nat
           /\ CalcNumBlockValues(b) \in 1 .. V
           /\ b * V + CalcNumBlockValues(b) <= N
           /\ b < m_uBlocksCount - 1 => CalcNumBlockValues(b) = V
           /\ b = m_uBlocksCount - 1 => b * V + CalcNumBlockValues(b) = N
           /\ DOMAIN BlockValues(b) = 0 .. CalcNumBlockValues(b) - 1
           /\ \A i \in 0 .. CalcNumBlockValues(b) - 1 :
                  /\ BlockValues(b)[i] = Values[At(b, i) + 1] /\ At(b, i) \in 0 .. N - 1
                  /\ BlockValues(b)[i] \in Nat
<1> DEFINE c == m_uBlocksCount
           n == CalcNumBlockValues(b)
<1>1. /\ N \in Nat /\ V \in Nat /\ V > 1 /\ c \in Nat \ {0} /\ (c - 1) * V \in Nat /\ (c - 1) * V < N
      /\ N <= (c - 1) * V + V
      /\ \A i \in 1 .. N : Values[i] \in Nat
  BY Sizes
<1>2. b \in Nat /\ b <= c - 1 /\ c - 1 \in Nat
  BY <1>1 DEF Blocks
<1>3. b * V \in Nat
  BY <1>1, <1>2
<1>4. CASE b < c - 1
  <2>1. n = V
    BY <1>4 DEF CalcNumBlockValues, V
  <2>2. b * V + V <= (c - 1) * V
    BY <1>1, <1>2, <1>4, MultiplesApart
  <2>3. n \in 1 .. V /\ b * V + n <= N
    BY <1>1, <1>3, <2>1, <2>2
  <2>4. DOMAIN BlockValues(b) = 0 .. n - 1 /\ \A i \in 0 .. n - 1 : BlockValues(b)[i] = Values[b * V + i + 1]
    BY DEF BlockValues, V
  <2> HIDE DEF n
  <2>5. \A i \in 0 .. n - 1 : b * V + i \in 0 .. N - 1 /\ b * V + i + 1 \in 1 .. N
    BY <1>1, <1>3, <2>3
  <2> QED
    BY <1>1, <1>2, <1>3, <1>4, <2>1, <2>3, <2>4, <2>5 DEF At, n
<1>5. CASE b = c - 1
  <2>1. n = N - (c - 1) * V
    BY <1>5, LastIs
  <2>2. n \in 1 .. V /\ b * V + n = N
    BY <1>1, <1>3, <1>5, <2>1
  <2>4. DOMAIN BlockValues(b) = 0 .. n - 1 /\ \A i \in 0 .. n - 1 : BlockValues(b)[i] = Values[b * V + i + 1]
    BY DEF BlockValues, V
  <2> HIDE DEF n
  <2>5. \A i \in 0 .. n - 1 : b * V + i \in 0 .. N - 1 /\ b * V + i + 1 \in 1 .. N
    BY <1>1, <1>3, <2>2
  <2> QED
    BY <1>1, <1>2, <1>3, <1>5, <2>2, <2>4, <2>5 DEF At, n
<1> QED
  BY <1>1, <1>2, <1>4, <1>5

\* Every position is in a block.
LEMMA PlaceIs ==
    ASSUME NEW p \in 0 .. N - 1
    PROVE  /\ p \div V \in Blocks
           /\ (p \div V) * V \in Nat
           /\ p - (p \div V) * V \in 0 .. CalcNumBlockValues(p \div V) - 1
           /\ At(p \div V, p - (p \div V) * V) = p
<1> DEFINE c == m_uBlocksCount
           q == p \div V
<1>1. /\ N \in Nat /\ V \in Nat \ {0} /\ c \in Nat \ {0} /\ (c - 1) * V \in Nat /\ N <= (c - 1) * V + V
      /\ p \in Nat /\ c - 1 \in Nat /\ p < N
  BY Sizes
<1>2. q \in Nat /\ q * V \in Nat /\ q * V <= p /\ p < q * V + V
  BY <1>1, Quotient
<1> HIDE DEF q
<1>3. q <= c - 1
  <2> SUFFICES ASSUME c - 1 < q PROVE FALSE
    BY <1>1, <1>2
  <2>1. (c - 1) * V + V <= q * V
    BY <1>1, <1>2, MultiplesApart
  <2> QED
    BY <1>1, <1>2, <2>1
<1>4. q \in Blocks
  BY <1>1, <1>2, <1>3 DEF Blocks
<1>5. /\ CalcNumBlockValues(q) \in 1 .. V /\ (q < c - 1 => CalcNumBlockValues(q) = V)
      /\ q = c - 1 => q * V + CalcNumBlockValues(q) = N
  BY <1>4, BlockIs
<1>6. p - q * V \in 0 .. CalcNumBlockValues(q) - 1
  BY <1>1, <1>2, <1>3, <1>5
<1>7. At(q, p - q * V) = p
  <2>1. \A x \in Nat : x + (p - x) = p
    BY <1>1
  <2> QED
    BY <1>2, <2>1 DEF At
<1> QED
  BY <1>2, <1>4, <1>6, <1>7 DEF q

-----------------------------------------------------------------------------
(* Where values are. *)

\* Value v is in block b.
In(b, v) == \E i \in DOMAIN BlockValues(b) : BlockValues(b)[i] = v

\* The values below v are the first ones.
LEMMA RankIs ==
    ASSUME NEW v \in Int
    PROVE  /\ Rank(v) \in 0 .. N
           /\ \A i \in 1 .. N : Values[i] < v <=> i <= Rank(v)
<1> DEFINE S == {i \in DOMAIN Values : Values[i] < v}
           T == {i \in Nat : i > N \/ (i \in 1 .. N /\ ~(Values[i] < v))}
<1>1. /\ N \in Nat /\ DOMAIN Values = 1 .. N /\ \A i \in 1 .. N : Values[i] \in Nat
      /\ \A i, j \in 1 .. N : i < j => Values[i] < Values[j]
  BY Sizes
<1>2. N + 1 \in T /\ T \subseteq Nat
  BY <1>1
<1>3. PICK m \in T : \A k \in T : m <= k
  <2>1. T # {}
    BY <1>2
  <2> HIDE DEF T
  <2> QED
    BY <1>2, <2>1, LeastNatural
<1>4. m \in 1 .. N + 1
  <2>1. m <= N + 1
    BY <1>2, <1>3
  <2> QED
    BY <1>1, <1>3, <2>1
<1>5. \A i \in 1 .. N : Values[i] < v <=> i <= m - 1
  <2> SUFFICES ASSUME NEW i \in 1 .. N PROVE Values[i] < v <=> i <= m - 1
    OBVIOUS
  <2>1. CASE i < m
    <3>1. i \notin T
      BY <1>3, <1>4, <2>1
    <3> QED
      BY <1>1, <1>4, <2>1, <3>1
  <2>2. CASE ~(i < m)
    <3>1. m \in 1 .. N /\ ~(Values[m] < v)
      BY <1>1, <1>3, <1>4, <2>2
    <3>2. i = m \/ Values[m] < Values[i]
      BY <1>1, <1>4, <2>2, <3>1
    <3>3. Values[i] \in Nat /\ Values[m] \in Nat
      BY <1>1, <3>1
    <3>4. ~(Values[i] < v)
      BY <3>1, <3>2, <3>3
    <3> QED
      BY <1>4, <2>2, <3>4
  <2> QED
    BY <2>1, <2>2
<1>6. S = 1 .. m - 1
  BY <1>1, <1>4, <1>5
<1>7. Cardinality(S) = m - 1
  <2>1. Cardinality(1 .. m - 1) = m - 1
    <3>1. m - 1 \in Nat /\ 1 \in Int
      BY <1>4
    <3>2. Cardinality(1 .. m - 1) = IF 1 > m - 1 THEN 0 ELSE (m - 1) - 1 + 1
      BY <3>1, FS_Interval
    <3> QED
      BY <3>1, <3>2
  <2> HIDE DEF S
  <2> QED
    BY <1>6, <2>1
<1>8. Rank(v) = Cardinality(S)
  BY Zenon DEF Rank
<1> HIDE DEF S
<1>9. Rank(v) = m - 1 /\ m - 1 \in 0 .. N
  BY <1>1, <1>4, <1>7, <1>8
<1> QED
  BY <1>5, <1>9

\* What is stored has a block.
LEMMA StoredIs ==
    ASSUME NEW v
    PROVE  v \in Stored <=> \E b \in Blocks : In(b, v)
<1>1. DOMAIN Values = 1 .. N /\ N \in Nat
  BY Sizes
<1>2. ASSUME v \in Stored PROVE \E b \in Blocks : In(b, v)
  <2>1. PICK i \in 1 .. N : Values[i] = v
    BY <1>1, <1>2 DEF Stored
  <2>2. PICK p \in 0 .. N - 1 : i = p + 1
    BY <1>1, <2>1
  <2> DEFINE b == p \div V
             j == p - (p \div V) * V
  <2>3. b \in Blocks /\ j \in 0 .. CalcNumBlockValues(b) - 1 /\ At(b, j) = p
    BY PlaceIs
  <2> HIDE DEF b, j
  <2>4. BlockValues(b)[j] = Values[p + 1] /\ j \in DOMAIN BlockValues(b)
    BY <2>3, BlockIs
  <2> QED
    BY <2>1, <2>2, <2>3, <2>4 DEF In
<1>3. ASSUME NEW b \in Blocks, In(b, v) PROVE v \in Stored
  <2>1. PICK i \in 0 .. CalcNumBlockValues(b) - 1 : BlockValues(b)[i] = v
    BY <1>3, BlockIs DEF In
  <2>2. v = Values[At(b, i) + 1] /\ At(b, i) \in 0 .. N - 1
    BY <2>1, BlockIs
  <2>3. At(b, i) + 1 \in 1 .. N
    BY <1>1, <2>2
  <2> QED
    BY <1>1, <2>2, <2>3 DEF Stored
<1> QED
  BY <1>2, <1>3

\* The first and the last value of a block, and how blocks compare.
FirstOf(b) == BlockValues(b)[0]
LastOf(b) == BlockValues(b)[CalcNumBlockValues(b) - 1]

LEMMA EndsAre ==
    ASSUME NEW b \in Blocks
    PROVE  /\ FirstOf(b) \in Nat /\ LastOf(b) \in Nat
           /\ In(b, FirstOf(b)) /\ In(b, LastOf(b))
           /\ \A i \in DOMAIN BlockValues(b) :
                 /\ BlockValues(b)[i] \in Nat
                 /\ FirstOf(b) <= BlockValues(b)[i] /\ BlockValues(b)[i] <= LastOf(b)
<1> DEFINE n == CalcNumBlockValues(b)
<1>1. /\ n \in 1 .. V /\ b * V \in Nat /\ DOMAIN BlockValues(b) = 0 .. n - 1
      /\ \A i \in 0 .. n - 1 : /\ BlockValues(b)[i] = Values[At(b, i) + 1] /\ At(b, i) \in 0 .. N - 1
                               /\ BlockValues(b)[i] \in Nat
  BY BlockIs
<1>2. V \in Nat /\ N \in Nat /\ \A i, j \in 1 .. N : i < j => Values[i] < Values[j]
  BY Sizes
<1> HIDE DEF n
<1>3. 0 \in 0 .. n - 1 /\ n - 1 \in 0 .. n - 1
  BY <1>1, <1>2
<1>4. ASSUME NEW i \in 0 .. n - 1, NEW j \in 0 .. n - 1, i <= j
      PROVE  BlockValues(b)[i] <= BlockValues(b)[j]
  <2>1. CASE i = j
    BY <1>1, <2>1
  <2>2. CASE i # j
    <3>1. At(b, i) < At(b, j)
      <4>1. \A x \in Nat : x + i < x + j
        BY <1>4, <2>2
      <4> QED
        BY <1>1, <4>1 DEF At
    <3>2. At(b, i) + 1 \in 1 .. N /\ At(b, j) + 1 \in 1 .. N /\ At(b, i) + 1 < At(b, j) + 1
      <4>1. At(b, i) \in 0 .. N - 1 /\ At(b, j) \in 0 .. N - 1
        BY <1>1
      <4> QED
        BY <1>2, <3>1, <4>1
    <3>3. BlockValues(b)[i] < BlockValues(b)[j]
      BY <1>1, <1>2, <3>2
    <3> QED
      BY <1>1, <3>3
  <2> QED
    BY <2>1, <2>2
<1>5. \A i \in 0 .. n - 1 : 0 <= i /\ i <= n - 1
  BY <1>1, <1>2
<1>6. FirstOf(b) = BlockValues(b)[0] /\ LastOf(b) = BlockValues(b)[n - 1]
  BY DEF FirstOf, LastOf, n
<1>7. \A i \in 0 .. n - 1 : FirstOf(b) <= BlockValues(b)[i] /\ BlockValues(b)[i] <= LastOf(b)
  BY <1>3, <1>4, <1>5, <1>6
<1> QED
  BY <1>1, <1>3, <1>6, <1>7 DEF In

LEMMA BlocksAscend ==
    ASSUME NEW b \in Blocks, NEW c \in Blocks, b < c,
           NEW i \in DOMAIN BlockValues(b), NEW j \in DOMAIN BlockValues(c)
    PROVE  At(b, i) < At(c, j) /\ BlockValues(b)[i] < BlockValues(c)[j]
<1>1. /\ b \in Nat /\ b * V \in Nat /\ CalcNumBlockValues(b) \in 1 .. V
      /\ i \in 0 .. CalcNumBlockValues(b) - 1
      /\ BlockValues(b)[i] = Values[At(b, i) + 1] /\ At(b, i) \in 0 .. N - 1
  BY BlockIs
<1>2. /\ c \in Nat /\ c * V \in Nat /\ CalcNumBlockValues(c) \in 1 .. V
      /\ j \in 0 .. CalcNumBlockValues(c) - 1
      /\ BlockValues(c)[j] = Values[At(c, j) + 1] /\ At(c, j) \in 0 .. N - 1
  BY BlockIs
<1>3. V \in Nat /\ N \in Nat /\ \A x, y \in 1 .. N : x < y => Values[x] < Values[y]
  BY Sizes
<1>4. b * V + V <= c * V
  BY <1>1, <1>2, <1>3, MultiplesApart
<1>5. At(b, i) < At(c, j)
  <2>1. \A x, y \in Nat : x + V <= y => x + i < y + j
    BY <1>1, <1>2, <1>3
  <2> QED
    BY <1>1, <1>2, <1>4, <2>1 DEF At
<1>6. At(b, i) + 1 \in 1 .. N /\ At(c, j) + 1 \in 1 .. N /\ At(b, i) + 1 < At(c, j) + 1
  BY <1>1, <1>2, <1>3, <1>5
<1> QED
  BY <1>1, <1>2, <1>3, <1>5, <1>6

\* A value that is in block b is before all later blocks and after all earlier ones.
LEMMA HomeIs ==
    ASSUME NEW b \in Blocks, NEW v, In(b, v), NEW c \in Blocks
    PROVE  /\ v \in Nat
           /\ c < b => LastOf(c) < v
           /\ b < c => v < FirstOf(c)
           /\ c = b => FirstOf(c) <= v /\ v <= LastOf(c)
<1>1. PICK i \in DOMAIN BlockValues(b) : BlockValues(b)[i] = v
  BY DEF In
<1>2. v \in Nat /\ FirstOf(b) <= v /\ v <= LastOf(b)
  BY <1>1, EndsAre
<1>3. PICK f \in DOMAIN BlockValues(c) : BlockValues(c)[f] = FirstOf(c)
  BY EndsAre DEF In
<1>4. PICK l \in DOMAIN BlockValues(c) : BlockValues(c)[l] = LastOf(c)
  BY EndsAre DEF In
<1>5. c < b => LastOf(c) < v
  BY <1>1, <1>4, BlocksAscend
<1>6. b < c => v < FirstOf(c)
  BY <1>1, <1>3, BlocksAscend
<1> QED
  BY <1>2, <1>5, <1>6
-----------------------------------------------------------------------------
(* What the index predicts. *)

\* The window of a prediction.
LEMMA SearchIs ==
    ASSUME NEW v \in Int, NEW s \in Search(v)
    PROVE  /\ s.pos \in 0 .. N /\ s.lo \in Nat /\ s.hi \in Nat
           /\ s.lo <= s.pos /\ s.pos <= s.hi /\ s.hi <= s.lo + V /\ s.hi <= N
           /\ s.lo <= N - 1 /\ s.lo <= Rank(v) /\ Rank(v) <= s.hi
<1>1. PICK p \in 0 .. m_uTotalValues :
          /\ SearchLo(p) <= Rank(v) /\ Rank(v) <= SearchHi(p)
          /\ s = [pos |-> p, lo |-> SearchLo(p), hi |-> SearchHi(p)]
  BY DEF Search
<1>2. /\ s.pos = p /\ s.lo = (IF p < Epsilon THEN 0 ELSE p - Epsilon)
      /\ s.hi = (IF p + Epsilon + 2 > N THEN N ELSE p + Epsilon + 2)
      /\ s.lo <= Rank(v) /\ Rank(v) <= s.hi
  BY <1>1 DEF SearchLo, SearchHi, N
<1>3. N \in Nat /\ N > 0 /\ p \in 0 .. N /\ V \in Nat /\ Epsilon \in Nat \ {0} /\ 2 * Epsilon + 2 <= V
  BY <1>1, Sizes DEF N
<1>4. s.pos \in 0 .. N /\ s.lo \in Nat /\ s.hi \in Nat /\ s.lo <= s.pos /\ s.pos <= s.hi
  BY <1>2, <1>3
<1>5. s.hi <= N /\ s.hi <= s.lo + V /\ s.lo <= N - 1
  BY <1>2, <1>3
<1> QED
  BY <1>2, <1>4, <1>5

\* The blocks of a window.
LEMMA WindowIs ==
    ASSUME NEW s, s.pos \in 0 .. N, s.lo \in Nat, s.hi \in Nat, s.lo <= s.pos
    PROVE  /\ BlockIter(s).start = s.lo \div V /\ BlockIter(s).start \in Nat
           /\ BlockIter(s).last \in Blocks
           /\ BlockIter(s).last <= s.hi \div V
           /\ \A p \in 0 .. N - 1 : /\ s.lo <= p => BlockIter(s).start <= p \div V
                                    /\ p <= s.hi => p \div V <= BlockIter(s).last
<1> DEFINE c == m_uBlocksCount
<1>1. V \in Nat \ {0} /\ c \in Nat \ {0} /\ N \in Nat
  BY Sizes
<1>2. s.lo \div V \in Nat /\ s.hi \div V \in Nat
  BY <1>1, Quotient
<1>3. /\ BlockIter(s).start = s.lo \div V
      /\ BlockIter(s).last = IF s.hi \div V >= c THEN c - 1 ELSE s.hi \div V
  BY DEF BlockIter, GetValueBlock, V
<1>4. BlockIter(s).last \in Blocks /\ BlockIter(s).last <= s.hi \div V
  BY <1>1, <1>2, <1>3 DEF Blocks
<1>5. ASSUME NEW p \in 0 .. N - 1
      PROVE  /\ s.lo <= p => BlockIter(s).start <= p \div V
             /\ p <= s.hi => p \div V <= BlockIter(s).last
  <2>1. p \in Nat /\ p \div V \in Blocks
    <3>1. p \div V \in Blocks
      BY PlaceIs, Zenon
    <3> QED
      BY <1>1, <3>1
  <2>2. s.lo <= p => s.lo \div V <= p \div V
    BY <1>1, <2>1, QuotientsAscend
  <2>3. p <= s.hi => p \div V <= s.hi \div V
    BY <1>1, <2>1, QuotientsAscend
  <2>4. p \div V \in 0 .. c - 1
    BY <2>1 DEF Blocks
  <2> QED
    BY <1>1, <1>2, <1>3, <2>2, <2>3, <2>4
<1> QED
  BY <1>2, <1>3, <1>4, <1>5

\* A value is looked for in one block or two, in one of which it is if it is stored.
LEMMA IterIs ==
    ASSUME NEW v \in Int, NEW s \in Search(v)
    PROVE  LET it == BlockIter(s)
           IN  /\ it.start \in Blocks /\ it.last \in Blocks
               /\ it.start <= it.last /\ it.last <= it.start + 1
               /\ it.start + it.pos \in it.start .. it.last
               /\ v \in Stored => \E b \in it.start .. it.last : In(b, v)
<1> DEFINE it == BlockIter(s)
           r == Rank(v)
           c == m_uBlocksCount
<1>1. /\ s.pos \in 0 .. N /\ s.lo \in Nat /\ s.hi \in Nat
      /\ s.lo <= s.pos /\ s.pos <= s.hi /\ s.hi <= s.lo + V /\ s.hi <= N
      /\ s.lo <= N - 1 /\ s.lo <= r /\ r <= s.hi
  BY SearchIs
<1>2. N \in Nat /\ N > 0 /\ V \in Nat \ {0} /\ c \in Nat \ {0} /\ \A i \in 1 .. N : Values[i] \in Nat
  BY Sizes
<1>3. s.lo \div V \in Blocks
  <2>1. s.lo \in 0 .. N - 1
    BY <1>1, <1>2
  <2> QED
    BY <2>1, PlaceIs, Zenon
<1>4. /\ it.start = s.lo \div V /\ it.start \in Nat /\ it.last \in Blocks /\ it.last <= s.hi \div V
      /\ \A p \in 0 .. N - 1 : /\ s.lo <= p => it.start <= p \div V
                               /\ p <= s.hi => p \div V <= it.last
  BY <1>1, WindowIs
<1>5. /\ s.lo \div V <= s.hi \div V /\ s.lo \div V \in Nat /\ s.hi \div V \in Nat
      /\ it.last = IF s.hi \div V >= c THEN c - 1 ELSE s.hi \div V
  <2>1. it.last = IF s.hi \div V >= c THEN c - 1 ELSE s.hi \div V
    BY DEF BlockIter, GetValueBlock, V
  <2>2. s.lo <= s.hi
    BY <1>1, <1>2
  <2> HIDE DEF it, c
  <2> QED
    BY <1>1, <1>2, <2>1, <2>2, Quotient, QuotientsAscend
<1>6. it.start \in Blocks /\ it.start <= it.last
  <2>1. s.lo \div V \in 0 .. c - 1
    BY <1>3 DEF Blocks
  <2> HIDE DEF it, c
  <2> QED
    BY <1>2, <1>3, <1>4, <1>5, <2>1
<1>7. it.last <= it.start + 1
  <2>1. s.hi \div V <= s.lo \div V + 1
    BY <1>1, <1>2, QuotientsNear
  <2>2. s.hi \div V \in Nat /\ s.lo \div V \in Nat /\ it.last \in Nat
    BY <1>1, <1>2, <1>4, Quotient DEF Blocks
  <2> QED
    BY <1>4, <2>1, <2>2
<1>8. it.start + it.pos \in it.start .. it.last
  <2>1. it.pos = IF s.pos \div V >= c THEN 0 ELSE s.pos \div V - s.lo \div V
    BY DEF BlockIter, GetValueBlock, V
  <2>2. s.pos \in Nat /\ s.pos \div V \in Nat /\ s.lo \div V <= s.pos \div V
        /\ s.pos \div V <= s.hi \div V /\ s.hi \div V \in Nat
    BY <1>1, <1>2, Quotient, QuotientsAscend
  <2>3. it.last = IF s.hi \div V >= c THEN c - 1 ELSE s.hi \div V
    BY DEF BlockIter, GetValueBlock, V
  <2>4. it.last \in 0 .. c - 1
    BY <1>4 DEF Blocks
  <2> HIDE DEF it, c
  <2>5. CASE s.pos \div V >= c
    BY <1>2, <1>4, <1>6, <2>1, <2>4, <2>5 DEF Blocks
  <2>6. CASE ~(s.pos \div V >= c)
    <3>1. it.start + it.pos = s.pos \div V
      BY <1>4, <2>1, <2>2, <2>6
    <3> QED
      BY <1>2, <1>4, <2>2, <2>3, <2>4, <2>6, <3>1
  <2> QED
    BY <2>5, <2>6
<1>9. ASSUME v \in Stored PROVE \E b \in it.start .. it.last : In(b, v)
  <2>1. PICK i \in 1 .. N : Values[i] = v
    BY <1>9, Sizes DEF Stored
  <2>2. i = r + 1 /\ r \in 0 .. N - 1
    <3>1. r \in 0 .. N /\ \A j \in 1 .. N : Values[j] < v <=> j <= r
      BY RankIs
    <3>2. \A j \in 1 .. N : j < i => Values[j] < v
      BY <2>1, Sizes
    <3>3. ~(i <= r)
      BY <1>2, <2>1, <3>1
    <3>4. ~(r + 1 < i)
      BY <1>2, <2>1, <3>1, <3>2, <3>3
    <3> QED
      BY <1>2, <2>1, <3>1, <3>3, <3>4
  <2> DEFINE b == r \div V
             j == r - (r \div V) * V
  <2>3. b \in Blocks /\ j \in 0 .. CalcNumBlockValues(b) - 1 /\ At(b, j) = r
    BY <2>2, PlaceIs
  <2>4. b \in it.start .. it.last
    <3>1. it.start <= b /\ b <= it.last
      BY <1>1, <1>4, <2>2
    <3> QED
      BY <1>4, <2>3, <3>1 DEF Blocks
  <2> HIDE DEF b, j
  <2>5. BlockValues(b)[j] = v /\ j \in DOMAIN BlockValues(b)
    BY <2>1, <2>2, <2>3, BlockIs
  <2> QED
    BY <2>4, <2>5 DEF In
<1> QED
  BY <1>4, <1>6, <1>7, <1>8, <1>9

-----------------------------------------------------------------------------
(* What the readers make is kept in these invariants.  That of BlockReader:  *)
(* every predicted window of two blocks at most has the block of a value     *)
(* that is stored, the checks left for the value being looked up have it, a  *)
(* check whose block is loaded sees that block, and no check is behind one   *)
(* of the scan.                                                              *)

AskedValues ==
    IF m_eType = "VALUES" THEN RemoveOutOfRangeValues(m_dValues, m_bExclude) ELSE {}

IterFits(v, it) ==
    /\ it.start \in Blocks /\ it.last \in Blocks
    /\ it.start <= it.last /\ it.last <= it.start + 1
    /\ it.start + it.pos \in it.start .. it.last
    /\ v \in Stored => \E b \in it.start .. it.last : In(b, v)

LookupsFit ==
    /\ m_dValues \subseteq WideMin .. WideMax
    /\ DOMAIN iters = AskedValues
    /\ \A v \in AskedValues : IterFits(Narrow(v), iters[v])
    /\ todo \subseteq AskedValues
    /\ cur \in AskedValues \cup {ByValue!NoValue} /\ cur \notin todo

SeenIsLoaded ==
    /\ loadedValues \in Blocks \cup {ByValue!None}
    /\ loadedValues # ByValue!None => ByValue!SeenValues = loadedValues
    /\ loadedData \in Blocks \cup {ByValue!None}
    /\ loadedData # ByValue!None => ByValue!SeenData = loadedData

\* The offsets are consecutive, so that the first one and their number tell the range.
OffsetsFit ==
    /\ offsets \in Seq(Int)
    /\ \A k \in 1 .. Len(offsets) : offsets[k] = offsets[1] + k - 1
    /\ cur # ByValue!NoValue =>
          \A b \in iters[cur].start .. iters[cur].last : offsets[(b - iters[cur].start) + 1] = b

ChecksFit(v, it, checks) ==
    /\ checks \in Seq({"loaded", "predicted", "scan"} \X Blocks) /\ checks # << >>
    /\ \A k \in 1 .. Len(checks) : checks[k][1] = "scan" => k = Len(checks)
    /\ v \in Stored => \E k \in 1 .. Len(checks) : In(checks[k][2], v)
    /\ \A k \in 1 .. Len(checks) :
          checks[k][2] \in it.start .. it.last \/ (k = 1 /\ step = "look")
    /\ step = "look" => loadedValues = checks[1][2]

LeftToCheck ==
    /\ step \in {"load", "look"}
    /\ cur # ByValue!NoValue => ChecksFit(Narrow(cur), iters[cur], toCheck)

ItemsFit ==
    /\ itemsMade \in [AskedValues -> Seq([item : Nat, block : Blocks])]
    /\ \A v \in todo \cup {cur} : v # ByValue!NoValue => itemsMade[v] = << >>
    /\ \A v \in AskedValues \ (todo \cup {cur}) :
          Len(itemsMade[v]) = IF Narrow(v) \in Stored THEN 1 ELSE 0
    /\ \A v \in AskedValues : \A k \in 1 .. Len(itemsMade[v]) :
          BlockValues(itemsMade[v][k].block)[itemsMade[v][k].item] = Narrow(v)

ValueInv == LookupsFit /\ SeenIsLoaded /\ OffsetsFit /\ LeftToCheck /\ ItemsFit

(* That of RangeReader: what it has made are the positions before the one it *)
(* is at whose values the range admits.                                      *)

\* EvalRangeValue and the ends of CmpRange, of a filter.
LowOf(f) == IF f.leftUnbounded THEN 0 ELSE Narrow(f.min)
HighOf(f) == IF f.rightUnbounded THEN TypeMax ELSE Narrow(f.max)
Admits(f, v) ==
    /\ f.leftUnbounded \/ Narrow(f.min) < v \/ (f.leftClosed /\ Narrow(f.min) = v)
    /\ f.rightUnbounded \/ v < Narrow(f.max) \/ (f.rightClosed /\ Narrow(f.max) = v)

PosOf(m, k) == At(m[k].block, m[k].item)

\* The iterators made are those for the values admitted among the first n, ascending.
Covered(f, m, n) ==
    /\ \A k \in 1 .. Len(m) :
          PosOf(m, k) \in 0 .. N - 1 /\ PosOf(m, k) < n /\ Admits(f, Values[PosOf(m, k) + 1])
    /\ \A j, k \in 1 .. Len(m) : j < k => PosOf(m, j) < PosOf(m, k)
    /\ \A p \in 0 .. N - 1 :
          p < n /\ Admits(f, Values[p + 1]) => \E k \in 1 .. Len(m) : PosOf(m, k) = p

Item(b, i) == BlockValues(b)[i]
Inside == {"enter", "part", "whole"}

RangeFits ==
    /\ asked \in Filter /\ range = FixupFilterSettings(asked)
    /\ last \in Blocks /\ blockCur \in Nat /\ valCur \in Nat
    /\ phase \in {"warmup", "first", "enter", "part", "whole", "load", "done"}
    /\ \A p \in 0 .. N - 1 : Admits(range, Values[p + 1]) => p \div V <= last
    /\ phase \notin {"warmup", "done"} => blockCur <= last /\ valCount = CalcNumBlockValues(blockCur)
    /\ rangeMade \in Seq([item : Nat, block : Blocks, data : Int])

MadeFits ==
    /\ phase \in {"warmup", "first"} => rangeMade = << >> /\ Covered(range, rangeMade, blockCur * V)
    /\ phase \in Inside \cup {"load"} =>
          /\ rangeMade # << >> /\ valCur <= valCount
          /\ Covered(range, rangeMade, blockCur * V + valCur)
    /\ phase = "part" => ~Admits(range, Item(blockCur, valCount - 1))
    /\ phase = "whole" => Admits(range, Item(blockCur, valCount - 1))
    /\ phase = "load" => valCur = valCount
    /\ phase = "done" => \E n \in 0 .. N : Covered(range, rangeMade, n) /\ (~cut => n = N)

DataFits ==
    /\ itCreated \in Int /\ (phase # "warmup" => itCreated <= blockCur)
    /\ phase \in {"warmup", "first"} => itCreated = -1
    /\ phase = "first" => reader = blockCur
    /\ phase \in Inside => IF itCreated = blockCur THEN data = blockCur ELSE reader = blockCur
    /\ \A k \in 1 .. Len(rangeMade) :
          /\ rangeMade[k].item \in DOMAIN BlockValues(rangeMade[k].block)
          /\ rangeMade[k].data = rangeMade[k].block

RangeInv ==
    /\ m_eType \in {"VALUES", "RANGE"}
    /\ m_eType = "VALUES" => phase = "done" /\ rangeMade = << >>
    /\ m_eType = "RANGE" => RangeFits /\ MadeFits /\ DataFits /\ m_dValues = {}

IInv == ValueInv /\ RangeInv

-----------------------------------------------------------------------------
(* The readers see the same blocks and predictions. *)

LEMMA SameBlocks ==
    /\ ByValue!Blocks = Blocks /\ ByRange!Blocks = Blocks
    /\ \A b : ByValue!CalcNumBlockValues(b) = CalcNumBlockValues(b)
    /\ \A b : ByRange!CalcNumBlockValues(b) = CalcNumBlockValues(b)
    /\ \A b : ByValue!BlockValues(b) = BlockValues(b) /\ ByRange!BlockValues(b) = BlockValues(b)
    /\ \A v : ByValue!Narrow(v) = Narrow(v) /\ ByRange!Narrow(v) = Narrow(v)
<1>1. /\ ByValue!m_uTotalValues = m_uTotalValues /\ ByRange!m_uTotalValues = m_uTotalValues
      /\ ByValue!m_uBlocksCount = m_uBlocksCount /\ ByRange!m_uBlocksCount = m_uBlocksCount
  BY DEF m_uTotalValues, m_uBlocksCount, ByValue!m_uTotalValues, ByRange!m_uTotalValues,
         ByValue!m_uBlocksCount, ByRange!m_uBlocksCount
<1>2. /\ \A b : ByValue!CalcNumBlockValues(b) = CalcNumBlockValues(b)
      /\ \A b : ByRange!CalcNumBlockValues(b) = CalcNumBlockValues(b)
  BY <1>1, Zenon DEF CalcNumBlockValues, ByValue!CalcNumBlockValues, ByRange!CalcNumBlockValues
<1>3. ByValue!Blocks = Blocks /\ ByRange!Blocks = Blocks
  BY <1>1, Zenon DEF Blocks, ByValue!Blocks, ByRange!Blocks
<1>4. \A b : ByValue!BlockValues(b) = BlockValues(b) /\ ByRange!BlockValues(b) = BlockValues(b)
  BY <1>2, Zenon DEF BlockValues, ByValue!BlockValues, ByRange!BlockValues
<1>5. \A v : ByValue!Narrow(v) = Narrow(v) /\ ByRange!Narrow(v) = Narrow(v)
  BY Zenon DEF Narrow, ByValue!Narrow, ByRange!Narrow
<1> QED
  BY <1>2, <1>3, <1>4, <1>5

LEMMA SameCardinality ==
    \A S : ByValue!Cardinality(S) = Cardinality(S) /\ ByRange!Cardinality(S) = Cardinality(S)
BY Zenon DEF Cardinality, ByValue!Cardinality, ByRange!Cardinality

LEMMA SameSearch ==
    /\ \A v : ByValue!Search(v) = Search(v) /\ ByRange!Search(v) = Search(v)
    /\ \A s : ByValue!BlockIter(s) = BlockIter(s) /\ ByRange!BlockIter(s) = BlockIter(s)
<1>1. /\ ByValue!m_uTotalValues = m_uTotalValues /\ ByRange!m_uTotalValues = m_uTotalValues
      /\ ByValue!m_uBlocksCount = m_uBlocksCount /\ ByRange!m_uBlocksCount = m_uBlocksCount
  BY DEF m_uTotalValues, m_uBlocksCount, ByValue!m_uTotalValues, ByRange!m_uTotalValues,
         ByValue!m_uBlocksCount, ByRange!m_uBlocksCount
<1>2. \A p : /\ ByValue!SearchLo(p) = SearchLo(p) /\ ByRange!SearchLo(p) = SearchLo(p)
             /\ ByValue!SearchHi(p) = SearchHi(p) /\ ByRange!SearchHi(p) = SearchHi(p)
             /\ ByValue!GetValueBlock(p) = GetValueBlock(p)
             /\ ByRange!GetValueBlock(p) = GetValueBlock(p)
  BY <1>1, Zenon DEF SearchLo, SearchHi, GetValueBlock, ByValue!SearchLo, ByRange!SearchLo,
         ByValue!SearchHi, ByRange!SearchHi, ByValue!GetValueBlock, ByRange!GetValueBlock
<1>3. \A v : ByValue!Rank(v) = Rank(v) /\ ByRange!Rank(v) = Rank(v)
  BY SameCardinality, Zenon DEF Rank, ByValue!Rank, ByRange!Rank
<1>4. \A v : ByValue!Search(v) = Search(v) /\ ByRange!Search(v) = Search(v)
  BY <1>1, <1>2, <1>3, Zenon DEF Search, ByValue!Search, ByRange!Search
<1>5. \A s : ByValue!BlockIter(s) = BlockIter(s) /\ ByRange!BlockIter(s) = BlockIter(s)
  BY <1>1, <1>2, Zenon DEF BlockIter, ByValue!BlockIter, ByRange!BlockIter
<1> QED
  BY <1>4, <1>5

-----------------------------------------------------------------------------
(* The values. *)

\* Values of the type stay what they are.
LEMMA NarrowIs ==
    /\ \A v \in Int : Narrow(v) \in 0 .. TypeMax
    /\ \A v \in 0 .. TypeMax : Narrow(v) = v
    /\ \A i \in 1 .. N : Values[i] \in 0 .. TypeMax
<1>1. TypeMax \in Nat
  BY RangeAssumption
<1>2. \A v \in Int : \A t \in Nat : v % (t + 1) \in 0 .. t
  OBVIOUS
<1>3. ASSUME NEW v \in 0 .. TypeMax PROVE v % (TypeMax + 1) = v
  <2> DEFINE d == TypeMax + 1
             q == v \div d
             m == v % d
  <2>1. v \in Nat /\ d \in Nat \ {0} /\ 0 * d <= v /\ v < 0 * d + d
    BY <1>1, <1>3
  <2> HIDE DEF d
  <2>2. q = 0
    BY <2>1, QuotientIs
  <2>3. v = d * q + m /\ m \in Int
    BY <2>1
  <2> HIDE DEF q, m
  <2>4. m = v
    BY <2>1, <2>2, <2>3
  <2> QED
    BY <2>4 DEF m, d
<1>4. \A i \in 1 .. N : Values[i] \in Nat /\ Values[i] <= TypeMax
  BY Sizes, RangeAssumption
<1> QED
  BY <1>1, <1>2, <1>3, <1>4 DEF Narrow

\* Sets of one number at most, in order.
LEMMA AscendingIs ==
    /\ ByValue!Ascending({}) = << >>
    /\ \A b \in Int : ByValue!Ascending({b}) = <<b>>
<1>1. Cardinality({}) = 0
  BY FS_EmptySet
<1>2. ByValue!Ascending({}) = << >>
  BY <1>1, SameCardinality DEF ByValue!Ascending
<1>3. ASSUME NEW b \in Int PROVE ByValue!Ascending({b}) = <<b>>
  <2>1. Cardinality({b}) = 1
    BY FS_Singleton
  <2>2. {c \in {b} : c < b} = {}
    BY <1>3
  <2> DEFINE x(k) == CHOOSE e \in {b} : ByValue!Cardinality({c \in {b} : c < e}) = k - 1
  <2>3. ByValue!Cardinality({c \in {b} : c < b}) = 1 - 1
    BY <1>1, <2>2, SameCardinality
  <2>4. x(1) = b
    BY <2>3
  <2> HIDE DEF x
  <2>5. [k \in 1 .. 1 |-> x(k)] = <<b>>
    BY <2>4
  <2>6. ByValue!Cardinality({b}) = 1
    BY <2>1, SameCardinality
  <2>7. ByValue!Ascending({b}) = [k \in 1 .. 1 |-> x(k)]
    BY <2>6, Zenon DEF ByValue!Ascending, x
  <2> QED
    BY <2>5, <2>7
<1> QED
  BY <1>2, <1>3

LEMMA ConcatTwo ==
    ASSUME NEW T, NEW x \in T, NEW y \in T, NEW z \in T
    PROVE  /\ Append(<<x>>, y) = <<x, y>>
           /\ Append(<<x, y>>, z) = <<x, y, z>>
<1> DEFINE a == <<x>>
           c == <<x, y>>
           d == <<x, y, z>>
<1>1. /\ a \in Seq(T) /\ c \in Seq(T) /\ d \in Seq(T)
      /\ Len(a) = 1 /\ Len(c) = 2 /\ Len(d) = 3
      /\ a[1] = x /\ c[1] = x /\ c[2] = y /\ d[1] = x /\ d[2] = y /\ d[3] = z
  OBVIOUS
<1> HIDE DEF a, c, d
<1>2. Append(a, y) = c
  <2>1. /\ Append(a, y) \in Seq(T) /\ Len(Append(a, y)) = 2
        /\ \A i \in 1 .. 2 : Append(a, y)[i] = c[i]
    BY <1>1, AppendProperties
  <2> QED
    BY <1>1, <2>1, SeqEqual
<1>3. Append(c, z) = d
  <2>1. /\ Append(c, z) \in Seq(T) /\ Len(Append(c, z)) = 3
        /\ \A i \in 1 .. 2 : Append(c, z)[i] = c[i]
        /\ Append(c, z)[3] = z
    BY <1>1, AppendProperties
  <2>2. \A i \in 1 .. 3 : Append(c, z)[i] = d[i]
    BY <1>1, <2>1
  <2> QED
    BY <1>1, <2>1, <2>2, SeqEqual
<1> QED
  BY <1>2, <1>3 DEF a, c, d

LEMMA ConcatShort ==
    ASSUME NEW x, NEW y, NEW z
    PROVE  /\ << >> \o <<x>> \o << >> = <<x>> /\ << >> \o <<x>> \o <<y>> = <<x, y>>
           /\ <<x>> \o <<y>> \o << >> = <<x, y>> /\ <<x>> \o <<y>> \o <<z>> = <<x, y, z>>
<1> DEFINE T == {x, y, z}
<1>1. /\ << >> \in Seq(T) /\ <<x>> \in Seq(T) /\ <<y>> \in Seq(T) /\ <<x, y>> \in Seq(T)
      /\ x \in T /\ y \in T /\ z \in T
  OBVIOUS
<1>2. /\ << >> \o <<x>> = <<x>> /\ <<x>> \o << >> = <<x>> /\ <<x, y>> \o << >> = <<x, y>>
  OBVIOUS
<1> HIDE DEF T
<1>3. Append(<<x>>, y) = <<x, y>> /\ Append(<<x, y>>, z) = <<x, y, z>>
  BY <1>1, ConcatTwo, Zenon
<1>4. Append(<<x>>, y) = <<x>> \o <<y>>
  BY <1>1, AppendIsConcat, Zenon
<1>5. Append(<<x, y>>, z) = <<x, y>> \o <<z>>
  BY <1>1, AppendIsConcat, Zenon
<1> QED
  BY <1>2, <1>3, <1>4, <1>5, Zenon

\* The checks of a value: its block is among them when it has one.
ChecksRight(v, first, lst, c) ==
    /\ c \in Seq({"loaded", "predicted", "scan"} \X Blocks) /\ c # << >>
    /\ \A k \in 1 .. Len(c) : c[k][1] = "scan" => k = Len(c)
    /\ v \in Stored => \E k \in 1 .. Len(c) : In(c[k][2], v)
    /\ \A k \in 1 .. Len(c) : c[k][2] \in first .. lst \/ (k = 1 /\ c[1][1] = "loaded")
    /\ c[1][1] = "loaded" => c[1][2] = loadedValues

LEMMA ChecksAre ==
    ASSUME NEW v, NEW it, IterFits(v, it), loadedValues \in Blocks \cup {ByValue!None}
    PROVE  ChecksRight(v, it.start, it.last, ByValue!Checks(it))
<1>1. PICK p : p = it.start + it.pos
  OBVIOUS
<1>2. PICK f : f = it.start
  OBVIOUS
<1>3. PICK l : l = it.last
  OBVIOUS
<1>4. PICK r : r = loadedValues
  OBVIOUS
<1>5. /\ f \in Blocks /\ l \in Blocks /\ f <= l /\ l <= f + 1 /\ p \in f .. l
      /\ v \in Stored => \E b \in f .. l : In(b, v)
      /\ r \in Blocks \cup {-1}
  BY <1>1, <1>2, <1>3, <1>4 DEF IterFits, ByValue!None
<1>6. f .. l \subseteq Blocks /\ Blocks \subseteq Nat
  BY <1>5, Sizes DEF Blocks
<1> DEFINE fits == ByValue!LoadedFits(it)
           S == (f .. l) \ ({p} \cup (IF fits THEN {r} ELSE {}))
           rest == ByValue!Ascending(S)
           scan == [k \in DOMAIN rest |-> <<"scan", rest[k]>>]
           head == IF fits THEN << <<"loaded", r>> >> ELSE << >>
           c == head \o << <<"predicted", p>> >> \o scan
<1>7. ByValue!Checks(it) = c
  BY <1>1, <1>2, <1>3, <1>4, Zenon DEF ByValue!Checks
<1>8. fits => r \in Blocks
  BY <1>4, <1>5 DEF ByValue!LoadedFits, ByValue!None
<1>9. S = {} \/ \E b \in f .. l : S = {b}
  BY <1>5, <1>6
<1>10. \A b \in f .. l : b = p \/ (fits /\ b = r) \/ b \in S
  OBVIOUS
<1> HIDE DEF fits, S, c
<1>11. SUFFICES ChecksRight(v, f, l, c)
  BY <1>2, <1>3, <1>7, Zenon
<1> USE DEF c
<1>12. /\ fits => head = << <<"loaded", r>> >>
       /\ ~fits => head = << >>
  OBVIOUS
<1>13. CASE S = {}
  <2>1. scan = << >>
    BY <1>13, AscendingIs
  <2> HIDE DEF scan, head
  <2>2. CASE fits
    <3>1. c = << <<"loaded", r>>, <<"predicted", p>> >>
      BY <1>12, <2>1, <2>2, ConcatShort, ZenonT(60)
    <3> HIDE DEF c
    <3> QED
      BY <1>5, <1>6, <1>8, <1>10, <1>13, <2>2, <3>1, <1>4 DEF ChecksRight
  <2>3. CASE ~fits
    <3>1. c = << <<"predicted", p>> >>
      BY <1>12, <2>1, <2>3, ConcatShort
    <3> HIDE DEF c
    <3> QED
      BY <1>5, <1>6, <1>8, <1>10, <1>13, <2>3, <3>1, <1>4 DEF ChecksRight
  <2> QED
    BY <2>2, <2>3
<1>14. ASSUME NEW b \in f .. l, S = {b}
       PROVE  ChecksRight(v, f, l, c)
  <2>1. rest = <<b>>
    BY <1>6, <1>14, AscendingIs
  <2>2. scan = << <<"scan", b>> >>
    BY <2>1
  <2> HIDE DEF scan, head
  <2>3. CASE fits
    <3>1. c = << <<"loaded", r>>, <<"predicted", p>>, <<"scan", b>> >>
      BY <1>12, <2>2, <2>3, ConcatShort, ZenonT(60)
    <3> HIDE DEF c
    <3> QED
      BY <1>5, <1>6, <1>8, <1>10, <1>14, <2>3, <3>1, <1>4 DEF ChecksRight
  <2>4. CASE ~fits
    <3>1. c = << <<"predicted", p>>, <<"scan", b>> >>
      BY <1>12, <2>2, <2>4, ConcatShort
    <3> HIDE DEF c
    <3> QED
      BY <1>5, <1>6, <1>8, <1>10, <1>14, <2>4, <3>1, <1>4 DEF ChecksRight
  <2> QED
    BY <2>3, <2>4
<1> HIDE DEF c
<1> QED
  BY <1>9, <1>13, <1>14

LEMMA AskedAre ==
    ASSUME m_dValues \subseteq WideMin .. WideMax, NEW v \in AskedValues
    PROVE  /\ v \in m_dValues /\ v \in Int /\ v # ByValue!NoValue
           /\ Narrow(v) \in 0 .. TypeMax /\ Narrow(v) \in Int
           /\ ByValue!Narrow(v) = Narrow(v)
           /\ ~m_bExclude => Narrow(v) = v
<1>1. v \in m_dValues /\ (~m_bExclude => Values[1] <= v /\ v <= Values[N])
  BY DEF AskedValues, RemoveOutOfRangeValues, Last, N, m_uTotalValues
<1>2. /\ Values[1] \in 0 .. TypeMax /\ Values[N] \in 0 .. TypeMax /\ TypeMax \in Nat
      /\ WideMin \in Int /\ WideMax \in Int
  BY Sizes, NarrowIs, RangeAssumption
<1>3. v \in Int /\ WideMin <= v
  BY <1>1, <1>2
<1>4. ~m_bExclude => v \in 0 .. TypeMax
  BY <1>1, <1>2, <1>3
<1>5. Narrow(v) \in 0 .. TypeMax /\ ByValue!Narrow(v) = Narrow(v) /\ (~m_bExclude => Narrow(v) = v)
  BY <1>3, <1>4, NarrowIs, SameBlocks
<1>6. v # ByValue!NoValue
  BY <1>2, <1>3 DEF ByValue!NoValue
<1> QED
  BY <1>1, <1>2, <1>3, <1>5, <1>6

\* What does not lie between the ends of the column is not stored.
LEMMA OutsideIs ==
    ASSUME m_dValues \subseteq WideMin .. WideMax, m_eType = "VALUES",
           NEW v \in m_dValues \ AskedValues
    PROVE  v \notin Stored
<1>1. ~(Values[1] <= v /\ v <= Values[N])
  BY DEF AskedValues, RemoveOutOfRangeValues, Last, N, m_uTotalValues
<1>2. ASSUME NEW i \in 1 .. N, v = Values[i] PROVE FALSE
  <2>1. /\ N \in Nat /\ 1 \in 1 .. N /\ N \in 1 .. N
        /\ \A j \in 1 .. N : Values[j] \in Nat
        /\ \A j, k \in 1 .. N : j < k => Values[j] < Values[k]
    BY Sizes
  <2>2. (1 = i \/ Values[1] < Values[i]) /\ (i = N \/ Values[i] < Values[N])
    BY <2>1
  <2> QED
    BY <1>1, <1>2, <2>1, <2>2
<1> QED
  BY <1>2, Sizes DEF Stored

LEMMA InitValue ==
    ASSUME Init
    PROVE  ValueInv
<1> USE DEF ByValue!None, ByValue!Own
<1>1. m_dValues \subseteq WideMin .. WideMax /\ ByValue!CreateBlockReader(AskedValues)
  <2>1. CASE GetValsRows
    BY <2>1, AskedAssumption DEF GetValsRows, AskedValues
  <2>2. CASE GetRangeRows
    BY <2>2 DEF GetRangeRows, AskedValues
  <2> QED
    BY <2>1, <2>2 DEF Init
<1>2. /\ todo = AskedValues /\ cur = ByValue!NoValue /\ toCheck = << >> /\ step = "load" /\ offsets = << >>
      /\ loadedValues = -1 /\ loadedData = -1
      /\ itemsMade = [v \in DOMAIN iters |-> << >>]
      /\ DOMAIN iters = AskedValues
  BY <1>1 DEF ByValue!CreateBlockReader
<1>3. \A v \in AskedValues : \E s \in ByValue!Search(ByValue!Narrow(v)) : iters[v] = ByValue!BlockIter(s)
  BY <1>1 DEF ByValue!CreateBlockReader
<1>4. ASSUME NEW v \in AskedValues PROVE IterFits(Narrow(v), iters[v])
  <2>1. PICK s \in Search(Narrow(v)) : iters[v] = BlockIter(s)
    BY <1>1, <1>3, AskedAre, SameSearch, Zenon
  <2>2. Narrow(v) \in Int
    BY <1>1, AskedAre
  <2> QED
    BY <2>1, <2>2, IterIs DEF IterFits
<1>5. ByValue!NoValue \notin AskedValues
  BY <1>1, AskedAre
<1>6. LookupsFit
  BY <1>1, <1>2, <1>4, <1>5 DEF LookupsFit
<1>7. SeenIsLoaded
  BY <1>2 DEF SeenIsLoaded
<1>8. OffsetsFit
  BY <1>2 DEF OffsetsFit
<1>9. LeftToCheck
  BY <1>2 DEF LeftToCheck
<1>10. ItemsFit
  BY <1>2 DEF ItemsFit
<1> QED
  BY <1>6, <1>7, <1>8, <1>9, <1>10 DEF ValueInv

\* Offsets that are consecutive, the first of them and their number determine each other.
OffsetsRight(first, lst, o) ==
    /\ o \in Seq(Int)
    /\ \A k \in 1 .. Len(o) : o[k] = o[1] + k - 1
    /\ \A b \in first .. lst : o[(b - first) + 1] = b

LEMMA OffsetsAre ==
    ASSUME OffsetsFit, NEW v, NEW it, IterFits(v, it)
    PROVE  OffsetsRight(it.start, it.last, ByValue!LoadBlockOffsets(it))
<1>1. PICK f \in Int : f = it.start
  BY Sizes DEF IterFits, Blocks
<1>2. PICK l \in Int : l = it.last
  BY Sizes DEF IterFits, Blocks
<1>3. f <= l
  BY <1>1, <1>2 DEF IterFits
<1> DEFINE o == ByValue!LoadBlockOffsets(it)
           made == [k \in 1 .. l - f + 1 |-> f + k - 1]
<1>4. o = IF Len(offsets) = l - f + 1 /\ offsets[1] = f THEN offsets ELSE made
  BY <1>1, <1>2, Zenon DEF ByValue!LoadBlockOffsets, ByValue!OffsetsOf
<1>5. ASSUME Len(offsets) = l - f + 1 /\ offsets[1] = f PROVE OffsetsRight(f, l, o)
  <2>1. o = offsets
    BY <1>4, <1>5
  <2>2. \A b \in f .. l : b - f + 1 \in 1 .. Len(offsets) /\ f + (b - f + 1) - 1 = b
    BY <1>5
  <2>3. OffsetsRight(f, l, offsets)
    BY <1>5, <2>2 DEF OffsetsFit, OffsetsRight
  <2> HIDE DEF o
  <2> QED
    BY <2>1, <2>3
<1>6. ASSUME ~(Len(offsets) = l - f + 1 /\ offsets[1] = f) PROVE OffsetsRight(f, l, o)
  <2>1. o = made
    BY <1>4, <1>6
  <2>2. made \in Seq(Int) /\ Len(made) = l - f + 1
    BY <1>3
  <2>3. OffsetsRight(f, l, made)
    <3>1. \A k \in 1 .. Len(made) : made[k] = f + k - 1
      BY <2>2
    <3>2. 1 \in 1 .. Len(made) /\ \A b \in f .. l : (b - f) + 1 \in 1 .. Len(made)
      BY <1>3, <2>2
    <3> HIDE DEF made
    <3> QED
      BY <2>2, <3>1, <3>2 DEF OffsetsRight
  <2> HIDE DEF o
  <2> QED
    BY <2>1, <2>3
<1>7. OffsetsRight(f, l, o)
  BY <1>5, <1>6
<1> HIDE DEF o
<1> QED
  BY <1>1, <1>2, <1>7, Zenon DEF o

\* A value is taken: its window and what is loaded give its checks.
LEMMA NextValueKeeps ==
    ASSUME ValueInv, ByValue!NextValue, UNCHANGED filter
    PROVE  ValueInv'
<1> USE DEF ByValue!None
<1>1. LookupsFit /\ SeenIsLoaded /\ OffsetsFit /\ LeftToCheck /\ ItemsFit
  BY DEF ValueInv
<1>2. /\ cur = ByValue!NoValue
      /\ UNCHANGED <<useCache, iters, itemsMade, loadedValues, pValues, ownValues, cachedValues,
                     loadedData, pData, ownData, cachedData>>
  BY DEF ByValue!NextValue, ByValue!values, ByValue!data
<1>3. PICK v \in todo : /\ cur' = v /\ todo' = todo \ {v}
                        /\ offsets' = ByValue!LoadBlockOffsets(iters[v])
                        /\ toCheck' = ByValue!Checks(iters[v])
                        /\ step' = ByValue!StepOf(toCheck')
  BY DEF ByValue!NextValue
<1>4. AskedValues' = AskedValues /\ m_dValues' = m_dValues
  BY DEF AskedValues, filter
<1>5. /\ v \in AskedValues /\ IterFits(Narrow(v), iters[v])
      /\ v # ByValue!NoValue /\ ByValue!NoValue \notin AskedValues
  <2>1. v \in AskedValues /\ m_dValues \subseteq WideMin .. WideMax
    BY <1>1 DEF LookupsFit
  <2> QED
    BY <1>1, <2>1, AskedAre DEF LookupsFit
<1>6. LookupsFit'
  BY <1>1, <1>2, <1>3, <1>4, <1>5 DEF LookupsFit
<1>7. SeenIsLoaded'
  BY <1>1, <1>2 DEF SeenIsLoaded, ByValue!SeenValues, ByValue!SeenData
<1>8. OffsetsFit'
  <2>1. OffsetsRight(iters[v].start, iters[v].last, offsets')
    BY <1>1, <1>3, <1>5, OffsetsAre, Zenon
  <2> QED
    BY <1>2, <1>3, <2>1 DEF OffsetsFit, OffsetsRight
<1>9. LeftToCheck'
  <2>1. ChecksRight(Narrow(v), iters[v].start, iters[v].last, toCheck')
    <3>1. loadedValues \in Blocks \cup {ByValue!None}
      BY <1>1 DEF SeenIsLoaded
    <3> QED
      BY <1>3, <1>5, <3>1, ChecksAre, Zenon
  <2>2. step' = IF toCheck'[1][1] = "loaded" THEN "look" ELSE "load"
    BY <1>3 DEF ByValue!StepOf
  <2>3. ChecksFit(Narrow(cur), iters[cur], toCheck)'
    BY <1>2, <1>3, <2>1, <2>2 DEF ChecksFit, ChecksRight
  <2> QED
    BY <1>2, <1>3, <2>2, <2>3 DEF LeftToCheck
<1>10. ItemsFit'
  BY <1>1, <1>2, <1>3, <1>4, <1>5 DEF ItemsFit, LookupsFit
<1> QED
  BY <1>6, <1>7, <1>8, <1>9, <1>10 DEF ValueInv

\* A block is loaded, from the cache or with the offsets of the window.
LEMMA LoadKeeps ==
    ASSUME ValueInv, ByValue!LoadBlockValuesToCache, UNCHANGED filter
    PROVE  ValueInv'
<1> USE DEF ByValue!None, ByValue!Own
<1>1. LookupsFit /\ SeenIsLoaded /\ OffsetsFit /\ LeftToCheck /\ ItemsFit
  BY DEF ValueInv
<1>2. /\ cur # ByValue!NoValue /\ step = "load" /\ step' = "look"
      /\ UNCHANGED <<useCache, iters, todo, cur, toCheck, offsets, itemsMade,
                     loadedData, pData, ownData, cachedData>>
  BY DEF ByValue!LoadBlockValuesToCache, ByValue!data
<1>3. PICK b : b = toCheck[1][2]
  OBVIOUS
<1>4. \/ loadedValues = b /\ UNCHANGED <<loadedValues, pValues, ownValues, cachedValues>>
      \/ /\ loadedValues' = b
         /\ \/ pValues' = b
            \/ ownValues' = offsets[b - iters[cur].start + 1] /\ pValues' = -2
  BY <1>3 DEF ByValue!LoadBlockValuesToCache, ByValue!values
<1>5. AskedValues' = AskedValues /\ m_dValues' = m_dValues
  BY DEF AskedValues, filter
<1>6. /\ cur \in AskedValues /\ IterFits(Narrow(cur), iters[cur])
      /\ ChecksFit(Narrow(cur), iters[cur], toCheck)
  BY <1>1, <1>2 DEF LookupsFit, LeftToCheck
<1>7. b \in iters[cur].start .. iters[cur].last /\ b \in Blocks /\ b \in Nat
  <2>1. 1 \in 1 .. Len(toCheck) /\ toCheck[1] \in {"loaded", "predicted", "scan"} \X Blocks
    BY <1>6 DEF ChecksFit
  <2>2. b \in Blocks
    BY <1>3, <2>1
  <2> QED
    BY <1>2, <1>3, <1>6, <2>1, <2>2, BlockIs DEF ChecksFit
<1>8. offsets[(b - iters[cur].start) + 1] = b
  BY <1>1, <1>2, <1>7 DEF OffsetsFit
<1>9. LookupsFit'
  BY <1>1, <1>2, <1>5 DEF LookupsFit
<1>10. SeenIsLoaded'
  <2>1. loadedValues' = b /\ ByValue!SeenValues' = b
    <3>1. CASE loadedValues = b /\ UNCHANGED <<loadedValues, pValues, ownValues, cachedValues>>
      BY <1>1, <1>7, <3>1 DEF SeenIsLoaded, ByValue!SeenValues
    <3>2. CASE loadedValues' = b /\ pValues' = b
      BY <1>7, <3>2 DEF ByValue!SeenValues
    <3>3. CASE loadedValues' = b /\ ownValues' = offsets[b - iters[cur].start + 1] /\ pValues' = -2
      BY <1>7, <1>8, <3>3 DEF ByValue!SeenValues
    <3> QED
      BY <1>4, <3>1, <3>2, <3>3
  <2> QED
    BY <1>1, <1>2, <1>7, <2>1 DEF SeenIsLoaded, ByValue!SeenData
<1>11. OffsetsFit'
  BY <1>1, <1>2 DEF OffsetsFit
<1>12. LeftToCheck'
  <2>1. loadedValues' = b
    BY <1>4
  <2>2. ChecksFit(Narrow(cur), iters[cur], toCheck)'
    BY <1>2, <1>3, <1>6, <2>1 DEF ChecksFit
  <2> QED
    BY <1>2, <2>2 DEF LeftToCheck
<1>13. ItemsFit'
  BY <1>1, <1>2, <1>5 DEF ItemsFit
<1> QED
  BY <1>9, <1>10, <1>11, <1>12, <1>13 DEF ValueInv

\* A look sees the block of the check, and its ends tell the direction.
LEMMA LookSees ==
    ASSUME ValueInv, cur # ByValue!NoValue, step = "look"
    PROVE  /\ cur \in AskedValues /\ Narrow(cur) \in Int /\ ByValue!Narrow(cur) = Narrow(cur)
           /\ toCheck \in Seq({"loaded", "predicted", "scan"} \X Blocks) /\ toCheck # << >>
           /\ toCheck[1][2] \in Blocks /\ loadedValues = toCheck[1][2]
           /\ ByValue!SeenValues = toCheck[1][2]
           /\ ByValue!Seen = BlockValues(toCheck[1][2])
           /\ ByValue!Holds(cur) <=> In(toCheck[1][2], Narrow(cur))
           /\ ByValue!Cmp(cur) = IF LastOf(toCheck[1][2]) < Narrow(cur) THEN 1
                                 ELSE IF Narrow(cur) < FirstOf(toCheck[1][2]) THEN -1 ELSE 0
<1>1. PICK c : c = toCheck[1][2]
  OBVIOUS
<1>2. /\ cur \in AskedValues /\ m_dValues \subseteq WideMin .. WideMax
      /\ ChecksFit(Narrow(cur), iters[cur], toCheck)
  BY DEF ValueInv, LookupsFit, LeftToCheck
<1>3. Narrow(cur) \in Int /\ ByValue!Narrow(cur) = Narrow(cur)
  BY <1>2, AskedAre
<1>4. /\ toCheck \in Seq({"loaded", "predicted", "scan"} \X Blocks) /\ toCheck # << >>
      /\ loadedValues = c
  BY <1>1, <1>2 DEF ChecksFit
<1>5. c \in Blocks /\ c # ByValue!None
  <2>1. toCheck[1] \in {"loaded", "predicted", "scan"} \X Blocks
    BY <1>4
  <2> QED
    BY <1>1, <2>1, BlockIs DEF ByValue!None
<1>6. ByValue!SeenValues = c
  BY <1>4, <1>5 DEF ValueInv, SeenIsLoaded
<1>7. ByValue!Seen = BlockValues(c)
  BY <1>6, SameBlocks, Zenon DEF ByValue!Seen
<1>8. ByValue!Holds(cur) <=> In(c, Narrow(cur))
  BY <1>3, <1>7, Zenon DEF ByValue!Holds, In
<1>9. ByValue!Cmp(cur) = IF LastOf(c) < Narrow(cur) THEN 1 ELSE IF Narrow(cur) < FirstOf(c) THEN -1 ELSE 0
  BY <1>3, <1>6, <1>7, SameBlocks, Zenon DEF ByValue!Cmp, FirstOf, LastOf
<1> QED
  BY <1>1, <1>2, <1>3, <1>4, <1>5, <1>6, <1>7, <1>8, <1>9, Zenon

\* A value that is stored is in the block seen, or the direction says it is not.
LEMMA LookTells ==
    ASSUME ValueInv, cur # ByValue!NoValue, step = "look", Narrow(cur) \in Stored
    PROVE  /\ \E k \in 1 .. Len(toCheck) : In(toCheck[k][2], Narrow(cur))
           /\ ByValue!Cmp(cur) = 0 <=> In(toCheck[1][2], Narrow(cur))
           /\ ByValue!Holds(cur) <=> In(toCheck[1][2], Narrow(cur))
<1>1. ChecksFit(Narrow(cur), iters[cur], toCheck)
  BY DEF ValueInv, LookupsFit, LeftToCheck
<1>2. PICK c : c = toCheck[1][2]
  OBVIOUS
<1>3. /\ c \in Blocks
      /\ ByValue!Holds(cur) <=> In(c, Narrow(cur))
      /\ ByValue!Cmp(cur) = IF LastOf(c) < Narrow(cur) THEN 1 ELSE IF Narrow(cur) < FirstOf(c) THEN -1 ELSE 0
  BY <1>2, LookSees, Zenon
<1>4. \E k \in 1 .. Len(toCheck) : In(toCheck[k][2], Narrow(cur))
  BY <1>1 DEF ChecksFit
<1>5. PICK b \in Blocks : In(b, Narrow(cur))
  BY StoredIs
<1>6. Narrow(cur) \in Nat /\ FirstOf(c) \in Nat /\ LastOf(c) \in Nat
  BY <1>3, <1>5, HomeIs, EndsAre
<1>7. FirstOf(c) <= LastOf(c)
  <2>1. \A i \in DOMAIN BlockValues(c) : FirstOf(c) <= BlockValues(c)[i] /\ BlockValues(c)[i] <= LastOf(c)
    BY <1>3, EndsAre
  <2>2. PICK i \in DOMAIN BlockValues(c) : BlockValues(c)[i] = FirstOf(c)
    BY <1>3, EndsAre DEF In
  <2> QED
    BY <2>1, <2>2
<1>8. ASSUME In(c, Narrow(cur)) PROVE ByValue!Cmp(cur) = 0
  <2>1. FirstOf(c) <= Narrow(cur) /\ Narrow(cur) <= LastOf(c)
    BY <1>3, <1>8, HomeIs
  <2> QED
    BY <1>3, <1>6, <2>1
<1>9. ASSUME ~In(c, Narrow(cur)) PROVE ByValue!Cmp(cur) # 0
  <2>1. c # b /\ c \in Nat /\ b \in Nat
    BY <1>3, <1>5, <1>9, BlockIs
  <2>2. c < b => LastOf(c) < Narrow(cur)
    BY <1>3, <1>5, HomeIs
  <2>3. b < c => Narrow(cur) < FirstOf(c)
    BY <1>3, <1>5, HomeIs
  <2> QED
    BY <1>3, <1>6, <1>7, <2>1, <2>2, <2>3
<1> QED
  BY <1>2, <1>3, <1>4, <1>8, <1>9

LEMMA LookFindsKeeps ==
    ASSUME ValueInv, ByValue!LookFinds, UNCHANGED filter
    PROVE  ValueInv'
<1> USE DEF ByValue!None, ByValue!Own
<1>1. LookupsFit /\ SeenIsLoaded /\ OffsetsFit /\ LeftToCheck /\ ItemsFit
  BY DEF ValueInv
<1>2. /\ cur # ByValue!NoValue /\ step = "look" /\ ByValue!Holds(cur)
      /\ cur' = ByValue!NoValue /\ toCheck' = << >> /\ step' = "load"
      /\ UNCHANGED <<useCache, iters, todo, offsets, loadedValues, pValues, ownValues, cachedValues>>
  BY DEF ByValue!LookFinds, ByValue!values, ByValue!EndValue
<1>3. PICK c : c = toCheck[1][2]
  OBVIOUS
<1>4. /\ cur \in AskedValues /\ ByValue!Narrow(cur) = Narrow(cur) /\ c \in Blocks /\ loadedValues = c
      /\ ByValue!SeenValues = c /\ ByValue!Seen = BlockValues(c) /\ In(c, Narrow(cur))
  BY <1>2, <1>3, LookSees, Zenon
<1>5. c \in Nat
  BY <1>4, BlockIs
<1>6. AskedValues' = AskedValues /\ m_dValues' = m_dValues
  BY DEF AskedValues, filter
<1>7. ByValue!LoadBlockDataToCache(c)
  BY <1>2, <1>3 DEF ByValue!LookFinds, ByValue!AddIterator
<1>8. loadedData' = c /\ ByValue!SeenData' = c
  <2>1. CASE loadedData = loadedValues /\ UNCHANGED <<loadedData, pData, ownData, cachedData>>
    BY <1>1, <1>4, <1>5, <2>1 DEF SeenIsLoaded, ByValue!SeenData
  <2>2. CASE /\ loadedData' = loadedValues
             /\ \/ pData' = c
                \/ ownData' = ByValue!SeenValues /\ pData' = -2
    BY <1>4, <1>5, <2>2 DEF ByValue!SeenData
  <2> QED
    BY <1>7, <2>1, <2>2 DEF ByValue!LoadBlockDataToCache, ByValue!data
<1>9. PICK i \in DOMAIN BlockValues(c) :
         /\ BlockValues(c)[i] = Narrow(cur)
         /\ itemsMade' = [itemsMade EXCEPT ![cur] = Append(@, [item |-> i, block |-> c])]
  <2>1. \E i \in DOMAIN ByValue!Seen :
           /\ ByValue!Seen[i] = ByValue!Narrow(cur)
           /\ itemsMade' = [itemsMade EXCEPT ![cur] = Append(@, [item |-> i, block |-> ByValue!SeenData'])]
    BY DEF ByValue!LookFinds, ByValue!AddIterator
  <2> QED
    BY <1>4, <1>8, <2>1, Zenon
<1>10. LookupsFit'
  <2>1. ByValue!NoValue \notin AskedValues
    BY <1>1, AskedAre DEF LookupsFit
  <2> QED
    BY <1>1, <1>2, <1>6, <2>1 DEF LookupsFit
<1>11. SeenIsLoaded'
  BY <1>1, <1>2, <1>4, <1>8 DEF SeenIsLoaded, ByValue!SeenValues
<1>12. OffsetsFit'
  BY <1>1, <1>2 DEF OffsetsFit
<1>13. LeftToCheck'
  BY <1>2 DEF LeftToCheck
<1>14. ItemsFit'
  <2> DEFINE e == [item |-> i, block |-> c]
             T == [item : Nat, block : Blocks]
  <2>1. e \in T /\ e.item = i /\ e.block = c
    BY <1>4, BlockIs
  <2>2. /\ itemsMade \in [AskedValues -> Seq(T)] /\ itemsMade[cur] = << >>
        /\ todo \subseteq AskedValues /\ cur \notin todo
        /\ ByValue!NoValue \notin AskedValues
    <3>1. \A v \in AskedValues : v # ByValue!NoValue
      BY <1>1, AskedAre DEF LookupsFit
    <3> QED
      BY <1>1, <1>2, <1>4, <3>1 DEF ItemsFit, LookupsFit
  <2>3. Narrow(cur) \in Stored
    BY <1>4, StoredIs
  <2>4. PICK s : s = Append(<< >>, e)
    OBVIOUS
  <2>5. s \in Seq(T) /\ Len(s) = 1 /\ s[1] = e
    BY <2>1, <2>4
  <2>6. itemsMade' = [itemsMade EXCEPT ![cur] = s]
    BY <1>9, <2>2, <2>4, Zenon
  <2> HIDE DEF e, T
  <2>7. itemsMade' \in [AskedValues -> Seq(T)]
    BY <1>4, <2>2, <2>5, <2>6
  <2>8. \A v \in AskedValues : itemsMade'[v] = IF v = cur THEN s ELSE itemsMade[v]
    BY <1>4, <2>2, <2>6
  <2>9. \A v \in todo' \cup {cur'} : v # ByValue!NoValue => itemsMade'[v] = << >>
    BY <1>1, <1>2, <2>2, <2>8 DEF ItemsFit
  <2>10. \A v \in AskedValues \ (todo' \cup {cur'}) : Len(itemsMade'[v]) = IF Narrow(v) \in Stored THEN 1 ELSE 0
    BY <1>1, <1>2, <2>2, <2>3, <2>5, <2>8 DEF ItemsFit
  <2>11. \A v \in AskedValues : \A k \in 1 .. Len(itemsMade'[v]) :
             BlockValues(itemsMade'[v][k].block)[itemsMade'[v][k].item] = Narrow(v)
    <3>1. \A k \in 1 .. Len(s) : BlockValues(s[k].block)[s[k].item] = Narrow(cur)
      BY <1>9, <2>1, <2>5
    <3> QED
      BY <1>1, <2>8, <3>1 DEF ItemsFit
  <2> QED
    BY <1>6, <2>7, <2>9, <2>10, <2>11 DEF ItemsFit, T
<1> QED
  BY <1>10, <1>11, <1>12, <1>13, <1>14 DEF ValueInv

\* When no iterator is made, the value has no block.
LEMMA LookEndsKeeps ==
    ASSUME ValueInv, ByValue!LookEnds, UNCHANGED filter
    PROVE  ValueInv'
<1> USE DEF ByValue!None
<1>1. LookupsFit /\ SeenIsLoaded /\ OffsetsFit /\ LeftToCheck /\ ItemsFit
  BY DEF ValueInv
<1>2. /\ cur # ByValue!NoValue /\ step = "look" /\ ~ByValue!Holds(cur)
      /\ ByValue!Cmp(cur) = 0 \/ toCheck[1][1] = "scan" \/ Len(toCheck) = 1
      /\ cur' = ByValue!NoValue /\ toCheck' = << >> /\ step' = "load"
      /\ UNCHANGED <<useCache, iters, todo, offsets, itemsMade>>
      /\ UNCHANGED <<loadedValues, pValues, ownValues, cachedValues>>
      /\ UNCHANGED <<loadedData, pData, ownData, cachedData>>
  BY DEF ByValue!LookEnds, ByValue!values, ByValue!data, ByValue!EndValue
<1>3. AskedValues' = AskedValues /\ m_dValues' = m_dValues
  BY DEF AskedValues, filter
<1>4. cur \in AskedValues /\ ChecksFit(Narrow(cur), iters[cur], toCheck)
  BY <1>1, <1>2 DEF LookupsFit, LeftToCheck
<1>5. Narrow(cur) \notin Stored
  <2>1. SUFFICES ASSUME Narrow(cur) \in Stored PROVE FALSE
    OBVIOUS
  <2>2. /\ \E k \in 1 .. Len(toCheck) : In(toCheck[k][2], Narrow(cur))
        /\ ByValue!Cmp(cur) # 0 /\ ~In(toCheck[1][2], Narrow(cur))
    BY <1>2, <2>1, LookTells
  <2>3. Len(toCheck) # 1
    BY <2>2
  <2>4. toCheck[1][1] = "scan"
    BY <1>2, <2>2, <2>3
  <2>5. 1 \in 1 .. Len(toCheck)
    BY <1>4 DEF ChecksFit
  <2> QED
    BY <1>4, <2>3, <2>4, <2>5 DEF ChecksFit
<1>6. LookupsFit'
  <2>1. ByValue!NoValue \notin AskedValues
    BY <1>1, AskedAre DEF LookupsFit
  <2> QED
    BY <1>1, <1>2, <1>3, <2>1 DEF LookupsFit
<1>7. SeenIsLoaded'
  BY <1>1, <1>2 DEF SeenIsLoaded, ByValue!SeenValues, ByValue!SeenData
<1>8. OffsetsFit'
  BY <1>1, <1>2 DEF OffsetsFit
<1>9. LeftToCheck'
  BY <1>2 DEF LeftToCheck
<1>10. ItemsFit'
  <2>1. itemsMade[cur] = << >> /\ Len(itemsMade[cur]) = 0
    BY <1>1, <1>2 DEF ItemsFit
  <2> QED
    BY <1>1, <1>2, <1>3, <1>4, <1>5, <2>1 DEF ItemsFit
<1> QED
  BY <1>6, <1>7, <1>8, <1>9, <1>10 DEF ValueInv

\* A check that does not tell leaves the block of a stored value to the others.
LEMMA LookElsewhereKeeps ==
    ASSUME ValueInv, ByValue!LookElsewhere, UNCHANGED filter
    PROVE  ValueInv'
<1> USE DEF ByValue!None
<1>1. LookupsFit /\ SeenIsLoaded /\ OffsetsFit /\ LeftToCheck /\ ItemsFit
  BY DEF ValueInv
<1>2. /\ cur # ByValue!NoValue /\ step = "look"
      /\ ByValue!Cmp(cur) # 0 /\ Len(toCheck) > 1
      /\ toCheck' = Tail(toCheck) /\ step' = "load"
      /\ UNCHANGED <<useCache, iters, todo, cur, offsets, itemsMade>>
      /\ UNCHANGED <<loadedValues, pValues, ownValues, cachedValues>>
      /\ UNCHANGED <<loadedData, pData, ownData, cachedData>>
  BY DEF ByValue!LookElsewhere, ByValue!values, ByValue!data
<1>3. AskedValues' = AskedValues /\ m_dValues' = m_dValues
  BY DEF AskedValues, filter
<1>4. cur \in AskedValues /\ ChecksFit(Narrow(cur), iters[cur], toCheck)
  BY <1>1, <1>2 DEF LookupsFit, LeftToCheck
<1>5. PICK t : t = Tail(toCheck)
  OBVIOUS
<1>6. ChecksFit(Narrow(cur), iters[cur], toCheck)'
  <2> DEFINE T == {"loaded", "predicted", "scan"} \X Blocks
             n == Len(toCheck)
  <2>1. toCheck \in Seq(T) /\ n \in Nat /\ n > 1
    BY <1>2, <1>4 DEF ChecksFit
  <2> HIDE DEF T
  <2>2. t \in Seq(T) /\ t # << >> /\ Len(t) = n - 1 /\ \A k \in 1 .. n - 1 : t[k] = toCheck[k + 1]
    <3>1. toCheck # << >>
      BY <2>1
    <3>2. t \in Seq(T) /\ Len(t) = Len(toCheck) - 1 /\ \A k \in 1 .. Len(t) : t[k] = toCheck[k + 1]
      BY <1>5, <2>1, <3>1, HeadTailProperties, Zenon
    <3> QED
      BY <2>1, <3>2
  <2>3. ASSUME NEW k \in 1 .. Len(t), t[k][1] = "scan" PROVE k = Len(t)
    <3>1. k + 1 \in 1 .. n /\ toCheck[k + 1][1] = "scan"
      BY <2>1, <2>2, <2>3
    <3> QED
      BY <1>4, <2>1, <2>2, <3>1 DEF ChecksFit
  <2>4. ASSUME Narrow(cur) \in Stored PROVE \E k \in 1 .. Len(t) : In(t[k][2], Narrow(cur))
    <3>1. PICK k \in 1 .. n : In(toCheck[k][2], Narrow(cur))
      BY <1>4, <2>4 DEF ChecksFit
    <3>2. k # 1
      BY <1>2, <2>4, <3>1, LookTells
    <3>3. k - 1 \in 1 .. n - 1 /\ t[k - 1] = toCheck[k]
      BY <2>1, <2>2, <3>2
    <3> QED
      BY <2>2, <3>1, <3>3
  <2>5. ASSUME NEW k \in 1 .. Len(t) PROVE t[k][2] \in iters[cur].start .. iters[cur].last
    <3>1. k + 1 \in 1 .. n /\ k + 1 # 1 /\ t[k] = toCheck[k + 1]
      BY <2>1, <2>2
    <3> QED
      BY <1>4, <3>1 DEF ChecksFit
  <2> QED
    BY <1>2, <1>5, <2>2, <2>3, <2>4, <2>5 DEF ChecksFit, T
<1>7. LookupsFit'
  BY <1>1, <1>2, <1>3 DEF LookupsFit
<1>8. SeenIsLoaded'
  BY <1>1, <1>2 DEF SeenIsLoaded, ByValue!SeenValues, ByValue!SeenData
<1>9. OffsetsFit'
  BY <1>1, <1>2 DEF OffsetsFit
<1>10. LeftToCheck'
  BY <1>2, <1>6 DEF LeftToCheck
<1>11. ItemsFit'
  BY <1>1, <1>2, <1>3 DEF ItemsFit
<1> QED
  BY <1>7, <1>8, <1>9, <1>10, <1>11 DEF ValueInv

\* Other queries leave what the reader has loaded.
LEMMA OthersKeep ==
    ASSUME ValueInv, ByValue!CacheGains \/ UNCHANGED valueVars, UNCHANGED filter
    PROVE  ValueInv'
<1>1. UNCHANGED <<iters, todo, cur, toCheck, step, offsets, itemsMade,
                  loadedValues, pValues, ownValues, loadedData, pData, ownData>>
  BY DEF valueVars, ByValue!CacheGains, ByValue!lookup
<1>2. AskedValues' = AskedValues /\ m_dValues' = m_dValues
  BY DEF AskedValues, filter
<1>3. LookupsFit'
  BY <1>1, <1>2 DEF ValueInv, LookupsFit
<1>4. SeenIsLoaded'
  BY <1>1 DEF ValueInv, SeenIsLoaded, ByValue!SeenValues, ByValue!SeenData
<1>5. OffsetsFit'
  BY <1>1 DEF ValueInv, OffsetsFit
<1>6. LeftToCheck'
  BY <1>1 DEF ValueInv, LeftToCheck, ChecksFit
<1>7. ItemsFit'
  BY <1>1, <1>2 DEF ValueInv, ItemsFit
<1> QED
  BY <1>3, <1>4, <1>5, <1>6, <1>7 DEF ValueInv

-----------------------------------------------------------------------------
(* The range. *)

FilterFits(f) ==
    /\ f.min \in Int /\ f.max \in Int
    /\ f.leftClosed \in BOOLEAN /\ f.rightClosed \in BOOLEAN
    /\ f.leftUnbounded \in BOOLEAN /\ f.rightUnbounded \in BOOLEAN

\* A filter that is fixed up admits what the caller means, if the type can meet it.
LEMMA FixupIs ==
    ASSUME NEW f \in Filter
    PROVE  /\ FilterFits(FixupFilterSettings(f))
           /\ ByRange!MeetsType(f) =>
                 \A v \in 0 .. TypeMax : Admits(FixupFilterSettings(f), v) <=> Matches(f, v)
<1> DEFINE l == FixupLeft(f)
           g == FixupFilterSettings(f)
<1>1. /\ f.min \in Int /\ f.max \in Int /\ TypeMax \in Nat /\ WideMin \in Int /\ WideMax \in Int
      /\ f.leftClosed \in BOOLEAN /\ f.rightClosed \in BOOLEAN
      /\ f.leftUnbounded \in BOOLEAN /\ f.rightUnbounded \in BOOLEAN
      /\ f \in [min : Int, max : Int, leftClosed : BOOLEAN, rightClosed : BOOLEAN,
                leftUnbounded : BOOLEAN, rightUnbounded : BOOLEAN]
  <2>1. WideMin \in Int /\ WideMax \in Int /\ Ends \subseteq WideMin .. WideMax
    BY RangeAssumption
  <2>2. Ends \subseteq Int
    BY <2>1
  <2>3. TypeMax \in Nat
    BY RangeAssumption
  <2> QED
    BY <2>1, <2>2, <2>3 DEF Filter
<1>2. /\ l \in [min : Int, max : Int, leftClosed : BOOLEAN, rightClosed : BOOLEAN,
                leftUnbounded : BOOLEAN, rightUnbounded : BOOLEAN]
      /\ l.max = f.max /\ l.rightClosed = f.rightClosed /\ l.rightUnbounded = f.rightUnbounded
      /\ f.min < 0 => l.leftUnbounded
      /\ ~(f.min < 0) => l.min = f.min /\ l.leftClosed = f.leftClosed
                         /\ l.leftUnbounded = f.leftUnbounded
  <2>1. CASE f.min < 0
    <3>1. l = [f EXCEPT !.min = WideMin, !.leftUnbounded = TRUE, !.leftClosed = FALSE]
      BY <2>1 DEF FixupLeft
    <3> HIDE DEF l
    <3> QED
      BY <1>1, <2>1, <3>1
  <2>2. CASE ~(f.min < 0)
    <3>1. l = f
      BY <2>2 DEF FixupLeft
    <3> QED
      BY <1>1, <2>2, <3>1
  <2> QED
    BY <2>1, <2>2
<1> HIDE DEF l
<1>3. g = FixupRight(l)
  BY DEF FixupFilterSettings, l
<1>4. /\ FilterFits(g)
      /\ g.min = l.min /\ g.leftClosed = l.leftClosed /\ g.leftUnbounded = l.leftUnbounded
      /\ f.max > TypeMax => g.rightUnbounded
      /\ ~(f.max > TypeMax) => g.max = f.max /\ g.rightClosed = f.rightClosed
                               /\ g.rightUnbounded = f.rightUnbounded
  BY <1>1, <1>2, <1>3 DEF FixupRight, FilterFits
<1> HIDE DEF g
<1>5. ASSUME ByRange!MeetsType(f), NEW v \in 0 .. TypeMax PROVE Admits(g, v) <=> Matches(f, v)
  <2>1. /\ f.leftUnbounded \/ f.min <= TypeMax
        /\ f.rightUnbounded \/ f.max >= 0
    BY <1>5 DEF ByRange!MeetsType
  <2>2. \/ g.leftUnbounded
        \/ Narrow(g.min) < v
        \/ g.leftClosed /\ Narrow(g.min) = v
        <=> f.leftUnbounded \/ f.min < v \/ (f.leftClosed /\ f.min = v)
    <3>1. CASE f.min < 0
      BY <1>1, <1>2, <1>4, <3>1
    <3>2. CASE ~(f.min < 0) /\ f.leftUnbounded
      BY <1>2, <1>4, <3>2
    <3>3. CASE ~(f.min < 0) /\ ~f.leftUnbounded
      <4>1. f.min \in 0 .. TypeMax
        BY <1>1, <2>1, <3>3
      <4>2. Narrow(g.min) = f.min
        BY <1>2, <1>4, <3>3, <4>1, NarrowIs
      <4> QED
        BY <1>2, <1>4, <3>3, <4>2
    <3> QED
      BY <3>1, <3>2, <3>3
  <2>3. g.rightUnbounded \/ v < Narrow(g.max) \/ (g.rightClosed /\ Narrow(g.max) = v)
        <=> f.rightUnbounded \/ v < f.max \/ (f.rightClosed /\ f.max = v)
    <3>1. CASE f.max > TypeMax
      BY <1>1, <1>4, <3>1
    <3>2. CASE ~(f.max > TypeMax) /\ f.rightUnbounded
      BY <1>4, <3>2
    <3>3. CASE ~(f.max > TypeMax) /\ ~f.rightUnbounded
      <4>1. f.max \in 0 .. TypeMax
        BY <1>1, <2>1, <3>3
      <4>2. Narrow(g.max) = f.max
        BY <1>4, <3>3, <4>1, NarrowIs
      <4> QED
        BY <1>4, <3>3, <4>2
    <3> QED
      BY <3>1, <3>2, <3>3
  <2> QED
    BY <2>2, <2>3, Zenon DEF Admits, Matches
<1> QED
  BY <1>4, <1>5 DEF g

LEMMA AdmitsIs ==
    ASSUME FilterFits(range), NEW v \in Int
    PROVE  ByRange!EvalRangeValue(v) <=> Admits(range, v)
<1>1. PICK lo \in Int : lo = Narrow(range.min)
  BY NarrowIs DEF FilterFits
<1>2. PICK hi \in Int : hi = Narrow(range.max)
  BY NarrowIs DEF FilterFits
<1>3. /\ (IF range.leftClosed THEN lo <= v ELSE lo < v)
            <=> lo < v \/ (range.leftClosed /\ lo = v)
      /\ (IF range.rightClosed THEN v <= hi ELSE v < hi)
            <=> v < hi \/ (range.rightClosed /\ hi = v)
  OBVIOUS
<1>4. Admits(range, v) <=> /\ range.leftUnbounded \/ lo < v \/ (range.leftClosed /\ lo = v)
                           /\ range.rightUnbounded \/ v < hi \/ (range.rightClosed /\ hi = v)
  BY <1>1, <1>2, Zenon DEF Admits
<1>5. ByRange!EvalRangeValue(v)
        <=> LET above == IF range.leftClosed THEN lo <= v ELSE lo < v
                below == IF range.rightClosed THEN v <= hi ELSE v < hi
            IN  IF range.leftUnbounded /\ range.rightUnbounded THEN TRUE
                ELSE IF range.leftUnbounded THEN below
                ELSE IF range.rightUnbounded THEN above
                ELSE above /\ below
  BY <1>1, <1>2, SameBlocks, Zenon DEF ByRange!EvalRangeValue
<1> QED
  BY <1>3, <1>4, <1>5, Zenon

\* What is admitted lies between the ends, and there are no gaps in it.
LEMMA EndsOf ==
    ASSUME NEW f, FilterFits(f)
    PROVE  /\ LowOf(f) \in 0 .. TypeMax /\ HighOf(f) \in 0 .. TypeMax
           /\ \A v \in 0 .. TypeMax : Admits(f, v) => LowOf(f) <= v /\ v <= HighOf(f)
           /\ \A u, v, w \in Int : u <= v /\ v <= w /\ Admits(f, u) /\ Admits(f, w) => Admits(f, v)
<1>1. PICK lo : lo = Narrow(f.min)
  OBVIOUS
<1>2. PICK hi : hi = Narrow(f.max)
  OBVIOUS
<1>3. lo \in 0 .. TypeMax /\ hi \in 0 .. TypeMax /\ TypeMax \in Nat
  BY <1>1, <1>2, NarrowIs, RangeAssumption DEF FilterFits
<1> QED
  BY <1>1, <1>2, <1>3 DEF LowOf, HighOf, Admits, FilterFits

\* A block that does not overlap the range has nothing in it; one that is behind it
\* begins after its upper end.
LEMMA CmpBlockIs ==
    ASSUME FilterFits(range), NEW b \in Blocks
    PROVE  /\ ByRange!CmpBlock(BlockValues(b)) # 0 =>
                 \A i \in DOMAIN BlockValues(b) : ~Admits(range, BlockValues(b)[i])
           /\ ByRange!CmpBlock(BlockValues(b)) = 1 => HighOf(range) < FirstOf(b)
<1>1. PICK n : n = CalcNumBlockValues(b)
  OBVIOUS
<1>2. n \in Nat /\ n > 0 /\ DOMAIN BlockValues(b) = 0 .. n - 1
  BY <1>1, BlockIs, Sizes
<1>3. Cardinality(0 .. n - 1) = n
  <2>1. Cardinality(0 .. n - 1) = (n - 1) - 0 + 1
    BY <1>2, FS_Interval
  <2> QED
    BY <1>2, <2>1
<1>4. ByRange!Cardinality(DOMAIN BlockValues(b)) - 1 = n - 1
  BY <1>2, <1>3, SameCardinality
<1>5. PICK lo : lo = LowOf(range)
  OBVIOUS
<1>6. PICK hi : hi = HighOf(range)
  OBVIOUS
<1>7. PICK x : x = FirstOf(b)
  OBVIOUS
<1>8. PICK y : y = LastOf(b)
  OBVIOUS
<1>9. ByRange!CmpBlock(BlockValues(b))
        = IF range.leftUnbounded /\ range.rightUnbounded THEN 0
          ELSE IF x <= hi /\ lo <= y THEN 0
          ELSE IF x < lo \/ (x = lo /\ y < hi) THEN -1 ELSE 1
  BY <1>1, <1>4, <1>5, <1>6, <1>7, <1>8, SameBlocks, Zenon
     DEF ByRange!CmpBlock, LowOf, HighOf, FirstOf, LastOf
<1>10. /\ lo \in Int /\ hi \in Int
       /\ \A v \in 0 .. TypeMax : Admits(range, v) => lo <= v /\ v <= hi
  BY <1>5, <1>6, EndsOf
<1>11. /\ x \in Int /\ y \in Int
       /\ \A i \in DOMAIN BlockValues(b) : x <= BlockValues(b)[i] /\ BlockValues(b)[i] <= y
       /\ x <= y
  <2>1. /\ x \in Nat /\ y \in Nat
        /\ \A i \in DOMAIN BlockValues(b) : x <= BlockValues(b)[i] /\ BlockValues(b)[i] <= y
    BY <1>7, <1>8, EndsAre
  <2>2. 0 \in DOMAIN BlockValues(b) /\ BlockValues(b)[0] = x
    BY <1>2, <1>7 DEF FirstOf
  <2> QED
    BY <2>1, <2>2
<1>12. \A i \in DOMAIN BlockValues(b) : BlockValues(b)[i] \in 0 .. TypeMax
  <2>1. \A i \in 0 .. n - 1 : BlockValues(b)[i] = Values[At(b, i) + 1] /\ At(b, i) \in 0 .. N - 1
    BY <1>1, BlockIs
  <2>2. \A p \in 0 .. N - 1 : Values[p + 1] \in 0 .. TypeMax
    BY Sizes, NarrowIs
  <2> QED
    BY <1>2, <2>1, <2>2
<1>13. ByRange!CmpBlock(BlockValues(b)) # 0 => ~(x <= hi /\ lo <= y)
  BY <1>9
<1>14. ByRange!CmpBlock(BlockValues(b)) = 1 => hi < x
  BY <1>9, <1>10, <1>11
<1> QED
  BY <1>6, <1>7, <1>10, <1>11, <1>12, <1>13, <1>14

\* The values between two numbers lie between their ranks.
LEMMA RanksHold ==
    ASSUME NEW lo \in Int, NEW hi \in Int, NEW p \in 0 .. N - 1
    PROVE  /\ lo <= Values[p + 1] => Rank(lo) <= p
           /\ Values[p + 1] <= hi => p <= Rank(hi)
<1>1. /\ N \in Nat /\ \A i \in 1 .. N : Values[i] \in Nat
      /\ \A i, j \in 1 .. N : i < j => Values[i] < Values[j]
  BY Sizes
<1>2. PICK a : a = Rank(lo)
  OBVIOUS
<1>3. PICK b : b = Rank(hi)
  OBVIOUS
<1>4. /\ a \in 0 .. N /\ b \in 0 .. N
      /\ \A i \in 1 .. N : Values[i] < lo <=> i <= a
  BY <1>2, <1>3, RankIs
<1>5. \A i \in 1 .. N : Values[i] < hi <=> i <= b
  BY <1>3, RankIs
<1>6. p + 1 \in 1 .. N /\ p \in Int
  BY <1>1
<1>7. ASSUME lo <= Values[p + 1] PROVE a <= p
  <2>1. ~(Values[p + 1] < lo)
    BY <1>1, <1>6, <1>7
  <2> QED
    BY <1>4, <1>6, <2>1
<1>8. ASSUME Values[p + 1] <= hi PROVE p <= b
  <2>1. CASE p = 0
    BY <1>4, <2>1
  <2>2. CASE p # 0
    <3>1. p \in 1 .. N /\ p < p + 1
      BY <1>1, <2>2
    <3>2. Values[p] < hi
      BY <1>1, <1>6, <1>8, <3>1
    <3> QED
      BY <1>5, <3>1, <3>2
  <2> QED
    BY <2>1, <2>2
<1> QED
  BY <1>2, <1>3, <1>7, <1>8

\* The positions the range spans have all that it admits.
LEMMA PrepareIs ==
    ASSUME NEW f, FilterFits(f), NEW s \in ByRange!PrepareBlocksRange(f)
    PROVE  /\ s.pos \in 0 .. N /\ s.lo \in Nat /\ s.hi \in Nat /\ s.lo <= s.pos
           /\ \A p \in 0 .. N - 1 :
                 Admits(f, Values[p + 1]) =>
                    s.lo <= p /\ (p <= s.hi \/ s.hi = (m_uBlocksCount - 1) * V)
<1> DEFINE low == IF f.leftUnbounded THEN 0 ELSE ByRange!Narrow(f.min)
           high == IF f.rightUnbounded THEN TypeMax ELSE ByRange!Narrow(f.max)
           least(a, b) == IF a < b THEN a ELSE b
           most(a, b) == IF a < b THEN b ELSE a
           top == (ByRange!m_uBlocksCount - 1) * ValuesPerBlock
           both == {[lo |-> least(p.lo, q.lo), pos |-> least(p.pos, q.pos), hi |-> most(p.hi, q.hi)] :
                       p \in ByRange!Search(low), q \in ByRange!Search(high)}
           left == {[lo |-> p.lo, pos |-> p.pos, hi |-> top] : p \in ByRange!Search(low)}
           right == {[lo |-> 0, pos |-> p.pos, hi |-> p.hi] : p \in ByRange!Search(high)}
<1>3. ByRange!PrepareBlocksRange(f) = IF f.leftUnbounded = f.rightUnbounded THEN both
                                      ELSE IF f.rightUnbounded THEN left ELSE right
  BY DEF ByRange!PrepareBlocksRange
<1>1. low = LowOf(f) /\ high = HighOf(f)
  BY SameBlocks, Zenon DEF LowOf, HighOf
<1> HIDE DEF low, high
<1>2. /\ ByRange!Search(low) = Search(low) /\ ByRange!Search(high) = Search(high)
      /\ top = (m_uBlocksCount - 1) * V
  <2>1. ByRange!m_uBlocksCount = m_uBlocksCount
    BY DEF m_uTotalValues, m_uBlocksCount, ByRange!m_uTotalValues, ByRange!m_uBlocksCount
  <2> QED
    BY <2>1, SameSearch, Zenon DEF V
<1>4. low \in Int /\ high \in Int /\ top \in Nat
  BY <1>1, <1>2, EndsOf, Sizes, RangeAssumption
<1> HIDE DEF top
<1>5. \A p \in 0 .. N - 1 : Admits(f, Values[p + 1]) => Rank(low) <= p /\ p <= Rank(high)
  <2>1. ASSUME NEW p \in 0 .. N - 1, Admits(f, Values[p + 1])
        PROVE  low <= Values[p + 1] /\ Values[p + 1] <= high
    <3>1. Values[p + 1] \in 0 .. TypeMax
      BY Sizes, NarrowIs
    <3> QED
      BY <1>1, <1>2, <2>1, <3>1, EndsOf
  <2> QED
    BY <1>4, <2>1, RanksHold
<1>6. PICK a : a = Rank(low)
  OBVIOUS
<1>7. PICK b : b = Rank(high)
  OBVIOUS
<1>8. \A p \in Search(low) : /\ p.pos \in 0 .. N /\ p.lo \in Nat /\ p.hi \in Nat
                             /\ p.lo <= p.pos /\ p.lo <= a /\ a <= p.hi
  BY <1>4, <1>6, SearchIs
<1>9. \A q \in Search(high) : /\ q.pos \in 0 .. N /\ q.lo \in Nat /\ q.hi \in Nat
                              /\ q.lo <= q.pos /\ q.lo <= b /\ b <= q.hi
  BY <1>4, <1>7, SearchIs
<1>10. N \in Nat /\ a \in Nat /\ b \in Nat
  BY <1>4, <1>6, <1>7, RankIs, Sizes
<1>11. /\ s.pos \in 0 .. N /\ s.lo \in Nat /\ s.hi \in Nat /\ s.lo <= s.pos
       /\ s.lo <= a /\ (b <= s.hi \/ s.hi = top)
  <2>1. CASE f.leftUnbounded = f.rightUnbounded
    <3>1. PICK p \in Search(low), q \in Search(high) :
             s = [lo |-> least(p.lo, q.lo), pos |-> least(p.pos, q.pos), hi |-> most(p.hi, q.hi)]
      BY <1>2, <1>3, <2>1
    <3>2. /\ s.lo = least(p.lo, q.lo) /\ s.pos = least(p.pos, q.pos) /\ s.hi = most(p.hi, q.hi)
      BY <3>1
    <3>3. /\ p.pos \in 0 .. N /\ p.lo \in Nat /\ p.hi \in Nat
          /\ p.lo <= p.pos /\ p.lo <= a /\ a <= p.hi
      BY <1>8
    <3>4. /\ q.pos \in 0 .. N /\ q.lo \in Nat /\ q.hi \in Nat
          /\ q.lo <= q.pos /\ q.lo <= b /\ b <= q.hi
      BY <1>9
    <3> QED
      BY <1>10, <3>2, <3>3, <3>4
  <2>2. CASE f.leftUnbounded # f.rightUnbounded /\ f.rightUnbounded
    <3>1. PICK p \in Search(low) : s = [lo |-> p.lo, pos |-> p.pos, hi |-> top]
      BY <1>2, <1>3, <2>2
    <3>2. s.lo = p.lo /\ s.pos = p.pos /\ s.hi = top
      BY <3>1
    <3> QED
      BY <1>4, <1>8, <3>2
  <2>3. CASE f.leftUnbounded # f.rightUnbounded /\ ~f.rightUnbounded
    <3>1. PICK p \in Search(high) : s = [lo |-> 0, pos |-> p.pos, hi |-> p.hi]
      BY <1>2, <1>3, <2>3
    <3>2. s.lo = 0 /\ s.pos = p.pos /\ s.hi = p.hi
      BY <3>1
    <3> QED
      BY <1>9, <1>10, <3>2
  <2> QED
    BY <2>1, <2>2, <2>3
<1> QED
  BY <1>2, <1>5, <1>6, <1>7, <1>10, <1>11

\* The blocks of the window have all that the range admits.
LEMMA RangeWindow ==
    ASSUME NEW f, FilterFits(f), NEW s \in ByRange!PrepareBlocksRange(f)
    PROVE  /\ BlockIter(s).start \in Nat /\ BlockIter(s).last \in Blocks
           /\ \A p \in 0 .. N - 1 :
                 Admits(f, Values[p + 1]) =>
                    BlockIter(s).start <= p \div V /\ p \div V <= BlockIter(s).last
<1>1. /\ s.pos \in 0 .. N /\ s.lo \in Nat /\ s.hi \in Nat /\ s.lo <= s.pos
      /\ \A p \in 0 .. N - 1 :
            Admits(f, Values[p + 1]) =>
               s.lo <= p /\ (p <= s.hi \/ s.hi = (m_uBlocksCount - 1) * V)
  BY PrepareIs
<1>2. /\ BlockIter(s).start \in Nat /\ BlockIter(s).last \in Blocks
      /\ \A p \in 0 .. N - 1 : /\ s.lo <= p => BlockIter(s).start <= p \div V
                               /\ p <= s.hi => p \div V <= BlockIter(s).last
  BY <1>1, WindowIs
<1>3. PICK l : l = BlockIter(s).last
  OBVIOUS
<1>4. PICK c : c = m_uBlocksCount
  OBVIOUS
<1>5. ASSUME s.hi = (c - 1) * V, NEW p \in 0 .. N - 1 PROVE p \div V <= l
  <2>1. PICK t : t = (c - 1) * V
    OBVIOUS
  <2>2. /\ c \in Nat \ {0} /\ V \in Nat \ {0} /\ t \in Nat /\ t < N /\ N \in Nat /\ t = (c - 1) * V
    BY <1>4, <2>1, Sizes
  <2>3. t \in 0 .. N - 1 /\ t <= t /\ t < t + V /\ c - 1 \in Nat
    BY <2>2
  <2>4. t \div V = c - 1
    BY <2>2, <2>3, QuotientIs
  <2>5. c - 1 <= l
    BY <1>2, <1>3, <1>5, <2>1, <2>3, <2>4
  <2>6. p \div V \in 0 .. c - 1
    BY <1>4, PlaceIs DEF Blocks
  <2>7. l \in 0 .. c - 1
    BY <1>2, <1>3, <1>4 DEF Blocks
  <2> HIDE DEF V
  <2>8. PICK q : q = p \div V
    OBVIOUS
  <2> QED
    BY <2>2, <2>5, <2>6, <2>7, <2>8
<1> QED
  BY <1>1, <1>2, <1>3, <1>4, <1>5

-----------------------------------------------------------------------------
(* Positions and what is made of them. *)

\* The positions of a block are consecutive, and the next block follows them.
LEMMA BlockSpans ==
    ASSUME NEW b \in Blocks
    PROVE  /\ b * V \in Nat /\ (b + 1) * V = b * V + V /\ CalcNumBlockValues(b) \in Nat
           /\ \A i \in DOMAIN BlockValues(b) :
                 /\ At(b, i) \in 0 .. N - 1 /\ BlockValues(b)[i] = Values[At(b, i) + 1]
                 /\ b * V <= At(b, i) /\ At(b, i) < b * V + CalcNumBlockValues(b)
           /\ \A p \in 0 .. N - 1 :
                 b * V <= p /\ p < b * V + CalcNumBlockValues(b) =>
                    \E i \in DOMAIN BlockValues(b) : At(b, i) = p
           /\ IF b = m_uBlocksCount - 1
              THEN b * V + CalcNumBlockValues(b) = N
              ELSE b + 1 \in Blocks /\ b * V + CalcNumBlockValues(b) = (b + 1) * V
           /\ \A p \in 0 .. N - 1 : p \div V <= b => p < b * V + CalcNumBlockValues(b)
           /\ \A p \in 0 .. N - 1 : p < b * V => p \div V < b
<1> DEFINE n == CalcNumBlockValues(b)
           t == b * V
<1>1. /\ b \in Nat /\ t \in Nat /\ n \in 1 .. V /\ t + n <= N
      /\ b < m_uBlocksCount - 1 => n = V
      /\ b = m_uBlocksCount - 1 => t + n = N
      /\ DOMAIN BlockValues(b) = 0 .. n - 1
      /\ \A i \in 0 .. n - 1 : /\ BlockValues(b)[i] = Values[At(b, i) + 1] /\ At(b, i) \in 0 .. N - 1
                               /\ At(b, i) = t + i
  BY BlockIs DEF At
<1>2. V \in Nat /\ N \in Nat /\ m_uBlocksCount \in Nat \ {0} /\ b \in 0 .. m_uBlocksCount - 1 /\ V > 1
  BY Sizes DEF Blocks
<1>3. (b + 1) * V = t + V
  BY <1>1, <1>2
<1> HIDE DEF t, n
<1>4. b # m_uBlocksCount - 1 => b + 1 \in Blocks /\ t + n = t + V
  BY <1>1, <1>2 DEF Blocks
<1>5. ASSUME NEW p \in 0 .. N - 1, p \div V <= b PROVE p < t + n
  <2>1. PICK q : q = p \div V
    OBVIOUS
  <2>2. PICK j : j = p - (p \div V) * V
    OBVIOUS
  <2>3. q \in Blocks /\ j \in 0 .. CalcNumBlockValues(q) - 1 /\ At(q, j) = p
    BY <2>1, <2>2, PlaceIs
  <2>4. q \in Nat /\ CalcNumBlockValues(q) \in 1 .. V /\ q * V \in Nat
    BY <2>3, BlockIs
  <2>5. q <= b
    BY <1>5, <2>1
  <2>6. CASE q = b
    BY <1>1, <2>3, <2>6 DEF n
  <2>7. CASE q < b
    <3>1. q * V + V <= t
      BY <1>1, <1>2, <2>4, <2>7, MultiplesApart DEF t
    <3>2. p = q * V + j
      BY <2>3 DEF At
    <3> QED
      BY <1>1, <1>2, <2>3, <2>4, <3>1, <3>2
  <2> QED
    BY <1>1, <2>4, <2>5, <2>6, <2>7
<1>6. ASSUME NEW p \in 0 .. N - 1, p < t PROVE p \div V < b
  <2>1. PICK q : q = p \div V
    OBVIOUS
  <2>2. q \in Nat /\ q * V \in Nat /\ q * V <= p
    <3>1. p \in Nat /\ V \in Nat \ {0}
      BY <1>2
    <3> QED
      BY <2>1, <3>1, Quotient
  <2>3. CASE b = q
    BY <1>1, <1>2, <1>6, <2>2, <2>3 DEF t
  <2>4. CASE b < q
    <3>1. t + V <= q * V
      BY <1>1, <1>2, <2>2, <2>4, MultiplesApart DEF t
    <3> QED
      BY <1>1, <1>2, <1>6, <2>2, <3>1
  <2> QED
    BY <1>1, <2>1, <2>2, <2>3, <2>4
<1>7. ASSUME NEW p \in 0 .. N - 1, t <= p, p < t + n
      PROVE  \E i \in DOMAIN BlockValues(b) : At(b, i) = p
  <2>1. p - t \in 0 .. n - 1 /\ t + (p - t) = p
    BY <1>1, <1>2, <1>7
  <2> QED
    BY <1>1, <2>1
<1>8. \A i \in DOMAIN BlockValues(b) :
         /\ At(b, i) \in 0 .. N - 1 /\ BlockValues(b)[i] = Values[At(b, i) + 1]
         /\ t <= At(b, i) /\ At(b, i) < t + n
  BY <1>1
<1>9. n \in Nat
  BY <1>1, <1>2
<1>10. IF b = m_uBlocksCount - 1 THEN t + n = N ELSE b + 1 \in Blocks /\ t + n = (b + 1) * V
  BY <1>1, <1>3, <1>4
<1> QED
  BY <1>1, <1>3, <1>5, <1>6, <1>7, <1>8, <1>9, <1>10 DEF t, n

\* Nothing more is made while nothing is admitted.
LEMMA CoverFurther ==
    ASSUME NEW f, NEW m, NEW n \in Nat, NEW k \in Nat, n <= k, Covered(f, m, n),
           \A p \in 0 .. N - 1 : n <= p /\ p < k => ~Admits(f, Values[p + 1])
    PROVE  Covered(f, m, k)
<1>1. N \in Nat
  BY Sizes
<1>2. ASSUME NEW i \in 1 .. Len(m)
      PROVE  PosOf(m, i) \in 0 .. N - 1 /\ PosOf(m, i) < k /\ Admits(f, Values[PosOf(m, i) + 1])
  <2>1. PosOf(m, i) \in 0 .. N - 1 /\ PosOf(m, i) < n /\ Admits(f, Values[PosOf(m, i) + 1])
    BY DEF Covered
  <2> QED
    BY <1>1, <2>1
<1>3. ASSUME NEW p \in 0 .. N - 1, p < k, Admits(f, Values[p + 1])
      PROVE  \E i \in 1 .. Len(m) : PosOf(m, i) = p
  <2>1. p < n
    BY <1>3
  <2> QED
    BY <1>3, <2>1 DEF Covered
<1> QED
  BY <1>2, <1>3 DEF Covered

Parts == [item : Nat, block : Blocks, data : Int]

\* The next position is made.
LEMMA CoverNext ==
    ASSUME NEW f, NEW m \in Seq(Parts), NEW n \in 0 .. N - 1, Covered(f, m, n),
           NEW e \in Parts, At(e.block, e.item) = n, Admits(f, Values[n + 1])
    PROVE  Covered(f, Append(m, e), n + 1)
<1> DEFINE s == Append(m, e)
           l == Len(m)
<1>1. N \in Nat /\ l \in Nat /\ Len(s) = l + 1
  BY Sizes, AppendProperties
<1>2. (\A i \in 1 .. l : s[i] = m[i]) /\ s[l + 1] = e
  BY AppendProperties
<1> HIDE DEF s
<1>3. (\A i \in 1 .. l : PosOf(s, i) = PosOf(m, i)) /\ PosOf(s, l + 1) = n
  BY <1>2, Zenon DEF PosOf
<1>4. /\ \A i \in 1 .. l : PosOf(m, i) \in 0 .. N - 1 /\ PosOf(m, i) < n
                           /\ Admits(f, Values[PosOf(m, i) + 1])
      /\ \A i, j \in 1 .. l : i < j => PosOf(m, i) < PosOf(m, j)
      /\ \A p \in 0 .. N - 1 : p < n /\ Admits(f, Values[p + 1]) => \E i \in 1 .. l : PosOf(m, i) = p
  BY DEF Covered
<1> HIDE DEF l
<1>5. ASSUME NEW i \in 1 .. l + 1
      PROVE  PosOf(s, i) \in 0 .. N - 1 /\ PosOf(s, i) < n + 1 /\ Admits(f, Values[PosOf(s, i) + 1])
  <2>1. CASE i \in 1 .. l
    BY <1>1, <1>3, <1>4, <2>1
  <2>2. CASE i = l + 1
    BY <1>1, <1>3, <2>2
  <2> QED
    BY <1>1, <2>1, <2>2
<1>6. ASSUME NEW i \in 1 .. l + 1, NEW j \in 1 .. l + 1, i < j PROVE PosOf(s, i) < PosOf(s, j)
  <2>1. i \in 1 .. l
    BY <1>1, <1>6
  <2>2. CASE j \in 1 .. l
    BY <1>3, <1>4, <1>6, <2>1, <2>2
  <2>3. CASE j = l + 1
    BY <1>3, <1>4, <2>1, <2>3
  <2> QED
    BY <1>1, <2>2, <2>3
<1>7. ASSUME NEW p \in 0 .. N - 1, p < n + 1, Admits(f, Values[p + 1])
      PROVE  \E i \in 1 .. l + 1 : PosOf(s, i) = p
  <2>1. CASE p < n
    <3>1. PICK i \in 1 .. l : PosOf(m, i) = p
      BY <1>4, <1>7, <2>1
    <3> QED
      BY <1>1, <1>3, <3>1
  <2>2. CASE p = n
    BY <1>1, <1>3, <2>2
  <2> QED
    BY <1>7, <2>1, <2>2
<1> QED
  BY <1>1, <1>5, <1>6, <1>7 DEF Covered, s

\* After something was made, a value that is not admitted ends the range, and one that
\* is admitted has nothing missing before it.
LEMMA CoverEnds ==
    ASSUME NEW f, FilterFits(f), NEW m \in Seq(Parts), m # << >>, NEW n \in Nat, Covered(f, m, n),
           NEW p \in 0 .. N - 1, n <= p
    PROVE  /\ ~Admits(f, Values[p + 1]) =>
                 \A q \in 0 .. N - 1 : p <= q => ~Admits(f, Values[q + 1])
           /\ Admits(f, Values[p + 1]) =>
                 \A q \in 0 .. N - 1 : n <= q /\ q <= p => Admits(f, Values[q + 1])
<1>1. PICK o : o = PosOf(m, 1)
  OBVIOUS
<1>2. 1 \in 1 .. Len(m)
  OBVIOUS
<1>3. o \in 0 .. N - 1 /\ o < n /\ Admits(f, Values[o + 1])
  BY <1>1, <1>2 DEF Covered
<1>4. /\ N \in Nat
      /\ \A i \in 1 .. N : Values[i] \in Int
      /\ \A i, j \in 1 .. N : i < j => Values[i] < Values[j]
  BY Sizes
<1>5. \A a, b \in 0 .. N - 1 : a <= b => /\ Values[a + 1] \in Int /\ Values[b + 1] \in Int
                                         /\ Values[a + 1] <= Values[b + 1]
  <2>1. ASSUME NEW a \in 0 .. N - 1, NEW b \in 0 .. N - 1, a <= b
        PROVE  /\ Values[a + 1] \in Int /\ Values[b + 1] \in Int
               /\ Values[a + 1] <= Values[b + 1]
    <3>1. a + 1 \in 1 .. N /\ b + 1 \in 1 .. N /\ (a = b \/ a + 1 < b + 1)
      BY <1>4, <2>1
    <3> QED
      BY <1>4, <3>1
  <2> QED
    BY <2>1
<1>6. \A u, v, w \in Int : u <= v /\ v <= w /\ Admits(f, u) /\ Admits(f, w) => Admits(f, v)
  BY EndsOf
<1>7. \A a, b, c \in 0 .. N - 1 :
         a <= b /\ b <= c /\ Admits(f, Values[a + 1]) /\ Admits(f, Values[c + 1])
            => Admits(f, Values[b + 1])
  BY <1>5, <1>6
<1>8. ASSUME ~Admits(f, Values[p + 1]), NEW q \in 0 .. N - 1, p <= q PROVE ~Admits(f, Values[q + 1])
  <2>1. o <= p
    BY <1>3
  <2> QED
    BY <1>3, <1>7, <1>8, <2>1
<1>9. ASSUME Admits(f, Values[p + 1]), NEW q \in 0 .. N - 1, n <= q, q <= p
      PROVE  Admits(f, Values[q + 1])
  <2>1. o <= q
    BY <1>3, <1>9
  <2> QED
    BY <1>3, <1>7, <1>9, <2>1
<1> QED
  BY <1>8, <1>9

\* Where a position lies.
LEMMA BlockOf ==
    ASSUME NEW b \in Nat, NEW p \in 0 .. N - 1
    PROVE  b * V \in Nat /\ (p < b * V <=> p \div V < b)
<1> DEFINE t == b * V
<1>1. p \in Nat /\ V \in Nat \ {0} /\ t \in Nat /\ N \in Nat
  BY Sizes
<1>2. PICK q : q = p \div V
  OBVIOUS
<1>3. PICK u : u = q * V
  OBVIOUS
<1>4. q \in Nat /\ u \in Nat /\ u <= p /\ p < u + V
  BY <1>1, <1>2, <1>3, Quotient
<1>5. b < q => t + V <= u
  BY <1>1, <1>3, <1>4, MultiplesApart
<1>6. q < b => u + V <= t
  BY <1>1, <1>3, <1>4, MultiplesApart
<1>7. b = q => t = u
  BY <1>3
<1> HIDE DEF t
<1> QED
  BY <1>1, <1>2, <1>4, <1>5, <1>6, <1>7 DEF t

\* The values are of the type.
LEMMA TypedIs ==
    \A b \in Blocks : \A i \in DOMAIN BlockValues(b) :
        BlockValues(b)[i] \in 0 .. TypeMax /\ BlockValues(b)[i] \in Int
<1>1. \A p \in 0 .. N - 1 : Values[p + 1] \in 0 .. TypeMax
  BY Sizes, NarrowIs
<1> QED
  BY <1>1, BlockSpans, RangeAssumption

LEMMA InitRange ==
    ASSUME Init
    PROVE  RangeInv
<1>1. CASE GetValsRows
  BY <1>1 DEF GetValsRows, NoRange, RangeInv
<1>2. CASE GetRangeRows
  <2>1. m_eType = "RANGE" /\ m_dValues = {} /\ ByRange!Init
    BY <1>2 DEF GetRangeRows
  <2>2. /\ asked \in Filter /\ range = FixupFilterSettings(asked)
        /\ valCur = 0 /\ itCreated = -1 /\ phase = "warmup" /\ rangeMade = << >>
    BY <2>1 DEF ByRange!Init, ByRange!Filter, Filter, ByRange!FixupFilterSettings,
                FixupFilterSettings, ByRange!FixupLeft, FixupLeft, ByRange!FixupRight, FixupRight
  <2>3. PICK s \in ByRange!PrepareBlocksRange(range) :
            blockCur = BlockIter(s).start /\ last = BlockIter(s).last
    BY <2>1, SameSearch, Zenon DEF ByRange!Init
  <2>4. FilterFits(range)
    BY <2>2, FixupIs
  <2>5. /\ blockCur \in Nat /\ last \in Blocks
        /\ \A p \in 0 .. N - 1 :
              Admits(range, Values[p + 1]) => blockCur <= p \div V /\ p \div V <= last
    BY <2>3, <2>4, RangeWindow
  <2>6. RangeFits
    BY <2>2, <2>5 DEF RangeFits
  <2>7. Covered(range, rangeMade, blockCur * V)
    <3>1. \A p \in 0 .. N - 1 : p < blockCur * V => ~Admits(range, Values[p + 1])
      <4>1. ASSUME NEW p \in 0 .. N - 1, p < blockCur * V PROVE ~Admits(range, Values[p + 1])
        <5>1. PICK q : q = p \div V
          OBVIOUS
        <5>2. q < blockCur
          BY <2>5, <4>1, <5>1, BlockOf
        <5>3. q \in Nat
          BY <5>1, PlaceIs, BlockIs
        <5>4. ~(blockCur <= q)
          BY <2>5, <5>2, <5>3
        <5> QED
          BY <2>5, <5>1, <5>4
      <4> QED
        BY <4>1
    <3> QED
      BY <2>2, <3>1 DEF Covered
  <2>8. MadeFits
    BY <2>2, <2>7 DEF MadeFits, Inside
  <2>9. DataFits
    BY <2>2 DEF DataFits, Inside
  <2> QED
    BY <2>1, <2>6, <2>8, <2>9 DEF RangeInv
<1> QED
  BY <1>1, <1>2 DEF Init

\* The reader is done when everything is covered.
LEMMA EndKeeps ==
    ASSUME RangeFits, DataFits, Covered(range, rangeMade, N), phase' = "done",
           UNCHANGED <<asked, range, last, itCreated, rangeMade>>,
           blockCur' \in Nat, blockCur <= blockCur', valCur' \in Nat
    PROVE  RangeFits' /\ MadeFits' /\ DataFits'
<1>1. RangeFits'
  BY DEF RangeFits
<1>2. N \in 0 .. N
  BY Sizes
<1>3. MadeFits'
  BY <1>2 DEF MadeFits, Inside, Covered, PosOf
<1>4. DataFits'
  BY DEF DataFits, RangeFits, Inside
<1> QED
  BY <1>1, <1>3, <1>4

\* An iterator for the next position.
LEMMA AddKeeps ==
    ASSUME RangeFits, DataFits, phase \in {"first", "part", "whole"},
           NEW i \in DOMAIN BlockValues(blockCur), NEW more \in BOOLEAN,
           ByRange!AddIterator(i, more),
           Covered(range, rangeMade, At(blockCur, i)), Admits(range, Item(blockCur, i)),
           UNCHANGED <<asked, range, last, blockCur, valCount>>,
           IF more
           THEN /\ itCreated' = blockCur /\ valCur' = i + 1 /\ phase' \in Inside
                /\ phase' = "part" => ~Admits(range, Item(blockCur, valCount - 1))
                /\ phase' = "whole" => Admits(range, Item(blockCur, valCount - 1))
           ELSE UNCHANGED itCreated /\ valCur' \in Nat /\ phase' = "done"
    PROVE  RangeFits' /\ MadeFits' /\ DataFits'
<1> DEFINE e == [item |-> i, block |-> blockCur, data |-> data']
           s == Append(rangeMade, e)
           m == rangeMade
<1>1. /\ blockCur \in Blocks /\ blockCur \in Nat /\ valCount = CalcNumBlockValues(blockCur)
      /\ m \in Seq(Parts) /\ last \in Blocks
  <2>1. /\ blockCur \in Nat /\ valCount = CalcNumBlockValues(blockCur) /\ blockCur <= last
        /\ m \in Seq(Parts) /\ last \in Blocks
    BY DEF RangeFits, Parts
  <2>2. blockCur \in Blocks
    BY <2>1, Sizes DEF Blocks
  <2> QED
    BY <2>1, <2>2
<1>2. rangeMade' = s /\ cut' = ~more
  BY DEF ByRange!AddIterator
<1>3. data' = blockCur
  <2>1. data' = IF itCreated # blockCur THEN reader ELSE data
    BY DEF ByRange!AddIterator, ByRange!LoadsData
  <2>2. CASE phase = "first"
    BY <1>1, <2>1, <2>2 DEF DataFits
  <2>3. CASE phase \in Inside
    BY <2>1, <2>3 DEF DataFits
  <2> QED
    BY <2>2, <2>3 DEF Inside
<1>4. /\ At(blockCur, i) \in 0 .. N - 1 /\ BlockValues(blockCur)[i] = Values[At(blockCur, i) + 1]
      /\ i \in 0 .. valCount - 1 /\ valCount \in Nat
  BY <1>1, BlockSpans, BlockIs
<1>5. e \in Parts /\ e.item = i /\ e.block = blockCur /\ e.data = blockCur
  BY <1>1, <1>3, <1>4 DEF Parts
<1> HIDE DEF e
<1>6. PICK a : a = At(blockCur, i)
  OBVIOUS
<1>7. Covered(range, s, a + 1)
  BY <1>1, <1>4, <1>5, <1>6, CoverNext DEF Item
<1>8. /\ s \in Seq(Parts) /\ s # << >> /\ Len(s) = Len(m) + 1
      /\ \A k \in 1 .. Len(m) : s[k] = m[k]
      /\ s[Len(m) + 1] = e
  BY <1>1, <1>5, AppendProperties
<1> HIDE DEF s
<1>9. a + 1 \in 0 .. N /\ a + 1 = blockCur * V + (i + 1)
  <2>1. N \in Nat /\ blockCur * V \in Nat
    BY <1>1, Sizes, BlockIs
  <2>2. PICK t : t = blockCur * V
    OBVIOUS
  <2>3. a = t + i
    BY <1>6, <2>2 DEF At
  <2> QED
    BY <1>4, <1>6, <2>1, <2>2, <2>3
<1>10. RangeFits'
  <2>1. valCur' \in Nat /\ phase' \in {"enter", "part", "whole", "done"}
    BY <1>4 DEF Inside
  <2>2. s \in Seq([item : Nat, block : Blocks, data : Int])
    BY <1>8 DEF Parts
  <2> QED
    BY <1>1, <1>2, <2>1, <2>2 DEF RangeFits
<1>11. MadeFits'
  <2>1. CASE more
    BY <1>2, <1>4, <1>7, <1>8, <1>9, <2>1 DEF MadeFits, Inside, Covered, PosOf, Item
  <2>2. CASE ~more
    BY <1>2, <1>7, <1>9, <2>2 DEF MadeFits, Inside, Covered, PosOf
  <2> QED
    BY <2>1, <2>2
<1>12. DataFits'
  <2>1. \A k \in 1 .. Len(m) + 1 :
           /\ s[k].item \in DOMAIN BlockValues(s[k].block)
           /\ s[k].data = s[k].block
    <3>1. ASSUME NEW k \in 1 .. Len(m) + 1
          PROVE  /\ s[k].item \in DOMAIN BlockValues(s[k].block)
                 /\ s[k].data = s[k].block
      <4>1. CASE k = Len(m) + 1
        BY <1>5, <1>8, <4>1
      <4>2. CASE k \in 1 .. Len(m)
        BY <1>8, <4>2 DEF DataFits
      <4> QED
        BY <1>1, <4>1, <4>2
    <3> QED
      BY <3>1
  <2>2. itCreated' \in Int /\ itCreated' <= blockCur
    BY <1>1 DEF DataFits
  <2> QED
    BY <1>2, <1>3, <1>8, <2>1, <2>2 DEF DataFits, Inside
<1> QED
  BY <1>10, <1>11, <1>12

\* The range a filter in its invariant is evaluated for.
LEMMA RangeFacts ==
    ASSUME RangeFits
    PROVE  /\ FilterFits(range) /\ blockCur \in Nat /\ valCur \in Nat /\ last \in Blocks
           /\ last \in Nat /\ rangeMade \in Seq(Parts)
           /\ blockCur <= last => blockCur \in Blocks
           /\ \A b \in Blocks : \A i \in DOMAIN BlockValues(b) :
                 ByRange!EvalRangeValue(BlockValues(b)[i]) <=> Admits(range, BlockValues(b)[i])
<1>1. FilterFits(range)
  BY FixupIs DEF RangeFits
<1>2. /\ blockCur \in Nat /\ valCur \in Nat /\ last \in Blocks /\ rangeMade \in Seq(Parts)
  BY DEF RangeFits, Parts
<1>3. last \in Nat /\ (blockCur <= last => blockCur \in Blocks)
  BY <1>2, Sizes DEF Blocks
<1> QED
  BY <1>1, <1>2, <1>3, TypedIs, AdmitsIs

LEMMA WarmupEndsKeeps ==
    ASSUME RangeFits, MadeFits, DataFits, ByRange!WarmupEnds
    PROVE  RangeFits' /\ MadeFits' /\ DataFits'
<1>1. /\ phase = "warmup" /\ blockCur > last /\ phase' = "done"
      /\ UNCHANGED <<asked, range, last, blockCur, valCur, itCreated, rangeMade>>
  BY DEF ByRange!WarmupEnds, ByRange!ctx
<1>2. /\ blockCur \in Nat /\ valCur \in Nat /\ last \in Nat /\ N \in Nat /\ blockCur * V \in Nat
  BY RangeFacts, Sizes
<1>3. Covered(range, rangeMade, blockCur * V)
  BY <1>1 DEF MadeFits
<1>4. ASSUME NEW p \in 0 .. N - 1, Admits(range, Values[p + 1]) PROVE p < blockCur * V
  <2>1. PICK q : q = p \div V
    OBVIOUS
  <2>2. q <= last /\ q \in Nat
    BY <1>4, <2>1, PlaceIs, BlockIs DEF RangeFits
  <2>3. q < blockCur
    BY <1>1, <1>2, <2>2
  <2> QED
    BY <1>2, <2>1, <2>3, BlockOf
<1>5. Covered(range, rangeMade, N)
  <2>1. PICK t : t = blockCur * V
    OBVIOUS
  <2>2. /\ \A k \in 1 .. Len(rangeMade) :
              /\ PosOf(rangeMade, k) \in 0 .. N - 1 /\ PosOf(rangeMade, k) < t
              /\ Admits(range, Values[PosOf(rangeMade, k) + 1])
        /\ \A j, k \in 1 .. Len(rangeMade) : j < k => PosOf(rangeMade, j) < PosOf(rangeMade, k)
        /\ \A p \in 0 .. N - 1 :
              p < t /\ Admits(range, Values[p + 1]) => \E k \in 1 .. Len(rangeMade) : PosOf(rangeMade, k) = p
    BY <1>3, <2>1 DEF Covered
  <2>3. \A p \in 0 .. N - 1 : p < N
    BY <1>2
  <2> QED
    BY <1>4, <2>1, <2>2, <2>3 DEF Covered
<1> QED
  BY <1>1, <1>2, <1>5, EndKeeps

\* Everything is covered when nothing more is admitted.
LEMMA CoverAll ==
    ASSUME NEW f, NEW m, NEW n \in Nat, n <= N, Covered(f, m, n),
           \A p \in 0 .. N - 1 : n <= p => ~Admits(f, Values[p + 1])
    PROVE  Covered(f, m, N)
BY Sizes, CoverFurther

LEMMA WarmupPastKeeps ==
    ASSUME RangeFits, MadeFits, DataFits, ByRange!WarmupPast
    PROVE  RangeFits' /\ MadeFits' /\ DataFits'
<1> DEFINE b == blockCur
<1>1. /\ phase = "warmup" /\ b <= last /\ phase' = "done"
      /\ ByRange!CmpBlock(BlockValues(b)) = 1
      /\ UNCHANGED <<asked, range, last, blockCur, valCur, itCreated, rangeMade>>
  BY SameBlocks DEF ByRange!WarmupPast
<1>2. /\ b \in Nat /\ valCur \in Nat /\ b \in Blocks /\ FilterFits(range) /\ N \in Nat
  BY <1>1, RangeFacts, Sizes
<1>3. Covered(range, rangeMade, b * V)
  BY <1>1 DEF MadeFits
<1>4. b * V \in Nat /\ b * V <= N
  <2>1. PICK t : t = b * V
    OBVIOUS
  <2>2. t \in Nat /\ CalcNumBlockValues(b) \in Nat /\ t + CalcNumBlockValues(b) <= N
    BY <1>2, <2>1, BlockIs
  <2> QED
    BY <1>2, <2>1, <2>2
<1>5. ASSUME NEW p \in 0 .. N - 1, b * V <= p PROVE ~Admits(range, Values[p + 1])
  <2>1. HighOf(range) < FirstOf(b)
    BY <1>1, <1>2, CmpBlockIs
  <2>2. 0 \in DOMAIN BlockValues(b) /\ At(b, 0) = b * V /\ FirstOf(b) = Values[b * V + 1]
        /\ b * V \in 0 .. N - 1
    <3>1. 0 \in DOMAIN BlockValues(b)
      BY <1>2, BlockIs, Sizes
    <3>2. At(b, 0) = b * V
      BY <1>4 DEF At
    <3> QED
      BY <1>2, <3>1, <3>2, BlockSpans DEF FirstOf
  <2>3. PICK t : t = b * V
    OBVIOUS
  <2>4. FirstOf(b) <= Values[p + 1] /\ FirstOf(b) \in Int /\ Values[p + 1] \in Int
    <3>1. /\ \A i \in 1 .. N : Values[i] \in Int
          /\ \A i, j \in 1 .. N : i < j => Values[i] < Values[j]
      BY Sizes
    <3>2. t + 1 \in 1 .. N /\ p + 1 \in 1 .. N /\ (t + 1 = p + 1 \/ t + 1 < p + 1)
      BY <1>2, <1>5, <2>2, <2>3
    <3>3. FirstOf(b) = Values[t + 1]
      BY <2>2, <2>3
    <3> QED
      BY <3>1, <3>2, <3>3
  <2>5. Values[p + 1] \in 0 .. TypeMax /\ HighOf(range) \in Int
    <3>1. p + 1 \in 1 .. N
      BY <1>2
    <3> QED
      BY <1>2, <3>1, NarrowIs, EndsOf
  <2>6. ~(Values[p + 1] <= HighOf(range))
    BY <2>1, <2>4, <2>5
  <2> QED
    BY <1>2, <2>5, <2>6, EndsOf
<1> HIDE DEF b
<1>6. Covered(range, rangeMade, N)
  BY <1>3, <1>4, <1>5, CoverAll
<1> QED
  BY <1>1, <1>2, <1>6, EndKeeps DEF b

LEMMA WarmupSkipKeeps ==
    ASSUME RangeFits, MadeFits, DataFits, ByRange!WarmupSkip
    PROVE  RangeFits' /\ MadeFits' /\ DataFits'
<1> DEFINE b == blockCur
<1>1. /\ phase = "warmup" /\ b <= last /\ phase' = phase /\ b' = b + 1
      /\ \/ ByRange!CmpBlock(BlockValues(b)) = -1 /\ UNCHANGED valCur
         \/ ByRange!MatchingItems = {} /\ valCur' = CalcNumBlockValues(b)
      /\ UNCHANGED <<asked, range, last, itCreated, rangeMade>>
  BY SameBlocks DEF ByRange!WarmupSkip
<1>2. /\ b \in Nat /\ valCur \in Nat /\ b \in Blocks /\ FilterFits(range) /\ N \in Nat
      /\ CalcNumBlockValues(b) \in Nat
  BY <1>1, RangeFacts, Sizes, BlockSpans
<1>3. Covered(range, rangeMade, b * V) /\ rangeMade = << >>
  BY <1>1 DEF MadeFits
<1>4. \A i \in DOMAIN BlockValues(b) : ~Admits(range, BlockValues(b)[i])
  <2>1. CASE ByRange!CmpBlock(BlockValues(b)) = -1
    BY <1>2, <2>1, CmpBlockIs
  <2>2. CASE ByRange!MatchingItems = {}
    <3>1. ByRange!MatchingItems = {i \in DOMAIN BlockValues(b) : ByRange!EvalRangeValue(BlockValues(b)[i])}
      BY SameBlocks, Zenon DEF ByRange!MatchingItems, ByRange!Item
    <3> QED
      BY <1>2, <2>2, <3>1, RangeFacts
  <2> QED
    BY <1>1, <2>1, <2>2
<1>5. /\ b * V \in Nat /\ (b + 1) * V = b * V + V /\ V \in Nat /\ b + 1 \in Nat
  BY <1>2, BlockSpans, Sizes
<1>6. ASSUME NEW p \in 0 .. N - 1, b * V <= p, p < (b + 1) * V PROVE ~Admits(range, Values[p + 1])
  <2>1. PICK q : q = p \div V
    OBVIOUS
  <2>2. q < b + 1
    BY <1>5, <1>6, <2>1, BlockOf
  <2>3. q <= b
    BY <1>2, <2>1, <2>2, PlaceIs, BlockIs
  <2>4. PICK i \in DOMAIN BlockValues(b) : At(b, i) = p
    BY <1>2, <1>6, <2>1, <2>3, BlockSpans
  <2> QED
    BY <1>2, <1>4, <2>4, BlockSpans
<1>7. Covered(range, rangeMade, (b + 1) * V)
  <2>1. PICK n : n = b * V
    OBVIOUS
  <2>2. PICK k : k = (b + 1) * V
    OBVIOUS
  <2>3. n \in Nat /\ k \in Nat /\ n <= k
    BY <1>5, <2>1, <2>2
  <2>4. Covered(range, rangeMade, n) /\ \A p \in 0 .. N - 1 : n <= p /\ p < k => ~Admits(range, Values[p + 1])
    BY <1>3, <1>6, <2>1, <2>2
  <2> HIDE DEF b
  <2>5. Covered(range, rangeMade, k)
    BY <2>3, <2>4, CoverFurther
  <2> QED
    BY <2>2, <2>5
<1>8. RangeFits'
  BY <1>1, <1>2 DEF RangeFits
<1>9. MadeFits'
  BY <1>1, <1>3, <1>7 DEF MadeFits, Inside, Covered, PosOf
<1>10. DataFits'
  BY <1>1 DEF DataFits, Inside
<1> QED
  BY <1>8, <1>9, <1>10

LEMMA WarmupLoadKeeps ==
    ASSUME RangeFits, MadeFits, DataFits, ByRange!WarmupLoad
    PROVE  RangeFits' /\ MadeFits' /\ DataFits'
<1>1. /\ phase = "warmup" /\ blockCur <= last /\ phase' = "first"
      /\ reader' = blockCur /\ valCount' = CalcNumBlockValues(blockCur)
      /\ UNCHANGED <<asked, range, last, blockCur, valCur, itCreated, rangeMade>>
  BY SameBlocks DEF ByRange!WarmupLoad, ByRange!LoadValues
<1>2. blockCur \in Nat
  BY RangeFacts
<1>3. RangeFits'
  BY <1>1, <1>2 DEF RangeFits
<1>4. MadeFits'
  BY <1>1 DEF MadeFits, Inside, Covered, PosOf
<1>5. DataFits'
  BY <1>1, <1>2 DEF DataFits, Inside
<1> QED
  BY <1>3, <1>4, <1>5

LEMMA WarmupFirstKeeps ==
    ASSUME RangeFits, MadeFits, DataFits, ByRange!WarmupFirst
    PROVE  RangeFits' /\ MadeFits' /\ DataFits'
<1> DEFINE b == blockCur
<1>1. /\ phase = "first"
      /\ UNCHANGED <<asked, range, last, blockCur, valCount>>
  BY DEF ByRange!WarmupFirst
<1>2. PICK i \in ByRange!MatchingItems, more \in BOOLEAN :
         /\ \A j \in ByRange!MatchingItems : i <= j
         /\ ByRange!AddIterator(i, more)
         /\ IF more
            THEN itCreated' = b /\ valCur' = i + 1 /\ phase' = "enter"
            ELSE UNCHANGED itCreated /\ valCur' = i /\ phase' = "done"
  BY DEF ByRange!WarmupFirst
<1>3. ByRange!MatchingItems = {j \in DOMAIN BlockValues(b) : ByRange!EvalRangeValue(BlockValues(b)[j])}
  BY SameBlocks, Zenon DEF ByRange!MatchingItems, ByRange!Item
<1>4. /\ b \in Blocks /\ b \in Nat
      /\ \A j \in DOMAIN BlockValues(b) :
            ByRange!EvalRangeValue(BlockValues(b)[j]) <=> Admits(range, BlockValues(b)[j])
  BY <1>1, RangeFacts DEF RangeFits
<1>5. /\ i \in DOMAIN BlockValues(b) /\ Admits(range, Item(b, i))
      /\ \A j \in DOMAIN BlockValues(b) : Admits(range, BlockValues(b)[j]) => i <= j
  BY <1>2, <1>3, <1>4 DEF Item
<1>6. i \in Nat /\ DOMAIN BlockValues(b) \subseteq Int
  BY <1>4, <1>5, BlockIs
<1>7. PICK a : a = At(b, i)
  OBVIOUS
<1>8. PICK t : t = b * V
  OBVIOUS
<1>9. /\ t \in Nat /\ a = t + i /\ a \in 0 .. N - 1 /\ a < t + CalcNumBlockValues(b)
      /\ CalcNumBlockValues(b) \in Nat
  BY <1>4, <1>5, <1>7, <1>8, BlockSpans DEF At
<1>10. ASSUME NEW p \in 0 .. N - 1, t <= p, p < a PROVE ~Admits(range, Values[p + 1])
  <2>1. p < t + CalcNumBlockValues(b)
    BY <1>9, <1>10
  <2>2. PICK j \in DOMAIN BlockValues(b) : At(b, j) = p
    BY <1>4, <1>8, <1>10, <2>1, BlockSpans
  <2>3. ~(i <= j)
    BY <1>6, <1>8, <1>9, <1>10, <2>2 DEF At
  <2> QED
    BY <1>4, <1>5, <2>2, <2>3, BlockSpans
<1>11. Covered(range, rangeMade, t)
  BY <1>1, <1>8 DEF MadeFits
<1>12. Covered(range, rangeMade, a)
  <2>1. a \in Nat /\ t <= a
    BY <1>6, <1>9
  <2> QED
    BY <1>9, <1>10, <1>11, <2>1, CoverFurther
<1>13. IF more
       THEN /\ itCreated' = blockCur /\ valCur' = i + 1 /\ phase' \in Inside
            /\ phase' = "part" => ~Admits(range, Item(blockCur, valCount - 1))
            /\ phase' = "whole" => Admits(range, Item(blockCur, valCount - 1))
       ELSE UNCHANGED itCreated /\ valCur' \in Nat /\ phase' = "done"
  BY <1>2, <1>6 DEF Inside
<1> QED
  BY <1>1, <1>2, <1>5, <1>7, <1>12, <1>13, AddKeeps

\* Inside a block, and after it.
LEMMA InsideIs ==
    ASSUME RangeFits, MadeFits, phase \in Inside \cup {"load"}
    PROVE  /\ blockCur \in Blocks /\ blockCur * V \in Nat
           /\ valCount = CalcNumBlockValues(blockCur) /\ valCount \in Nat /\ valCount > 0
           /\ valCur \in Nat /\ valCur <= valCount
           /\ DOMAIN BlockValues(blockCur) = 0 .. valCount - 1
           /\ blockCur * V + valCur \in Nat /\ blockCur * V + valCur <= N
           /\ rangeMade # << >> /\ rangeMade \in Seq(Parts) /\ FilterFits(range)
           /\ Covered(range, rangeMade, blockCur * V + valCur)
<1>1. /\ blockCur <= last /\ valCount = CalcNumBlockValues(blockCur)
      /\ rangeMade # << >> /\ valCur <= valCount
      /\ Covered(range, rangeMade, blockCur * V + valCur)
  BY DEF RangeFits, MadeFits, Inside
<1>2. /\ blockCur \in Blocks /\ valCur \in Nat /\ rangeMade \in Seq(Parts) /\ FilterFits(range)
  BY <1>1, RangeFacts
<1>3. PICK t : t = blockCur * V
  OBVIOUS
<1>4. /\ t \in Nat /\ valCount \in 1 .. V /\ t + valCount <= N /\ V \in Nat /\ N \in Nat
      /\ DOMAIN BlockValues(blockCur) = 0 .. valCount - 1
  BY <1>1, <1>2, <1>3, BlockIs, Sizes
<1>5. t + valCur \in Nat /\ t + valCur <= N /\ valCount \in Nat /\ valCount > 0
  BY <1>1, <1>2, <1>4
<1> QED
  BY <1>1, <1>2, <1>3, <1>4, <1>5

\* An item that is not admitted covers everything when nothing admitted can come
\* before it: it is the next one, or the last of the block.
LEMMA MissEnds ==
    ASSUME RangeFits, MadeFits, phase \in Inside \cup {"load"},
           NEW i \in DOMAIN BlockValues(blockCur), ~Admits(range, Item(blockCur, i)),
           valCur = i \/ (valCur = valCount /\ i = valCount - 1)
    PROVE  Covered(range, rangeMade, N)
<1>1. PICK t : t = blockCur * V
  OBVIOUS
<1>2. PICK n : n = blockCur * V + valCur
  OBVIOUS
<1>3. /\ blockCur \in Blocks /\ t \in Nat /\ valCount \in Nat /\ valCur \in Nat
      /\ valCount = CalcNumBlockValues(blockCur)
      /\ n = t + valCur /\ n \in Nat /\ n <= N
      /\ rangeMade # << >> /\ rangeMade \in Seq(Parts) /\ FilterFits(range)
      /\ Covered(range, rangeMade, n)
      /\ i \in 0 .. valCount - 1
  BY <1>1, <1>2, InsideIs
<1>4. PICK a : a = At(blockCur, i)
  OBVIOUS
<1>5. a \in 0 .. N - 1 /\ a = t + i /\ ~Admits(range, Values[a + 1])
  BY <1>1, <1>3, <1>4, BlockSpans DEF At, Item
<1>6. CASE n <= a
  <2>1. \A q \in 0 .. N - 1 : a <= q => ~Admits(range, Values[q + 1])
    BY <1>3, <1>5, <1>6, CoverEnds
  <2>3. n = a
    BY <1>3, <1>5, <1>6
  <2> QED
    BY <1>3, <2>1, <2>3, CoverAll
<1>7. CASE ~(n <= a)
  \* It cannot have been covered: nothing after it is admitted, since what was made
  \* lies before it.
  <2>1. a < n /\ a \in Nat
    BY <1>3, <1>5, <1>7
  <2>2. \A p \in 0 .. N - 1 : n <= p => ~Admits(range, Values[p + 1])
    <3>1. ASSUME NEW p \in 0 .. N - 1, n <= p, Admits(range, Values[p + 1]) PROVE FALSE
      <4>1. PICK o : o = PosOf(rangeMade, 1)
        OBVIOUS
      <4>2. o \in 0 .. N - 1 /\ Admits(range, Values[o + 1]) /\ o < n
        <5>1. 1 \in 1 .. Len(rangeMade)
          BY <1>3
        <5> QED
          BY <1>3, <4>1, <5>1 DEF Covered
      <4>3. o # a
        BY <1>5, <4>2
      <4>4. a + 1 = n
        BY <1>3, <1>5, <2>1
      <4>5. o < a
        BY <1>3, <1>5, <4>2, <4>3, <4>4
      <4>6. FALSE
        <5>1. /\ N \in Nat
              /\ \A j \in 1 .. N : Values[j] \in Int
              /\ \A j, k \in 1 .. N : j < k => Values[j] < Values[k]
          BY Sizes
        <5>2. o + 1 \in 1 .. N /\ a + 1 \in 1 .. N /\ p + 1 \in 1 .. N /\ o + 1 < a + 1 /\ a + 1 < p + 1
          BY <1>3, <1>5, <2>1, <3>1, <4>2, <4>5, <5>1
        <5>3. Values[o + 1] <= Values[a + 1] /\ Values[a + 1] <= Values[p + 1]
          BY <5>1, <5>2
        <5> QED
          BY <1>3, <1>5, <3>1, <4>2, <5>1, <5>2, <5>3, EndsOf
      <4> QED
        BY <4>6
    <3> QED
      BY <3>1
  <2> QED
    BY <1>3, <2>2, CoverAll
<1> QED
  BY <1>6, <1>7

LEMMA EnterNothingLeftKeeps ==
    ASSUME RangeFits, MadeFits, DataFits, ByRange!EnterNothingLeft
    PROVE  RangeFits' /\ MadeFits' /\ DataFits'
<1>1. /\ phase = "enter" /\ valCur >= valCount /\ phase' = "load"
      /\ UNCHANGED <<asked, range, last, blockCur, valCur, valCount, itCreated, reader, data, rangeMade>>
  BY DEF ByRange!EnterNothingLeft, ByRange!ctx
<1>2. valCur = valCount
  BY <1>1, InsideIs DEF Inside
<1>3. RangeFits'
  BY <1>1 DEF RangeFits
<1>4. MadeFits'
  BY <1>1, <1>2 DEF MadeFits, Inside, Covered, PosOf
<1>5. DataFits'
  BY <1>1 DEF DataFits, Inside
<1> QED
  BY <1>3, <1>4, <1>5

LEMMA EnterBlockKeeps ==
    ASSUME RangeFits, MadeFits, DataFits, ByRange!EnterBlock
    PROVE  RangeFits' /\ MadeFits' /\ DataFits'
<1>1. /\ phase = "enter"
      /\ phase' = IF ByRange!EvalRangeValue(BlockValues(blockCur)[valCount - 1]) THEN "whole" ELSE "part"
      /\ UNCHANGED <<asked, range, last, blockCur, valCur, valCount, itCreated, reader, data, rangeMade>>
  BY SameBlocks DEF ByRange!EnterBlock, ByRange!ctx, ByRange!Item
<1>2. valCount - 1 \in DOMAIN BlockValues(blockCur) /\ blockCur \in Blocks
  BY <1>1, InsideIs DEF Inside
<1>3. phase' = IF Admits(range, Item(blockCur, valCount - 1)) THEN "whole" ELSE "part"
  BY <1>1, <1>2, RangeFacts DEF Item
<1>4. RangeFits'
  BY <1>1, <1>3 DEF RangeFits
<1>5. MadeFits'
  BY <1>1, <1>3 DEF MadeFits, Inside, Covered, PosOf, Item
<1>6. DataFits'
  BY <1>1, <1>3 DEF DataFits, Inside
<1> QED
  BY <1>4, <1>5, <1>6

LEMMA AddValueKeeps ==
    ASSUME RangeFits, MadeFits, DataFits, ByRange!AddValue
    PROVE  RangeFits' /\ MadeFits' /\ DataFits'
<1>1. /\ phase \in {"part", "whole"} /\ valCur < valCount
      /\ phase = "part" => ByRange!EvalRangeValue(BlockValues(blockCur)[valCur])
      /\ UNCHANGED <<asked, range, last, blockCur, valCount>>
  BY SameBlocks DEF ByRange!AddValue, ByRange!Item
<1>2. PICK more \in BOOLEAN :
         /\ ByRange!AddIterator(valCur, more)
         /\ IF more
            THEN itCreated' = blockCur /\ valCur' = valCur + 1 /\ UNCHANGED phase
            ELSE phase' = "done" /\ UNCHANGED <<itCreated, valCur>>
  BY DEF ByRange!AddValue
<1>3. PICK t : t = blockCur * V
  OBVIOUS
<1>4. /\ blockCur \in Blocks /\ t \in Nat /\ valCount \in Nat /\ valCount > 0 /\ valCur \in Nat
      /\ DOMAIN BlockValues(blockCur) = 0 .. valCount - 1
      /\ rangeMade # << >> /\ rangeMade \in Seq(Parts) /\ FilterFits(range)
      /\ Covered(range, rangeMade, t + valCur) /\ t + valCur \in Nat
  BY <1>1, <1>3, InsideIs DEF Inside
<1>5. valCur \in DOMAIN BlockValues(blockCur) /\ valCount - 1 \in DOMAIN BlockValues(blockCur)
  BY <1>1, <1>4
<1>6. PICK a : a = At(blockCur, valCur)
  OBVIOUS
<1>7. a = t + valCur /\ a \in 0 .. N - 1 /\ Item(blockCur, valCur) = Values[a + 1]
  BY <1>3, <1>4, <1>5, <1>6, BlockSpans DEF At, Item
<1>8. Admits(range, Item(blockCur, valCur))
  <2>1. CASE phase = "part"
    BY <1>1, <1>4, <1>5, <2>1, RangeFacts DEF Item
  <2>2. CASE phase = "whole"
    <3>1. PICK z : z = At(blockCur, valCount - 1)
      OBVIOUS
    <3>2. z = t + (valCount - 1) /\ z \in 0 .. N - 1 /\ Item(blockCur, valCount - 1) = Values[z + 1]
      BY <1>3, <1>4, <1>5, <3>1, BlockSpans DEF At, Item
    <3>3. Admits(range, Values[z + 1])
      BY <2>2, <3>2 DEF MadeFits
    <3>4. a <= z /\ a \in Nat
      BY <1>1, <1>4, <1>7, <3>2
    <3>5. Covered(range, rangeMade, a)
      BY <1>4, <1>7
    <3>6. Admits(range, Values[a + 1])
      BY <1>4, <1>7, <3>2, <3>3, <3>4, <3>5, CoverEnds
    <3> QED
      BY <1>7, <3>6
  <2> QED
    BY <1>1, <2>1, <2>2
<1>9. IF more
      THEN /\ itCreated' = blockCur /\ valCur' = valCur + 1 /\ phase' \in Inside
           /\ phase' = "part" => ~Admits(range, Item(blockCur, valCount - 1))
           /\ phase' = "whole" => Admits(range, Item(blockCur, valCount - 1))
      ELSE UNCHANGED itCreated /\ valCur' \in Nat /\ phase' = "done"
  BY <1>1, <1>2, <1>4 DEF Inside, MadeFits
<1>10. Covered(range, rangeMade, At(blockCur, valCur))
  BY <1>4, <1>6, <1>7
<1> QED
  BY <1>1, <1>2, <1>5, <1>8, <1>9, <1>10, AddKeeps

LEMMA PartEndsKeeps ==
    ASSUME RangeFits, MadeFits, DataFits, ByRange!PartEnds
    PROVE  RangeFits' /\ MadeFits' /\ DataFits'
<1>1. /\ phase = "part" /\ phase' = "done"
      /\ valCur >= valCount \/ ~ByRange!EvalRangeValue(BlockValues(blockCur)[valCur])
      /\ UNCHANGED <<asked, range, last, blockCur, valCur, itCreated, rangeMade>>
  BY SameBlocks DEF ByRange!PartEnds, ByRange!ctx, ByRange!Item
<1>2. /\ blockCur \in Blocks /\ blockCur \in Nat /\ valCount \in Nat /\ valCount > 0
      /\ valCur \in Nat /\ valCur <= valCount
      /\ DOMAIN BlockValues(blockCur) = 0 .. valCount - 1
  BY <1>1, InsideIs, RangeFacts DEF Inside
<1>3. Covered(range, rangeMade, N)
  <2>1. CASE valCur >= valCount
    <3>1. /\ valCur = valCount /\ valCount - 1 \in DOMAIN BlockValues(blockCur)
          /\ ~Admits(range, Item(blockCur, valCount - 1))
      BY <1>1, <1>2, <2>1 DEF MadeFits
    <3> QED
      BY <1>1, <3>1, MissEnds DEF Inside
  <2>2. CASE ~(valCur >= valCount)
    <3>1. valCur \in DOMAIN BlockValues(blockCur)
      BY <1>2, <2>2
    <3>2. ~Admits(range, Item(blockCur, valCur))
      BY <1>1, <1>2, <2>2, <3>1, RangeFacts DEF Item
    <3> QED
      BY <1>1, <3>1, <3>2, MissEnds DEF Inside
  <2> QED
    BY <2>1, <2>2
<1> QED
  BY <1>1, <1>2, <1>3, EndKeeps

LEMMA WholeEndsKeeps ==
    ASSUME RangeFits, MadeFits, DataFits, ByRange!WholeEnds
    PROVE  RangeFits' /\ MadeFits' /\ DataFits'
<1>1. /\ phase = "whole" /\ valCur >= valCount /\ phase' = "load"
      /\ UNCHANGED <<asked, range, last, blockCur, valCur, valCount, itCreated, reader, data, rangeMade>>
  BY DEF ByRange!WholeEnds, ByRange!ctx
<1>2. valCur = valCount
  BY <1>1, InsideIs DEF Inside
<1>3. RangeFits'
  BY <1>1 DEF RangeFits
<1>4. MadeFits'
  BY <1>1, <1>2 DEF MadeFits, Inside, Covered, PosOf
<1>5. DataFits'
  BY <1>1 DEF DataFits, Inside
<1> QED
  BY <1>3, <1>4, <1>5

LEMMA NextBlockKeeps ==
    ASSUME RangeFits, MadeFits, DataFits, ByRange!NextBlock
    PROVE  RangeFits' /\ MadeFits' /\ DataFits'
<1> DEFINE b == blockCur
           c == blockCur + 1
<1>1. /\ phase = "load" /\ b' = c
      /\ UNCHANGED <<asked, range, last, itCreated, data, rangeMade>>
      /\ IF c > last
         THEN phase' = "done" /\ UNCHANGED valCur
         ELSE /\ valCount' = CalcNumBlockValues(c) /\ reader' = c /\ valCur' = 0
              /\ phase' = IF ByRange!EvalRangeValue(BlockValues(c)[0]) THEN "enter" ELSE "done"
  BY SameBlocks DEF ByRange!NextBlock
<1>2. PICK n : n = b * V + valCur
  OBVIOUS
<1>3. /\ b \in Blocks /\ b \in Nat /\ last \in Blocks /\ last \in Nat /\ b <= last
      /\ valCount = CalcNumBlockValues(b) /\ valCur = valCount /\ valCur \in Nat
      /\ n \in Nat /\ n <= N /\ Covered(range, rangeMade, n)
      /\ rangeMade # << >> /\ rangeMade \in Seq(Parts) /\ FilterFits(range)
  BY <1>1, <1>2, InsideIs, RangeFacts DEF RangeFits, MadeFits
<1>4. CASE c > last
  <2>1. b = last
    BY <1>3, <1>4
  <2>2. \A p \in 0 .. N - 1 : Admits(range, Values[p + 1]) => p < n
    BY <1>2, <1>3, <2>1, BlockSpans DEF RangeFits
  <2>3. N \in Nat
    BY Sizes
  <2>4. \A p \in 0 .. N - 1 : n <= p => ~Admits(range, Values[p + 1])
    BY <1>3, <2>2, <2>3
  <2>5. Covered(range, rangeMade, N)
    BY <1>3, <2>4, CoverAll
  <2> QED
    BY <1>1, <1>3, <1>4, <2>5, EndKeeps
<1>5. CASE ~(c > last)
  <2>1. c \in Blocks /\ c \in Nat /\ c <= last /\ b # m_uBlocksCount - 1
    BY <1>3, <1>5, Sizes DEF Blocks
  <2>2. n = c * V
    BY <1>2, <1>3, <2>1, BlockSpans
  <2>3. 0 \in DOMAIN BlockValues(c) /\ CalcNumBlockValues(c) \in Nat
    BY <2>1, BlockIs, Sizes
  <2>4. At(c, 0) = n /\ n \in 0 .. N - 1 /\ BlockValues(c)[0] = Values[n + 1]
    <3>1. At(c, 0) = n
      BY <1>3, <2>2 DEF At
    <3> QED
      BY <2>1, <2>3, <3>1, BlockSpans
  <2>5. phase' = IF Admits(range, Values[n + 1]) THEN "enter" ELSE "done"
    BY <1>1, <1>5, <2>1, <2>3, <2>4, RangeFacts
  <2>6. valCount' = CalcNumBlockValues(c) /\ reader' = c /\ valCur' = 0 /\ blockCur' = c
    BY <1>1, <1>5
  <2>7. itCreated \in Int /\ itCreated <= b
    BY <1>1 DEF DataFits
  <2>8. CASE Admits(range, Values[n + 1])
    <3>1. phase' = "enter"
      BY <2>5, <2>8
    <3>2. RangeFits'
      BY <1>1, <1>3, <2>1, <2>6, <3>1 DEF RangeFits
    <3>3. c * V + 0 = n
      BY <1>3, <2>2
    <3>4. Covered(range, rangeMade, c * V + 0)
      BY <1>3, <3>3
    <3> HIDE DEF c, b
    <3>5. Covered(range', rangeMade', blockCur' * V + valCur')
      BY <1>1, <2>6, <3>4
    <3>6. MadeFits'
      BY <1>1, <1>3, <2>3, <2>6, <3>1, <3>5 DEF MadeFits, Inside, Covered, PosOf
    <3>7. DataFits'
      <4>1. itCreated' \in Int /\ itCreated' <= blockCur' /\ itCreated' # blockCur'
        BY <1>1, <1>3, <2>6, <2>7 DEF b, c
      <4> QED
        BY <1>1, <2>6, <3>1, <4>1 DEF DataFits, Inside
    <3> QED
      BY <3>2, <3>6, <3>7
  <2>9. CASE ~Admits(range, Values[n + 1])
    <3>1. \A p \in 0 .. N - 1 : n <= p => ~Admits(range, Values[p + 1])
      BY <1>3, <2>4, <2>9, CoverEnds
    <3>2. Covered(range, rangeMade, N)
      BY <1>3, <3>1, CoverAll
    <3>3. phase' = "done" /\ blockCur <= blockCur' /\ blockCur' \in Nat /\ valCur' \in Nat
      BY <1>3, <2>1, <2>5, <2>6, <2>9
    <3> QED
      BY <1>1, <3>2, <3>3, EndKeeps
  <2> QED
    BY <2>8, <2>9
<1> QED
  BY <1>4, <1>5

-----------------------------------------------------------------------------
(* The invariant, and the properties that follow from it. *)

LEMMA RangeStays ==
    ASSUME RangeInv, UNCHANGED <<filter, rangeVars>>
    PROVE  RangeInv'
<1>1. UNCHANGED <<m_eType, m_bExclude, m_dValues, asked, range, last, blockCur, valCur, valCount, itCreated,
                  reader, data, phase, rangeMade, cut>>
  BY DEF filter, rangeVars
<1>2. RangeFits => RangeFits'
  BY <1>1 DEF RangeFits
<1>3. MadeFits => MadeFits'
  BY <1>1 DEF MadeFits, Inside, Covered, PosOf
<1>4. DataFits => DataFits'
  BY <1>1 DEF DataFits, Inside
<1> QED
  BY <1>1, <1>2, <1>3, <1>4 DEF RangeInv

LEMMA InvStep ==
    IInv /\ [Next]_vars => IInv'
<1> SUFFICES ASSUME IInv, [Next]_vars PROVE IInv'
  OBVIOUS
<1>1. ValueInv /\ RangeInv
  BY DEF IInv
<1>2. CASE /\ \/ ByValue!NextValue \/ ByValue!LoadBlockValuesToCache
              \/ ByValue!LookFinds \/ ByValue!LookEnds \/ ByValue!LookElsewhere
           /\ UNCHANGED <<filter, rangeVars>>
  <2>1. ValueInv'
    BY <1>1, <1>2, NextValueKeeps, LoadKeeps, LookFindsKeeps, LookEndsKeeps, LookElsewhereKeeps
  <2> QED
    BY <1>1, <1>2, <2>1, RangeStays DEF IInv
<1>3. ASSUME \/ ByRange!WarmupEnds \/ ByRange!WarmupPast \/ ByRange!WarmupSkip
             \/ ByRange!WarmupLoad \/ ByRange!WarmupFirst
             \/ ByRange!EnterNothingLeft \/ ByRange!EnterBlock \/ ByRange!AddValue
             \/ ByRange!PartEnds \/ ByRange!WholeEnds \/ ByRange!NextBlock,
             UNCHANGED <<filter, valueVars>>
      PROVE  IInv'
  <2>1. phase # "done"
    BY <1>3 DEF ByRange!WarmupEnds, ByRange!WarmupPast, ByRange!WarmupSkip, ByRange!WarmupLoad,
                ByRange!WarmupFirst, ByRange!EnterNothingLeft, ByRange!EnterBlock, ByRange!AddValue,
                ByRange!PartEnds, ByRange!WholeEnds, ByRange!NextBlock
  <2>2. m_eType = "RANGE" /\ m_dValues = {} /\ RangeFits /\ MadeFits /\ DataFits
    BY <1>1, <2>1 DEF RangeInv
  <2>3. RangeFits' /\ MadeFits' /\ DataFits'
    BY <1>3, <2>2, WarmupEndsKeeps, WarmupPastKeeps, WarmupSkipKeeps, WarmupLoadKeeps,
       WarmupFirstKeeps, EnterNothingLeftKeeps, EnterBlockKeeps, AddValueKeeps, PartEndsKeeps,
       WholeEndsKeeps, NextBlockKeeps
  <2>4. RangeInv'
    BY <1>3, <2>2, <2>3 DEF RangeInv, filter
  <2>5. ValueInv'
    BY <1>1, <1>3, OthersKeep
  <2> QED
    BY <2>4, <2>5 DEF IInv
<1>4. CASE OtherQuery
  BY <1>1, <1>4, OthersKeep, RangeStays DEF OtherQuery, IInv
<1>5. CASE UNCHANGED vars
  BY <1>1, <1>5, OthersKeep, RangeStays DEF vars, IInv
<1> QED
  BY <1>2, <1>3, <1>4, <1>5 DEF Next, CreateBlocksIterator

LEMMA InvFinds ==
    IInv => FindsEachValueOnce
<1> SUFFICES ASSUME IInv, NEW v \in m_dValues \ (todo \cup {cur})
             PROVE  /\ v \in Stored => Made(v) = 1
                    /\ v \notin Stored /\ (~m_bExclude \/ v \in 0 .. TypeMax) => Made(v) = 0
  BY DEF FindsEachValueOnce
<1>1. m_eType = "VALUES"
  BY DEF IInv, RangeInv
<1>2. DOMAIN itemsMade = AskedValues /\ m_dValues \subseteq WideMin .. WideMax
  BY DEF IInv, ValueInv, LookupsFit, ItemsFit
<1>3. CASE v \in AskedValues
  <2>1. Made(v) = IF Narrow(v) \in Stored THEN 1 ELSE 0
    BY <1>2, <1>3 DEF IInv, ValueInv, ItemsFit, Made
  <2>2. v \in Stored => v \in 0 .. TypeMax
    BY Sizes, NarrowIs DEF Stored
  <2>3. v \in 0 .. TypeMax \/ ~m_bExclude => Narrow(v) = v
    BY <1>2, <1>3, NarrowIs, AskedAre
  <2> QED
    BY <2>1, <2>2, <2>3
<1>4. CASE v \notin AskedValues
  BY <1>1, <1>2, <1>4, OutsideIs DEF Made
<1> QED
  BY <1>3, <1>4

LEMMA InvRows ==
    IInv => RowsOfTheBlock
<1> SUFFICES ASSUME IInv PROVE RowsOfTheBlock
  OBVIOUS
<1>1. ByValue!RowsOfTheValue
  <2>1. SUFFICES ASSUME NEW v \in DOMAIN iters, NEW k \in DOMAIN itemsMade[v]
                 PROVE  ByValue!BlockValues(itemsMade[v][k].block)[itemsMade[v][k].item]
                           = ByValue!Narrow(v)
    BY DEF ByValue!RowsOfTheValue
  <2>2. /\ v \in AskedValues /\ m_dValues \subseteq WideMin .. WideMax
        /\ itemsMade \in [AskedValues -> Seq([item : Nat, block : Blocks])]
    BY DEF IInv, ValueInv, LookupsFit, ItemsFit
  <2>3. k \in 1 .. Len(itemsMade[v])
    BY <2>2
  <2>4. BlockValues(itemsMade[v][k].block)[itemsMade[v][k].item] = Narrow(v)
    BY <2>2, <2>3 DEF IInv, ValueInv, ItemsFit
  <2>5. ByValue!Narrow(v) = Narrow(v)
    BY <2>2, AskedAre
  <2> QED
    BY <2>4, <2>5, SameBlocks, Zenon
<1>2. ByRange!RowsOfTheBlock
  <2>1. CASE m_eType = "VALUES"
    BY <2>1 DEF IInv, RangeInv, ByRange!RowsOfTheBlock
  <2>2. CASE m_eType = "RANGE"
    <3>1. rangeMade \in Seq([item : Nat, block : Blocks, data : Int]) /\ DataFits
      BY <2>2 DEF IInv, RangeInv, RangeFits
    <3> QED
      BY <3>1 DEF DataFits, ByRange!RowsOfTheBlock
  <2> QED
    BY <2>1, <2>2 DEF IInv, RangeInv
<1> QED
  BY <1>1, <1>2 DEF RowsOfTheBlock

LEMMA InvRange ==
    IInv => ExactRange
<1> SUFFICES ASSUME IInv, m_eType = "RANGE", ByRange!MeetsType(asked)
             PROVE  /\ ByRange!ToSet(ByRange!MadeValues) \subseteq ByRange!Expected
                    /\ \A j, k \in DOMAIN rangeMade :
                          j < k => ByRange!MadeValues[j] < ByRange!MadeValues[k]
                    /\ \A v \in ByRange!Expected \ ByRange!ToSet(ByRange!MadeValues) :
                          /\ phase # "done" \/ cut
                          /\ \A k \in DOMAIN rangeMade : ByRange!MadeValues[k] < v
  BY DEF ExactRange, ByRange!InRange
<1> DEFINE L == Len(rangeMade)
           W(p) == Values[p + 1]
           P(k) == PosOf(rangeMade, k)
<1>1. RangeFits /\ MadeFits /\ DataFits
  BY DEF IInv, RangeInv
<1>2. rangeMade \in Seq(Parts) /\ asked \in Filter /\ range = FixupFilterSettings(asked)
  BY <1>1 DEF RangeFits, Parts
<1>3. DOMAIN rangeMade = 1 .. L /\ \A k \in 1 .. L : rangeMade[k].block \in Blocks
  <2>1. DOMAIN rangeMade = 1 .. L /\ \A k \in 1 .. L : rangeMade[k] \in Parts
    BY <1>2
  <2> QED
    BY <2>1 DEF Parts
<1>4. PICK n : n \in 0 .. N /\ Covered(range, rangeMade, n) /\ (phase = "done" /\ ~cut => n = N)
  <2>1. CASE phase \in {"warmup", "first"}
    <3>1. rangeMade = << >> /\ Covered(range, rangeMade, blockCur * V) /\ blockCur \in Nat
      BY <1>1, <2>1, RangeFacts DEF MadeFits
    <3>2. Covered(range, rangeMade, 0)
      BY <3>1, Sizes DEF Covered
    <3> QED
      BY <2>1, <3>2, Sizes
  <2>2. CASE phase \in Inside \cup {"load"}
    <3>1. PICK a : a = blockCur * V + valCur
      OBVIOUS
    <3>2. a \in Nat /\ a <= N /\ Covered(range, rangeMade, a)
      BY <1>1, <2>2, <3>1, InsideIs
    <3> QED
      BY <2>2, <3>2, Sizes DEF Inside
  <2>3. CASE phase = "done"
    BY <1>1, <2>3 DEF MadeFits
  <2> QED
    BY <1>1, <2>1, <2>2, <2>3 DEF RangeFits, Inside
<1>5. /\ \A k \in 1 .. L : P(k) \in 0 .. N - 1 /\ P(k) < n /\ Admits(range, W(P(k)))
      /\ \A j, k \in 1 .. L : j < k => P(j) < P(k)
      /\ \A p \in 0 .. N - 1 : p < n /\ Admits(range, W(p)) => \E k \in 1 .. L : P(k) = p
  BY <1>4 DEF Covered
<1>6. /\ N \in Nat /\ DOMAIN Values = 1 .. N
      /\ \A p \in 0 .. N - 1 : p + 1 \in 1 .. N /\ W(p) \in Int
      /\ \A p, q \in 0 .. N - 1 : p < q => W(p) < W(q)
  <2>1. /\ N \in Nat /\ DOMAIN Values = 1 .. N
        /\ \A i \in 1 .. N : Values[i] \in Int
        /\ \A i, j \in 1 .. N : i < j => Values[i] < Values[j]
    BY Sizes
  <2>2. \A p \in 0 .. N - 1 : p + 1 \in 1 .. N
    BY <2>1
  <2>3. \A p, q \in 0 .. N - 1 : p < q => p + 1 < q + 1
    BY <2>1
  <2> QED
    BY <2>1, <2>2, <2>3
<1>7. \A k \in 1 .. L : ByRange!MadeValues[k] = W(P(k))
  <2>1. ASSUME NEW k \in 1 .. L PROVE ByRange!MadeValues[k] = W(P(k))
    <3>1. ByRange!MadeValues[k] = BlockValues(rangeMade[k].block)[rangeMade[k].item]
      BY <1>3, SameBlocks DEF ByRange!MadeValues
    <3>2. rangeMade[k].item \in DOMAIN BlockValues(rangeMade[k].block)
      BY <1>1 DEF DataFits
    <3> QED
      BY <1>3, <3>1, <3>2, BlockSpans DEF PosOf
  <2> QED
    BY <2>1
<1>8. DOMAIN ByRange!MadeValues = 1 .. L
  BY <1>3 DEF ByRange!MadeValues
<1>9. \A p \in 0 .. N - 1 : Admits(range, W(p)) <=> Matches(asked, W(p))
  <2>1. \A p \in 0 .. N - 1 : W(p) \in 0 .. TypeMax
    BY <1>6, NarrowIs
  <2> QED
    BY <1>2, <2>1, FixupIs
<1>10. /\ ByRange!Expected = {v \in ByRange!ToSet(Values) : Matches(asked, v)}
       /\ ByRange!ToSet(Values) = {Values[i] : i \in 1 .. N}
       /\ ByRange!ToSet(ByRange!MadeValues) = {ByRange!MadeValues[k] : k \in 1 .. L}
  <2>1. \A v : ByRange!Matches(asked, v) <=> Matches(asked, v)
    BY Zenon DEF ByRange!Matches, Matches
  <2> QED
    BY <1>6, <1>8, <2>1 DEF ByRange!Expected, ByRange!ToSet
<1> HIDE DEF L, W, P
<1>11. ByRange!ToSet(ByRange!MadeValues) \subseteq ByRange!Expected
  <2>1. ASSUME NEW k \in 1 .. L PROVE ByRange!MadeValues[k] \in ByRange!Expected
    <3>1. P(k) \in 0 .. N - 1 /\ Matches(asked, W(P(k))) /\ ByRange!MadeValues[k] = W(P(k))
      BY <1>5, <1>7, <1>9
    <3>2. W(P(k)) \in {Values[i] : i \in 1 .. N}
      BY <1>6, <3>1 DEF W
    <3> QED
      BY <1>10, <3>1, <3>2
  <2> QED
    BY <1>10, <2>1
<1>12. \A j, k \in 1 .. L : j < k => ByRange!MadeValues[j] < ByRange!MadeValues[k]
  BY <1>5, <1>6, <1>7
<1>13. ASSUME NEW v \in ByRange!Expected \ ByRange!ToSet(ByRange!MadeValues)
       PROVE  /\ phase # "done" \/ cut
              /\ \A k \in 1 .. L : ByRange!MadeValues[k] < v
  <2>1. PICK i \in 1 .. N : v = Values[i] /\ Matches(asked, v)
    BY <1>10
  <2>2. PICK p \in 0 .. N - 1 : p + 1 = i
    BY <1>6
  <2>3. v = W(p) /\ Admits(range, W(p))
    BY <1>9, <2>1, <2>2 DEF W
  <2>4. \A k \in 1 .. L : P(k) # p
    BY <1>7, <1>10, <2>3
  <2>5. ~(p < n)
    BY <1>5, <2>3, <2>4
  <2>6. phase # "done" \/ cut
    BY <1>4, <1>6, <2>5
  <2>7. \A k \in 1 .. L : P(k) < p
    BY <1>4, <1>5, <1>6, <2>5
  <2> QED
    BY <1>5, <1>6, <1>7, <2>3, <2>6, <2>7
<1> QED
  BY <1>3, <1>11, <1>12, <1>13

LEMMA Invariant ==
    Spec => []IInv
<1>1. Init => IInv
  BY InitValue, InitRange DEF IInv
<1> QED
  BY <1>1, InvStep, PTL DEF Spec

\* FindsEachValueOnce: whatever positions the index predicts, whatever the cache holds
\* and other queries put into it, CreateBlocksIterator of a reader of values makes one
\* iterator for each value that is asked for and stored, whether the filter includes or
\* excludes its values.  It makes none for a value that is not stored, but for those a
\* filter excludes that are no values of the attribute's type.
THEOREM EachValueFound ==
    Spec => []FindsEachValueOnce
BY Invariant, InvFinds, PTL

\* ExactRange: the iterators of a reader of a range are for the stored values the caller
\* means, ascending, all of them unless the cutoff ended it.
THEOREM RangeIsExact ==
    Spec => []ExactRange
BY Invariant, InvRange, PTL

\* RowsOfTheBlock: every iterator is made from the row data of the block that holds
\* its value, although the data is loaded once for many of them.
THEOREM RowsAreOfTheBlock ==
    Spec => []RowsOfTheBlock
BY Invariant, InvRows, PTL
=============================================================================
