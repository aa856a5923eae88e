---------------------------- MODULE ColumnProofs ----------------------------
(***************************************************************************)
(* TLAPS proofs about columns of integers, hashes and booleans, for any    *)
(* documents, filters, sub-blocks that match, hints, cutoffs and sizes of  *)
(* blocks, words and tables: what is written of a block in any packing is  *)
(* read back as it was, and an analyzer is a stream of the rows that pass. *)
(* The first parts are about the operators of IntBlocks and ColumnGeometry *)
(* alone, the next about the packers and the reader, the last about the    *)
(* walk of an analyzer.                                                    *)
(***************************************************************************)
EXTENDS Column, FiniteSetTheorems, SequenceTheorems, WellFoundedInduction, TLAPS

-----------------------------------------------------------------------------
(* Helpers. *)

\* The smaller of two numbers.
Smaller(a, b) == IF a < b THEN a ELSE b
\* In ascending order; and no value twice.
Rising(s) == \A i, j \in DOMAIN s : i < j => s[i] < s[j]
Different(s) == \A i, j \in DOMAIN s : s[i] = s[j] => i = j

-----------------------------------------------------------------------------
(* Numbers and sequences. *)

\* Any set of natural numbers that is not empty has a least one.
LEMMA LeastNatural ==
    ASSUME NEW T, T \subseteq Nat, T # {}
    PROVE  \E m \in T : \A k \in T : m <= k
<1>1. IsWellFoundedOn(OpToRel(<, Nat), Nat)
  BY NatLessThanWellFounded
<1>2. PICK m \in T : \A k \in T : ~ (<<k, m>> \in OpToRel(<, Nat))
  BY <1>1, WFMin
<1>3. \A k \in T : ~ (k < m)
  BY <1>2 DEF OpToRel
<1> QED
  BY <1>3

\* FlattenSeq joins one sequence after the other: f[i] is the first i of s joined.
IsJoin(f, n, s) == f = [i \in 1 .. n |-> IF i = 1 THEN s[i] ELSE f[i - 1] \o s[i]]

\* One sequence more is joined.
LEMMA JoinExtends ==
    ASSUME NEW k \in Nat \ {0}, NEW s, NEW f, IsJoin(f, k - 1, s)
    PROVE  \E g : IsJoin(g, k, s)
<1> DEFINE More(h, i) == IF i = 1 THEN s[i] ELSE h[i - 1] \o s[i]
           last == More(f, k)
           g == [i \in 1 .. k |-> IF i < k THEN f[i] ELSE last]
<1>1. \A i \in 1 .. k - 1 : f[i] = More(f, i)
  <2>1. f = [i \in 1 .. k - 1 |-> More(f, i)]
    BY DEF IsJoin
  <2> HIDE DEF More
  <2> QED
    BY <2>1
<1>2. \A i \in 1 .. k : i = 1 \/ f[i - 1] = g[i - 1] => More(g, i) = More(f, i)
  <2> HIDE DEF g
  <2> QED
    BY Zenon
<1> HIDE DEF More
<1>3. \A i \in 1 .. k : g[i] = More(g, i)
  <2> SUFFICES ASSUME NEW i \in 1 .. k PROVE g[i] = More(g, i)
    OBVIOUS
  <2>1. i = 1 \/ f[i - 1] = g[i - 1]
    OBVIOUS
  <2>2. More(g, i) = More(f, i)
    BY <1>2, <2>1
  <2>3. CASE i < k
    BY <1>1, <2>2, <2>3
  <2>4. CASE i = k
    BY <2>2, <2>4
  <2> QED
    BY <2>3, <2>4
<1>4. g = [i \in 1 .. k |-> More(g, i)]
  BY <1>3
<1>5. IsJoin(g, k, s)
  BY <1>4, Zenon DEF IsJoin, More
<1> QED
  BY <1>5, Zenon

\* There is such a function for any number of sequences.
LEMMA JoinExists ==
    ASSUME NEW n \in Nat, NEW s
    PROVE  \E f : IsJoin(f, n, s)
<1> DEFINE T == {k \in Nat : ~ \E f : IsJoin(f, k, s)}
<1>1. T = {}
  <2> SUFFICES ASSUME T # {} PROVE FALSE
    OBVIOUS
  <2>1. PICK m \in T : \A k \in T : m <= k
    <3>1. T \subseteq Nat
      OBVIOUS
    <3> HIDE DEF T
    <3> QED
      BY <3>1, LeastNatural
  <2>2. m # 0
    <3>1. IsJoin([i \in 1 .. 0 |-> 0], 0, s)
      BY DEF IsJoin
    <3> QED
      BY <2>1, <3>1
  <2>3. m - 1 \in Nat /\ m - 1 \notin T
    BY <2>1, <2>2
  <2>4. PICK f : IsJoin(f, m - 1, s)
    BY <2>3
  <2>5. \E g : IsJoin(g, m, s)
    BY <2>1, <2>2, <2>4, JoinExtends
  <2> QED
    BY <2>1, <2>5
<1> QED
  BY <1>1

\* Each of its values follows from the one before it.
LEMMA JoinAt ==
    ASSUME NEW n \in Nat, NEW s, NEW f, IsJoin(f, n, s), NEW i \in 1 .. n
    PROVE  f[i] = IF i = 1 THEN s[i] ELSE f[i - 1] \o s[i]
<1> DEFINE More(j) == IF j = 1 THEN s[j] ELSE f[j - 1] \o s[j]
<1>1. f = [j \in 1 .. n |-> More(j)]
  BY DEF IsJoin
<1>2. f[i] = More(i)
  <2> HIDE DEF More
  <2> QED
    BY <1>1
<1> QED
  BY <1>2

\* Sequences with the same beginning are joined alike.
LEMMA JoinSame ==
    ASSUME NEW n \in Nat, NEW m \in Nat, NEW s, NEW t, NEW f, NEW g, n <= m,
           IsJoin(f, n, s), IsJoin(g, m, t), \A i \in 1 .. n : s[i] = t[i]
    PROVE  \A i \in 1 .. n : f[i] = g[i]
<1> DEFINE T == {i \in 1 .. n : f[i] # g[i]}
<1>1. T = {}
  <2> SUFFICES ASSUME T # {} PROVE FALSE
    OBVIOUS
  <2>1. PICK i \in T : \A k \in T : i <= k
    <3>1. T \subseteq Nat
      OBVIOUS
    <3> HIDE DEF T
    <3> QED
      BY <3>1, LeastNatural
  <2>2. i \in 1 .. n /\ i \in 1 .. m /\ s[i] = t[i]
    BY <2>1
  <2>3. f[i] = (IF i = 1 THEN s[i] ELSE f[i - 1] \o s[i])
    BY <2>2, JoinAt
  <2>4. g[i] = (IF i = 1 THEN t[i] ELSE g[i - 1] \o t[i])
    BY <2>2, JoinAt
  <2>5. i # 1 => f[i - 1] = g[i - 1]
    <3> SUFFICES ASSUME i # 1 PROVE i - 1 \in 1 .. n /\ i - 1 \notin T
      OBVIOUS
    <3> QED
      BY <2>1, <2>2
  <2>6. f[i] = g[i]
    BY <2>2, <2>3, <2>4, <2>5
  <2> QED
    BY <2>1, <2>6
<1> QED
  BY <1>1

\* It joins sequences of T into a sequence of T.
LEMMA JoinType ==
    ASSUME NEW T, NEW s \in Seq(Seq(T)), NEW f, IsJoin(f, Len(s), s)
    PROVE  \A i \in 1 .. Len(s) : f[i] \in Seq(T)
<1> DEFINE U == {i \in 1 .. Len(s) : f[i] \notin Seq(T)}
<1>1. U = {}
  <2> SUFFICES ASSUME U # {} PROVE FALSE
    OBVIOUS
  <2>1. PICK i \in U : \A k \in U : i <= k
    <3>1. U \subseteq Nat
      OBVIOUS
    <3> HIDE DEF U
    <3> QED
      BY <3>1, LeastNatural
  <2>2. i \in 1 .. Len(s) /\ s[i] \in Seq(T) /\ Len(s) \in Nat
    BY <2>1
  <2>3. f[i] = (IF i = 1 THEN s[i] ELSE f[i - 1] \o s[i])
    BY <2>2, JoinAt
  <2>4. i # 1 => f[i - 1] \in Seq(T)
    <3> SUFFICES ASSUME i # 1 PROVE i - 1 \in 1 .. Len(s) /\ i - 1 \notin U
      OBVIOUS
    <3> QED
      BY <2>1, <2>2
  <2>5. f[i] \in Seq(T)
    BY <2>2, <2>3, <2>4, ConcatProperties
  <2> QED
    BY <2>1, <2>5
<1> QED
  BY <1>1

\* FlattenSeq is the last of its values.
LEMMA FlattenIs ==
    ASSUME NEW T, NEW s \in Seq(Seq(T)), s # << >>
    PROVE  \E f : IsJoin(f, Len(s), s) /\ FlattenSeq(s) = f[Len(s)]
<1>1. Len(s) \in Nat /\ Len(s) # 0
  OBVIOUS
<1> DEFINE f == CHOOSE g : IsJoin(g, Len(s), s)
<1>2. IsJoin(f, Len(s), s)
  BY <1>1, JoinExists
<1>3. FlattenSeq(s) = f[Len(s)]
  BY <1>1, Zenon DEF FlattenSeq, IsJoin
<1> HIDE DEF f
<1> QED
  BY <1>2, <1>3

\* FlattenSeq joins sequences of T into a sequence of T.
LEMMA FlattenType ==
    ASSUME NEW T, NEW s \in Seq(Seq(T))
    PROVE  FlattenSeq(s) \in Seq(T)
<1>1. CASE s = << >>
  BY <1>1 DEF FlattenSeq
<1>2. CASE s # << >>
  <2>1. PICK f : IsJoin(f, Len(s), s) /\ FlattenSeq(s) = f[Len(s)]
    BY <1>2, FlattenIs
  <2>2. Len(s) \in 1 .. Len(s)
    BY <1>2
  <2> QED
    BY <2>1, <2>2, JoinType
<1> QED
  BY <1>1, <1>2
\* Multiples are as far apart as their factors.
LEMMA MultiplesApart ==
    ASSUME NEW k \in Nat, NEW b \in Nat, NEW c \in Nat, b < c
    PROVE  b * k \in Nat /\ c * k \in Nat /\ b * k + k <= c * k
<1>1. \A d \in Nat : b * k + k <= (b + 1 + d) * k
  OBVIOUS
<1>2. c - b - 1 \in Nat /\ c = b + 1 + (c - b - 1)
  OBVIOUS
<1>3. b * k + k <= (b + 1 + (c - b - 1)) * k
  BY <1>1, <1>2
<1> QED
  BY <1>2, <1>3

\* A number lies between the multiples its quotient names.
LEMMA Quotient ==
    ASSUME NEW a \in Nat, NEW d \in Nat \ {0}
    PROVE  /\ a \div d \in Nat
           /\ (a \div d) * d \in Nat
           /\ (a \div d) * d <= a /\ a < (a \div d) * d + d
<1>1. a \div d \in Int /\ a % d \in 0 .. d - 1 /\ a = d * (a \div d) + (a % d)
  OBVIOUS
<1>2. a \div d \in Nat
  <2> SUFFICES ASSUME a \div d < 0 PROVE FALSE
    BY <1>1
  <2> DEFINE q == a \div d
             m == -q - 1
  <2>1. m \in Nat /\ q = -(m + 1)
    BY <1>1
  <2> HIDE DEF q, m
  <2>2. d * (-(m + 1)) <= -d
    <3>1. \A x \in Nat : d * (-(x + 1)) <= -d
      OBVIOUS
    <3> QED
      BY <2>1, <3>1
  <2>3. d * q <= -d
    BY <2>1, <2>2
  <2> QED
    BY <1>1, <2>3 DEF q
<1>3. d * (a \div d) = (a \div d) * d /\ (a \div d) * d \in Nat
  BY <1>2
<1> QED
  BY <1>1, <1>2, <1>3

\* A number below n is its own remainder, and one below or above that by less
\* than n is n away from it.
LEMMA Remainder ==
    ASSUME NEW x \in Int, NEW n \in Nat \ {0}
    PROVE  /\ x % n \in 0 .. n - 1
           /\ x \in 0 .. n - 1 => x % n = x
           /\ x \in n .. 2 * n - 1 => x % n = x - n
           /\ x \in -n .. -1 => x % n = x + n
<1>1. x % n \in 0 .. n - 1 /\ x \div n \in Int /\ x = n * (x \div n) + (x % n)
  OBVIOUS
<1> DEFINE q == x \div n
           m == x % n
<1>2. q \in Int /\ m \in 0 .. n - 1 /\ x = n * q + m
  BY <1>1
<1> HIDE DEF q, m
<1>3. \A k \in Nat : n * (k + 2) >= 2 * n /\ n * (-(k + 2)) <= -(2 * n)
  OBVIOUS
<1>4. q \in {-1, 0, 1} \/ n * q >= 2 * n \/ n * q <= -(2 * n)
  <2>1. CASE q >= 2
    <3>1. q - 2 \in Nat /\ q = (q - 2) + 2
      BY <1>2, <2>1
    <3> QED
      BY <1>3, <3>1
  <2>2. CASE q <= -2
    <3>1. -q - 2 \in Nat /\ q = -((-q - 2) + 2)
      BY <1>2, <2>2
    <3> QED
      BY <1>3, <3>1
  <2> QED
    BY <1>2, <2>1, <2>2
<1>5. n * 1 = n /\ n * 0 = 0 /\ n * (-1) = -n /\ n * q \in Int
  BY <1>2
<1>6. m \in 0 .. n - 1 /\ (x \in 0 .. n - 1 => m = x) /\ (x \in n .. 2 * n - 1 => m = x - n)
      /\ (x \in -n .. -1 => m = x + n)
  BY <1>2, <1>4, <1>5
<1> QED
  BY <1>6 DEF m

-----------------------------------------------------------------------------
(* Sets in ascending order. *)

\* A set in ascending order.
Ranks(s, T) == s \in [1..Cardinality(T) -> T] /\ \A i, j \in 1..Cardinality(T) : i < j => s[i] < s[j]

\* A finite set of numbers can be put in order.
LEMMA RanksExist ==
    ASSUME NEW T, T \subseteq Nat, IsFiniteSet(T)
    PROVE  \E s : Ranks(s, T)
<1> DEFINE U == {n \in Nat : \E R \in SUBSET Nat : IsFiniteSet(R) /\ Cardinality(R) = n /\ ~ \E s : Ranks(s, R)}
<1>1. U = {}
  <2> SUFFICES ASSUME U # {} PROVE FALSE
    OBVIOUS
  <2>1. PICK n \in U : \A k \in U : n <= k
    <3>1. U \subseteq Nat
      OBVIOUS
    <3> HIDE DEF U
    <3> QED
      BY <3>1, LeastNatural
  <2>2. PICK R \in SUBSET Nat : IsFiniteSet(R) /\ Cardinality(R) = n /\ ~ \E s : Ranks(s, R)
    BY <2>1
  <2>3. R # {}
    <3> SUFFICES ASSUME R = {} PROVE FALSE
      OBVIOUS
    <3>1. Cardinality(R) = 0
      BY FS_EmptySet
    <3>2. Ranks([i \in 1..0 |-> 0], R)
      BY <3>1 DEF Ranks
    <3> QED
      BY <2>2, <3>2
  <2>4. PICK m \in R : \A k \in R : m <= k
    BY <2>2, <2>3, LeastNatural
  <2> DEFINE Q == R \ {m}
  <2>5. IsFiniteSet(Q) /\ Cardinality(Q) = n - 1 /\ Q \in SUBSET Nat
    BY <2>2, <2>4, FS_RemoveElement
  <2>6. n \in Nat /\ n - 1 \in Nat /\ n - 1 \notin U
    <3>1. n \in Nat /\ n # 0
      BY <2>1, <2>2, <2>3, FS_EmptySet
    <3> QED
      BY <2>1, <3>1
  <2>7. PICK s : Ranks(s, Q)
    BY <2>5, <2>6
  <2> DEFINE t == [i \in 1..n |-> IF i = 1 THEN m ELSE s[i - 1]]
  <2>8. s \in [1..(n - 1) -> Q] /\ \A i, j \in 1..(n - 1) : i < j => s[i] < s[j]
    BY <2>5, <2>7 DEF Ranks
  <2>9. \A k \in Q : m < k /\ k \in R /\ k \in Nat
    BY <2>2, <2>4
  <2> HIDE DEF Q
  <2>10. \A i \in 1..n : i # 1 => i - 1 \in 1..(n - 1) /\ s[i - 1] \in Q
    BY <2>6, <2>8
  <2>11. t \in [1..n -> R]
    BY <2>4, <2>9, <2>10
  <2>12. \A i, j \in 1..n : i < j => t[i] < t[j]
    BY <2>6, <2>8, <2>9, <2>10
  <2>13. Ranks(t, R)
    BY <2>2, <2>11, <2>12 DEF Ranks
  <2> QED
    BY <2>2, <2>13
<1>2. Cardinality(T) \in Nat
  BY FS_CardinalityType
<1> QED
  BY <1>1, <1>2

\* Ranked does so: it is as long as the set is large and leaves nothing out.
LEMMA RankedIs ==
    ASSUME NEW T, T \subseteq Nat, IsFiniteSet(T)
    PROVE  /\ Cardinality(T) \in Nat
           /\ Ranked(T) \in Seq(T) /\ Ranked(T) \in Seq(Nat)
           /\ Len(Ranked(T)) = Cardinality(T) /\ DOMAIN Ranked(T) = 1..Cardinality(T)
           /\ Rising(Ranked(T))
           /\ \A x : x \in T <=> \E i \in 1..Cardinality(T) : Ranked(T)[i] = x
<1> DEFINE n == Cardinality(T)
           s == Ranked(T)
<1>1. n \in Nat
  BY FS_CardinalityType
<1>2. s = CHOOSE r : Ranks(r, T)
  BY DEF Ranked, Ranks
<1>3. Ranks(s, T)
  BY <1>2, RanksExist
<1> HIDE DEF s
<1>4. s \in [1..n -> T] /\ \A i, j \in 1..n : i < j => s[i] < s[j]
  BY <1>3 DEF Ranks
<1> HIDE DEF n
<1>5. s \in Injection(1..n, T)
  <2>1. \A i, j \in 1..n : s[i] = s[j] => i = j
    <3> SUFFICES ASSUME NEW i \in 1..n, NEW j \in 1..n, s[i] = s[j], i # j PROVE FALSE
      OBVIOUS
    <3>1. s[i] \in Nat /\ s[j] \in Nat
      BY <1>4
    <3>2. i < j \/ j < i
      OBVIOUS
    <3> QED
      BY <1>4, <3>1, <3>2
  <2> QED
    BY <1>4, <2>1 DEF Injection, IsInjective
<1>6. s \in Surjection(1..n, T)
  <2>1. IsFiniteSet(1..n) /\ Cardinality(1..n) = n
    BY <1>1, FS_Interval
  <2> QED
    BY <1>5, <2>1, FS_Injection DEF n
<1>7. \A x \in T : \E i \in 1..n : s[i] = x
  BY <1>6 DEF Surjection
<1>8. s \in Seq(T) /\ s \in Seq(Nat) /\ Len(s) = n /\ DOMAIN s = 1..n
  <2>1. s \in Seq(T)
    BY <1>1, <1>4
  <2>2. s \in [1..n -> Nat]
    BY <1>4
  <2>3. s \in Seq(Nat)
    BY <1>1, <2>2
  <2> QED
    BY <1>1, <1>4, <2>1, <2>3
<1>9. Rising(s) /\ \A x : x \in T <=> \E i \in 1..n : s[i] = x
  BY <1>4, <1>7, <1>8 DEF Rising
<1> QED
  BY <1>1, <1>8, <1>9 DEF n, s

\* As many of a set are at most its k-th as k says.
LEMMA RankCounts ==
    ASSUME NEW T, T \subseteq Nat \ {0}, IsFiniteSet(T), NEW k \in 1..Cardinality(T)
    PROVE  Cardinality({j \in 1..Ranked(T)[k] : j \in T}) = k
<1> DEFINE s == Ranked(T)
           n == Cardinality(T)
           below == {j \in 1..s[k] : j \in T}
           f == [i \in 1..k |-> s[i]]
<1>1. T \subseteq Nat
  OBVIOUS
<1>2. n \in Nat /\ s \in Seq(T) /\ Len(s) = n /\ DOMAIN s = 1..n /\ Rising(s)
      /\ \A x : x \in T <=> \E i \in 1..n : s[i] = x
  BY <1>1, RankedIs
<1> HIDE DEF s, n
<1>3. k \in 1..n
  BY DEF n
<1>4. \A i \in 1..n : s[i] \in Nat \ {0}
  BY <1>2
<1>5. \A i, j \in 1..n : i < j => s[i] < s[j]
  BY <1>2 DEF Rising
<1>6. \A i \in 1..n : s[i] \in below <=> i <= k
  <2> SUFFICES ASSUME NEW i \in 1..n PROVE s[i] \in below <=> i <= k
    OBVIOUS
  <2>1. s[i] \in below <=> s[i] <= s[k]
    BY <1>2, <1>3, <1>4
  <2>2. i < k \/ i = k \/ k < i
    BY <1>3
  <2> QED
    BY <1>3, <1>4, <1>5, <2>1, <2>2
<1>7. f \in Surjection(1..k, below)
  <2>1. \A i \in 1..k : i \in 1..n
    BY <1>2, <1>3
  <2>2. \A i \in 1..k : s[i] \in below
    BY <1>6, <2>1
  <2>3. f \in [1..k -> below]
    BY <2>2
  <2>4. \A x \in below : \E i \in 1..k : f[i] = x
    <3> SUFFICES ASSUME NEW x \in below PROVE \E i \in 1..k : f[i] = x
      OBVIOUS
    <3>1. x \in T
      OBVIOUS
    <3>2. PICK i \in 1..n : s[i] = x
      BY <1>2, <3>1
    <3>3. i \in 1..k
      BY <1>6, <3>2
    <3> QED
      BY <3>2, <3>3
  <2> HIDE DEF f, below
  <2> QED
    BY <2>3, <2>4 DEF Surjection
<1>8. f \in Injection(1..k, below)
  <2>1. \A i, j \in 1..k : f[i] = f[j] => i = j
    <3> SUFFICES ASSUME NEW i \in 1..k, NEW j \in 1..k, s[i] = s[j], i # j PROVE FALSE
      OBVIOUS
    <3>1. i \in 1..n /\ j \in 1..n
      BY <1>2, <1>3
    <3>2. i < j \/ j < i
      OBVIOUS
    <3> QED
      BY <1>4, <1>5, <3>1, <3>2
  <2>2. f \in [1..k -> below]
    BY <1>7 DEF Surjection
  <2> HIDE DEF f, below
  <2> QED
    BY <2>1, <2>2 DEF Injection, IsInjective
<1>9. IsFiniteSet(1..k) /\ Cardinality(1..k) = k
  BY <1>2, <1>3, FS_Interval
<1> HIDE DEF f, below
<1>10. Cardinality(below) = k
  BY <1>7, <1>8, <1>9, FS_Surjection
<1> QED
  BY <1>10 DEF below, s

-----------------------------------------------------------------------------
(* Deltas. *)

\* What a column of integers stores of a document.
Value == 0..(Word - 1)

\* A word holds something.
LEMMA WordIs == Word \in Nat \ {0} /\ DocsPerBlock \in Nat \ {0} /\ SubblockSize \in Nat \ {0}
BY PackingAssumption, GeometryAssumption

Agree(f, g, n) == \A i \in 1..n : f[i] = g[i]
Follows(f, g, n) == \A i \in 1..n : (i = 1 \/ f[i - 1] = g[i - 1]) => f[i] = g[i]

\* Sequences are the same if each place of them follows alike from the one before.
LEMMA OnlyOne ==
    ASSUME NEW n \in Nat, NEW f, NEW g, Follows(f, g, n)
    PROVE  Agree(f, g, n)
<1> DEFINE T == {i \in 1..n : f[i] # g[i]}
<1>1. T = {}
  <2> SUFFICES ASSUME T # {} PROVE FALSE
    OBVIOUS
  <2>1. PICK i \in T : \A k \in T : i <= k
    <3>1. T \subseteq Nat
      OBVIOUS
    <3> HIDE DEF T
    <3> QED
      BY <3>1, LeastNatural
  <2>2. i = 1 \/ i - 1 \in 1..n
    BY <2>1
  <2>3. i = 1 \/ f[i - 1] = g[i - 1]
    BY <2>1, <2>2
  <2> QED
    BY <2>1, <2>3 DEF Follows
<1> QED
  BY <1>1 DEF Agree

\* The sequence whose steps are the deltas, up
LEMMA InverseIs ==
    ASSUME NEW d \in Seq(Nat), NEW g, g = [i \in DOMAIN d |-> IF i = 1 THEN d[1] ELSE (g[i - 1] + d[i]) % Word]
    PROVE  InverseDelta(d) = g
<1> DEFINE More(f, i) == IF i = 1 THEN d[1] ELSE (f[i - 1] + d[i]) % Word
           IsSum(f) == f = [i \in DOMAIN d |-> More(f, i)]
<1>1. DOMAIN d = 1..Len(d) /\ Len(d) \in Nat
  OBVIOUS
<1>0. ASSUME NEW f, IsSum(f)
      PROVE  \A i \in 1..Len(d) : f[i] = More(f, i)
  <2> HIDE DEF More
  <2> QED
    BY <1>0, <1>1
<1>2. ASSUME NEW f, IsSum(f)
      PROVE  f = g
  <2>1. f = [i \in DOMAIN d |-> f[i]] /\ g = [i \in DOMAIN d |-> g[i]]
    BY <1>2
  <2>2. Follows(f, g, Len(d))
    <3> SUFFICES ASSUME NEW i \in 1..Len(d), i = 1 \/ f[i - 1] = g[i - 1] PROVE f[i] = g[i]
      BY DEF Follows
    <3>1. f[i] = More(f, i) /\ g[i] = More(g, i)
      <4>1. IsSum(g)
        OBVIOUS
      <4> QED
        BY <1>0, <1>2, <4>1
    <3> QED
      BY <3>1
  <2>3. Agree(f, g, Len(d))
    BY <1>1, <2>2, OnlyOne
  <2>4. \A i \in DOMAIN d : f[i] = g[i]
    BY <1>1, <2>3 DEF Agree
  <2> HIDE DEF IsSum
  <2> QED
    BY <2>1, <2>4, Zenon
<1>3. IsSum(g)
  OBVIOUS
<1> DEFINE value == CHOOSE f : IsSum(f)
<1>4. InverseDelta(d) = [i \in DOMAIN d |-> value[i]]
  BY DEF InverseDelta
<1>5. value = g
  BY <1>2, <1>3
<1>6. g = [i \in DOMAIN d |-> g[i]]
  OBVIOUS
<1> HIDE DEF value
<1> QED
  BY <1>4, <1>5, <1>6

\* and down.
LEMMA InverseDescIs ==
    ASSUME NEW d \in Seq(Nat), NEW g, g = [i \in DOMAIN d |-> IF i = 1 THEN d[1] ELSE (g[i - 1] - d[i]) % Word]
    PROVE  CalcInverseDescDeltas(d) = g
<1> DEFINE More(f, i) == IF i = 1 THEN d[1] ELSE (f[i - 1] - d[i]) % Word
           IsSum(f) == f = [i \in DOMAIN d |-> More(f, i)]
<1>1. DOMAIN d = 1..Len(d) /\ Len(d) \in Nat
  OBVIOUS
<1>0. ASSUME NEW f, IsSum(f)
      PROVE  \A i \in 1..Len(d) : f[i] = More(f, i)
  <2> HIDE DEF More
  <2> QED
    BY <1>0, <1>1
<1>2. ASSUME NEW f, IsSum(f)
      PROVE  f = g
  <2>1. f = [i \in DOMAIN d |-> f[i]] /\ g = [i \in DOMAIN d |-> g[i]]
    BY <1>2
  <2>2. Follows(f, g, Len(d))
    <3> SUFFICES ASSUME NEW i \in 1..Len(d), i = 1 \/ f[i - 1] = g[i - 1] PROVE f[i] = g[i]
      BY DEF Follows
    <3>1. f[i] = More(f, i) /\ g[i] = More(g, i)
      <4>1. IsSum(g)
        OBVIOUS
      <4> QED
        BY <1>0, <1>2, <4>1
    <3> QED
      BY <3>1
  <2>3. Agree(f, g, Len(d))
    BY <1>1, <2>2, OnlyOne
  <2>4. \A i \in DOMAIN d : f[i] = g[i]
    BY <1>1, <2>3 DEF Agree
  <2> HIDE DEF IsSum
  <2> QED
    BY <2>1, <2>4, Zenon
<1>3. IsSum(g)
  OBVIOUS
<1> DEFINE value == CHOOSE f : IsSum(f)
<1>4. CalcInverseDescDeltas(d) = [i \in DOMAIN d |-> value[i]]
  BY DEF CalcInverseDescDeltas
<1>5. value = g
  BY <1>2, <1>3
<1>6. g = [i \in DOMAIN d |-> g[i]]
  OBVIOUS
<1> HIDE DEF value
<1> QED
  BY <1>4, <1>5, <1>6

\* The step from b to a, taken from b, leads to a.
LEMMA StepBack ==
    ASSUME NEW a \in 0..(Word - 1), NEW b \in 0..(Word - 1)
    PROVE  /\ (a - b) % Word \in Nat
           /\ (b + ((a - b) % Word)) % Word = a
           /\ (b - ((b - a) % Word)) % Word = a
<1>1. \A z \in Int : /\ z % Word \in 0..(Word - 1)
                     /\ z \in 0..(Word - 1) => z % Word = z
                     /\ z \in Word .. 2 * Word - 1 => z % Word = z - Word
                     /\ z \in -Word .. -1 => z % Word = z + Word
  BY WordIs, Remainder
<1> DEFINE up == a - b
           down == b - a
           x == up % Word
           y == down % Word
<1>2. up \in Int /\ down \in Int /\ Word \in Int /\ a \in Int /\ b \in Int
  BY WordIs
<1>3. /\ x \in 0..(Word - 1)
      /\ up \in 0..(Word - 1) => x = up
      /\ up \in -Word .. -1 => x = up + Word
  <2> HIDE DEF up
  <2> QED
    BY <1>1, <1>2
<1>4. /\ y \in 0..(Word - 1)
      /\ down \in 0..(Word - 1) => y = down
      /\ down \in -Word .. -1 => y = down + Word
  <2> HIDE DEF down
  <2> QED
    BY <1>1, <1>2
<1> HIDE DEF x, y
<1>5. x \in {a - b, a - b + Word} /\ y \in {b - a, b - a + Word}
  BY <1>2, <1>3, <1>4
<1> DEFINE p == b + x
           q == b - y
<1>6. p \in Int /\ q \in Int /\ (p = a \/ p = a + Word) /\ (q = a \/ q = a - Word)
  BY <1>2, <1>3, <1>4, <1>5
<1> HIDE DEF p, q, up, down
<1>7. p % Word = a
  BY <1>1, <1>2, <1>6
<1>8. q % Word = a
  BY <1>1, <1>2, <1>6
<1>9. (a - b) % Word \in Nat /\ (b + ((a - b) % Word)) % Word = a /\ (b - ((b - a) % Word)) % Word = a
  BY <1>2, <1>3, <1>7, <1>8 DEF x, y, p, q, up, down
<1> QED
  BY <1>9

\* Deltas are words, and lead back to the values, up or down.
LEMMA DeltasInverted ==
    ASSUME NEW v \in Seq(Value), NEW asc \in BOOLEAN
    PROVE  /\ ComputeDeltas(v, asc) \in Seq(Nat) /\ Len(ComputeDeltas(v, asc)) = Len(v)
           /\ ComputeInverseDeltas(ComputeDeltas(v, asc), asc) = v
<1>1. Len(v) \in Nat /\ DOMAIN v = 1..Len(v) /\ v = [i \in 1..Len(v) |-> v[i]]
  OBVIOUS
<1>2. \A i \in 1..Len(v) : v[i] \in 0..(Word - 1)
  <2>1. \A i \in 1..Len(v) : v[i] \in Value
    OBVIOUS
  <2> QED
    BY <2>1 DEF Value
<1>3. \A i \in 1..Len(v) : i # 1 => i - 1 \in 1..Len(v)
  OBVIOUS
<1>4. \A a, b \in 0..(Word - 1) :
          /\ (a - b) % Word \in Nat
          /\ (b + ((a - b) % Word)) % Word = a
          /\ (b - ((b - a) % Word)) % Word = a
  BY StepBack
<1>5. CASE asc
  <2> DEFINE d == Delta(v)
  <2>1. ComputeDeltas(v, asc) = d /\ ComputeInverseDeltas(d, asc) = InverseDelta(d)
    BY <1>5 DEF ComputeDeltas, ComputeInverseDeltas
  <2>2. d = [i \in 1..Len(v) |-> IF i = 1 THEN v[1] ELSE (v[i] - v[i - 1]) % Word]
    BY <1>1 DEF Delta
  <2>3. \A i \in 1..Len(v) : d[i] = IF i = 1 THEN v[1] ELSE (v[i] - v[i - 1]) % Word
    BY <2>2
  <2>4. \A i \in 1..Len(v) : d[i] \in Nat
    <3> SUFFICES ASSUME NEW i \in 1..Len(v) PROVE d[i] \in Nat
      OBVIOUS
    <3>1. CASE i = 1
      BY <1>2, <2>3, <3>1, WordIs
    <3>2. CASE i # 1
      <4>1. v[i] \in 0..(Word - 1) /\ v[i - 1] \in 0..(Word - 1) /\ d[i] = (v[i] - v[i - 1]) % Word
        BY <1>2, <1>3, <2>3, <3>2
      <4> QED
        BY <1>4, <4>1
    <3> QED
      BY <3>1, <3>2
  <2>5. d \in Seq(Nat) /\ Len(d) = Len(v) /\ DOMAIN d = 1..Len(v)
    BY <1>1, <2>2, <2>4
  <2> HIDE DEF d
  <2>6. \A i \in 1..Len(v) : v[i] = IF i = 1 THEN d[1] ELSE (v[i - 1] + d[i]) % Word
    <3> SUFFICES ASSUME NEW i \in 1..Len(v), i # 1 PROVE v[i] = (v[i - 1] + d[i]) % Word
      BY <1>2, <2>3
    <3>1. v[i] \in 0..(Word - 1) /\ v[i - 1] \in 0..(Word - 1) /\ d[i] = (v[i] - v[i - 1]) % Word
      BY <1>2, <1>3, <2>3
    <3>2. (v[i - 1] + d[i]) % Word = v[i]
      BY <1>4, <3>1
    <3> QED
      BY <3>2
  <2>7. v = [i \in DOMAIN d |-> IF i = 1 THEN d[1] ELSE (v[i - 1] + d[i]) % Word]
    BY <1>1, <2>5, <2>6
  <2>8. InverseDelta(d) = v
    BY <2>5, <2>7, InverseIs
  <2> QED
    BY <2>1, <2>5, <2>8
<1>6. CASE ~asc
  <2> DEFINE d == CalcDescDeltas(v)
  <2>1. ComputeDeltas(v, asc) = d /\ ComputeInverseDeltas(d, asc) = CalcInverseDescDeltas(d)
    BY <1>6 DEF ComputeDeltas, ComputeInverseDeltas
  <2>2. d = [i \in 1..Len(v) |-> IF i = 1 THEN v[1] ELSE (v[i - 1] - v[i]) % Word]
    BY <1>1 DEF CalcDescDeltas
  <2>3. \A i \in 1..Len(v) : d[i] = IF i = 1 THEN v[1] ELSE (v[i - 1] - v[i]) % Word
    BY <2>2
  <2>4. \A i \in 1..Len(v) : d[i] \in Nat
    <3> SUFFICES ASSUME NEW i \in 1..Len(v) PROVE d[i] \in Nat
      OBVIOUS
    <3>1. CASE i = 1
      BY <1>2, <2>3, <3>1, WordIs
    <3>2. CASE i # 1
      <4>1. v[i] \in 0..(Word - 1) /\ v[i - 1] \in 0..(Word - 1) /\ d[i] = (v[i - 1] - v[i]) % Word
        BY <1>2, <1>3, <2>3, <3>2
      <4> QED
        BY <1>4, <4>1
    <3> QED
      BY <3>1, <3>2
  <2>5. d \in Seq(Nat) /\ Len(d) = Len(v) /\ DOMAIN d = 1..Len(v)
    BY <1>1, <2>2, <2>4
  <2> HIDE DEF d
  <2>6. \A i \in 1..Len(v) : v[i] = IF i = 1 THEN d[1] ELSE (v[i - 1] - d[i]) % Word
    <3> SUFFICES ASSUME NEW i \in 1..Len(v), i # 1 PROVE v[i] = (v[i - 1] - d[i]) % Word
      BY <1>2, <2>3
    <3>1. v[i] \in 0..(Word - 1) /\ v[i - 1] \in 0..(Word - 1) /\ d[i] = (v[i - 1] - v[i]) % Word
      BY <1>2, <1>3, <2>3
    <3>2. (v[i - 1] - d[i]) % Word = v[i]
      BY <1>4, <3>1
    <3> QED
      BY <3>2
  <2>7. v = [i \in DOMAIN d |-> IF i = 1 THEN d[1] ELSE (v[i - 1] - d[i]) % Word]
    BY <1>1, <2>5, <2>6
  <2>8. CalcInverseDescDeltas(d) = v
    BY <2>5, <2>7, InverseDescIs
  <2> QED
    BY <2>1, <2>5, <2>8
<1> QED
  BY <1>5, <1>6

-----------------------------------------------------------------------------
(* Sub-blocks, one after the other in a body. *)

\* Of sequences that are joined, each stays where it is.
LEMMA JoinKeeps ==
    ASSUME NEW s \in Seq(Seq(Nat)), NEW f, IsJoin(f, Len(s), s), NEW i \in 1..Len(s), NEW m \in i..Len(s)
    PROVE  /\ Len(f[i]) <= Len(f[m])
           /\ \A k \in 1..Len(f[i]) : f[m][k] = f[i][k]
<1> DEFINE Keeps(j) == Len(f[i]) <= Len(f[j]) /\ \A k \in 1..Len(f[i]) : f[j][k] = f[i][k]
           T == {j \in i..Len(s) : ~Keeps(j)}
<1>1. \A j \in 1..Len(s) : f[j] \in Seq(Nat) /\ s[j] \in Seq(Nat)
  BY JoinType
<1>2. T = {}
  <2> SUFFICES ASSUME T # {} PROVE FALSE
    OBVIOUS
  <2>1. PICK j \in T : \A k \in T : j <= k
    <3>1. T \subseteq Nat
      OBVIOUS
    <3> HIDE DEF T
    <3> QED
      BY <3>1, LeastNatural
  <2>2. j \in i..Len(s) /\ ~Keeps(j)
    BY <2>1
  <2>3. j # i
    <3>1. Keeps(i)
      BY <1>1
    <3> QED
      BY <2>2, <3>1
  <2>4. j - 1 \in i..Len(s) /\ j \in 1..Len(s) /\ j - 1 \in 1..Len(s) /\ j # 1
    BY <2>2, <2>3
  <2>5. Keeps(j - 1)
    <3>1. j - 1 \notin T
      <4> HIDE DEF Keeps
      <4> QED
        BY <2>1, <2>4
    <3> HIDE DEF Keeps
    <3> QED
      BY <2>4, <3>1
  <2>6. f[j] = f[j - 1] \o s[j]
    <3>1. Len(s) \in Nat
      OBVIOUS
    <3>2. f[j] = (IF j = 1 THEN s[j] ELSE f[j - 1] \o s[j])
      <4>1. j \in 1..Len(s)
        BY <2>4
      <4>2. \A n \in Nat : \A k \in 1..n : IsJoin(f, n, s) => f[k] = (IF k = 1 THEN s[k] ELSE f[k - 1] \o s[k])
        BY JoinAt
      <4> QED
        BY <3>1, <4>1, <4>2, Zenon
    <3> QED
      BY <2>4, <3>2, Zenon
  <2> DEFINE a == f[j - 1]
             c == s[j]
             g == f[i]
  <2>7. a \in Seq(Nat) /\ c \in Seq(Nat) /\ g \in Seq(Nat)
    BY <1>1, <2>4
  <2>8. Len(g) <= Len(a) /\ \A k \in 1..Len(g) : a[k] = g[k]
    BY <2>5
  <2> HIDE DEF a, c, g
  <2>9. Len(a \o c) = Len(a) + Len(c) /\ \A k \in 1..Len(a) : (a \o c)[k] = a[k]
    BY <2>7, ConcatProperties
  <2>10. Len(g) <= Len(a \o c) /\ \A k \in 1..Len(g) : (a \o c)[k] = g[k]
    BY <2>7, <2>8, <2>9
  <2>11. Keeps(j)
    BY <2>6, <2>10 DEF a, c, g
  <2> QED
    BY <2>2, <2>11
<1>3. Keeps(m)
  <2> HIDE DEF Keeps
  <2> QED
    BY <1>2
<1> QED
  BY <1>3

\* The ends of chunks that are joined.
AreEnds(e, chunks) ==
    /\ e \in [0..Len(chunks) -> Nat]
    /\ e[0] = 0
    /\ \A i \in 1..Len(chunks) : e[i] = e[i - 1] + Len(chunks[i])

\* What lies between two places of a sequence.
LEMMA SubSeqIs ==
    ASSUME NEW w \in Seq(Nat), NEW a \in Nat, NEW b \in Nat, a <= b, b <= Len(w)
    PROVE  /\ SubSeq(w, a + 1, b) \in Seq(Nat) /\ Len(SubSeq(w, a + 1, b)) = b - a
           /\ \A i \in 1 .. b - a : SubSeq(w, a + 1, b)[i] = w[a + i]
<1>1. SubSeq(w, a + 1, b) = [i \in 1 .. (b - (a + 1) + 1) |-> w[a + 1 + i - 1]]
  OBVIOUS
<1>2. b - (a + 1) + 1 = b - a /\ b - a \in Nat /\ \A i \in 1 .. b - a : a + 1 + i - 1 = a + i
  OBVIOUS
<1>3. SubSeq(w, a + 1, b) = [i \in 1 .. b - a |-> w[a + i]]
  BY <1>1, <1>2
<1>4. \A i \in 1 .. b - a : w[a + i] \in Nat
  OBVIOUS
<1> QED
  BY <1>2, <1>3, <1>4

\* Between the ends of the chunks are the chunks.
LEMMA ChunksRead ==
    ASSUME NEW chunks \in Seq(Seq(Nat)), chunks # << >>
    PROVE  \E e : /\ AreEnds(e, chunks)
                  /\ \A i \in 1..Len(chunks) : SubSeq(FlattenSeq(chunks), e[i - 1] + 1, e[i]) = chunks[i]
<1> DEFINE n == Len(chunks)
           w == FlattenSeq(chunks)
<1>1. n \in Nat /\ n \in 1..n
  OBVIOUS
<1>2. PICK f : IsJoin(f, n, chunks) /\ w = f[n]
  BY FlattenIs
<1>3. \A j \in 1..n : f[j] \in Seq(Nat) /\ chunks[j] \in Seq(Nat)
  BY <1>2, JoinType
<1>4. \A j \in 1..n : Len(f[j]) <= Len(w) /\ \A k \in 1..Len(f[j]) : w[k] = f[j][k]
  BY <1>1, <1>2, JoinKeeps
<1> DEFINE e == [j \in 0..n |-> IF j = 0 THEN 0 ELSE Len(f[j])]
<1> HIDE DEF w, n
<1>5. \A j \in 1..n : f[j] = IF j = 1 THEN chunks[j] ELSE f[j - 1] \o chunks[j]
  <2>1. IsJoin(f, n, chunks)
    BY <1>2
  <2> QED
    BY <1>1, <2>1, JoinAt
<1>6. ASSUME NEW j \in 1..n
      PROVE  /\ e[j] = e[j - 1] + Len(chunks[j]) /\ e[j - 1] \in Nat /\ e[j] \in Nat
             /\ \A k \in 1..Len(chunks[j]) : f[j][e[j - 1] + k] = chunks[j][k]
  <2>1. CASE j = 1
    <3>1. f[j] = chunks[j] /\ e[j - 1] = 0 /\ e[j] = Len(f[j])
      BY <1>1, <1>5, <2>1
    <3>2. chunks[j] \in Seq(Nat)
      BY <1>3
    <3> HIDE DEF e
    <3> QED
      BY <3>1, <3>2
  <2>2. CASE j # 1
    <3> DEFINE a == f[j - 1]
               c == chunks[j]
    <3>1. j - 1 \in 1..n /\ j - 1 \in 0..n /\ j \in 0..n
      BY <1>1, <2>2
    <3>2. f[j] = a \o c /\ e[j - 1] = Len(a) /\ e[j] = Len(f[j])
      <4>1. f[j] = a \o c
        BY <1>5, <2>2, Zenon
      <4>2. e[j - 1] = Len(f[j - 1])
        BY <2>2, <3>1
      <4>3. e[j] = Len(f[j])
        BY <3>1
      <4> QED
        BY <4>1, <4>2, <4>3
    <3>3. a \in Seq(Nat) /\ c \in Seq(Nat)
      BY <1>3, <3>1
    <3> HIDE DEF a
    <3>4. Len(a \o c) = Len(a) + Len(c) /\ \A k \in 1..(Len(a) + Len(c)) :
             (a \o c)[k] = IF k <= Len(a) THEN a[k] ELSE c[k - Len(a)]
      BY <3>3, ConcatProperties
    <3>5. \A k \in 1..Len(c) : (a \o c)[Len(a) + k] = c[k]
      <4> SUFFICES ASSUME NEW k \in 1..Len(c) PROVE (a \o c)[Len(a) + k] = c[k]
        OBVIOUS
      <4>1. Len(a) + k \in 1..(Len(a) + Len(c)) /\ ~(Len(a) + k <= Len(a)) /\ Len(a) + k - Len(a) = k
        BY <3>3
      <4> QED
        BY <3>4, <4>1
    <3> HIDE DEF c
    <3>6. /\ e[j] = e[j - 1] + Len(c) /\ e[j - 1] \in Nat /\ e[j] \in Nat
          /\ \A k \in 1..Len(c) : f[j][e[j - 1] + k] = c[k]
      <4> HIDE DEF e
      <4> QED
        BY <3>2, <3>3, <3>4, <3>5
    <3> QED
      BY <3>6 DEF c
  <2> QED
    BY <2>1, <2>2
<1>7. AreEnds(e, chunks)
  <2>1. e[0] = 0 /\ DOMAIN e = 0..n
    BY <1>1
  <2>2. \A j \in 0..n : e[j] \in Nat
    BY <1>1, <1>6, <2>1
  <2>3. e \in [0..n -> Nat]
    BY <2>1, <2>2
  <2> HIDE DEF e
  <2> QED
    BY <1>6, <2>1, <2>3 DEF AreEnds, n
<1>8. ASSUME NEW j \in 1..n
      PROVE  SubSeq(w, e[j - 1] + 1, e[j]) = chunks[j]
  <2> DEFINE c == chunks[j]
             a == e[j - 1]
             b == e[j]
  <2>1. a \in Nat /\ b \in Nat /\ b = a + Len(c) /\ c \in Seq(Nat)
    BY <1>3, <1>6
  <2>2. w \in Seq(Nat) /\ b <= Len(w) /\ Len(f[j]) = b
    BY <1>1, <1>2, <1>3, <1>4
  <2>3. \A k \in 1..Len(c) : w[a + k] = c[k]
    <3> SUFFICES ASSUME NEW k \in 1..Len(c) PROVE w[a + k] = c[k]
      OBVIOUS
    <3>1. f[j][a + k] = c[k]
      BY <1>6
    <3>2. a + k \in 1..Len(f[j])
      <4> HIDE DEF a, b, c, e
      <4> QED
        BY <2>1, <2>2
    <3> QED
      BY <1>4, <3>1, <3>2
  <2> HIDE DEF a, b, c, e
  <2> DEFINE q == SubSeq(w, a + 1, b)
  <2>4. q \in Seq(Nat) /\ Len(q) = b - a /\ \A i \in 1 .. b - a : q[i] = w[a + i]
    <3>1. a <= b
      BY <2>1
    <3> QED
      BY <2>1, <2>2, <3>1, SubSeqIs
  <2>5. b - a = Len(c)
    BY <2>1
  <2> HIDE DEF q
  <2>6. q = c
    <3>1. \A i \in 1..Len(c) : q[i] = c[i]
      BY <2>3, <2>4, <2>5
    <3>2. Len(q) = Len(c) /\ q \in Seq(Nat) /\ c \in Seq(Nat)
      BY <2>1, <2>4, <2>5
    <3>3. q = [i \in 1..Len(q) |-> q[i]] /\ c = [i \in 1..Len(c) |-> c[i]]
      BY <3>2
    <3> QED
      BY <3>1, <3>2, <3>3, Zenon
  <2> QED
    BY <2>6 DEF q, a, b, c
<1> HIDE DEF e
<1> QED
  BY <1>7, <1>8 DEF w, n

-----------------------------------------------------------------------------
(* Blocks and sub-blocks. *)

\* How many of n values are in sub-block sb, and which.
CountIn(n, sb) == Smaller(SubblockSize, n - sb * SubblockSize)
\* The values of sub-block sb of a block, and the sub-blocks it has.
Part(v, sb) == [i \in 1..CountIn(Len(v), sb) |-> v[sb * SubblockSize + i]]
PartsOf(v) == {sb \in 0..Len(v) : sb * SubblockSize < Len(v)}

\* A block is a number of whole sub-blocks.
LEMMA BlockIs == SubblocksPerBlock \in Nat \ {0} /\ DocsPerBlock = SubblocksPerBlock * SubblockSize
<1> DEFINE d == DocsPerBlock
           s == SubblockSize
<1>1. d \in Nat \ {0} /\ s \in Nat \ {0} /\ d % s = 0
  BY GeometryAssumption
<1> HIDE DEF d, s
<1>2. d \div s \in Int /\ d = s * (d \div s) + (d % s)
  BY <1>1
<1>3. d \div s \in Nat /\ (d \div s) * s \in Nat
  BY <1>1, Quotient
<1> DEFINE q == d \div s
<1>4. q \in Nat /\ d = s * q
  BY <1>1, <1>2, <1>3
<1> HIDE DEF q
<1>5. d = q * s /\ q # 0
  <2>1. s * q = q * s /\ s * 0 = 0
    BY <1>1, <1>4
  <2> QED
    BY <1>1, <1>4, <2>1
<1> QED
  BY <1>4, <1>5 DEF d, s, q, SubblocksPerBlock

\* Pieces of d values are needed up to the one with the last of n.
LEMMA CeilIs ==
    ASSUME NEW n \in Nat, NEW d \in Nat \ {0}
    PROVE  /\ Ceil(n, d) \in Nat
           /\ \A i \in Nat : i * d \in Nat /\ (i < Ceil(n, d) <=> i * d < n)
<1> DEFINE a == n + d - 1
           q == a \div d
<1>1. a \in Nat
  OBVIOUS
<1> HIDE DEF a
<1>2. q \in Nat /\ q * d \in Nat /\ q * d <= a /\ a < q * d + d
  BY <1>1, Quotient
<1> HIDE DEF q
<1>3. ASSUME NEW i \in Nat
      PROVE  i * d \in Nat /\ (i < q <=> i * d < n)
  <2>1. i * d \in Nat
    OBVIOUS
  <2>2. i < q => i * d + d <= q * d
    BY <1>2, MultiplesApart
  <2>3. q < i => q * d + d <= i * d
    BY <1>2, MultiplesApart
  <2>4. i < q \/ i = q \/ q < i
    BY <1>2
  <2> DEFINE x == i * d
             y == q * d
  <2>5. x \in Nat /\ y \in Nat /\ (i = q => x = y)
    BY <1>2, <2>1
  <2>6. i < q <=> x < n
    <3> HIDE DEF x, y
    <3>1. (i < q => x + d <= y) /\ (q < i => y + d <= x)
      BY <2>2, <2>3 DEF x, y
    <3>2. y <= a /\ a < y + d /\ a = n + d - 1
      BY <1>2 DEF y, a
    <3> QED
      BY <1>2, <2>4, <2>5, <3>1, <3>2
  <2> QED
    BY <2>1, <2>6
<1>4. Ceil(n, d) = q
  BY DEF Ceil, q, a
<1> QED
  BY <1>2, <1>3, <1>4

\* What is left for piece i.
LEMMA Leftover ==
    ASSUME NEW n \in Nat, NEW d \in Nat \ {0}, NEW i \in Nat, i * d < n
    PROVE  /\ i * d \in Nat /\ n % d \in 0..(d - 1)
           /\ n % d = 0 => n - i * d >= d
           /\ i < Ceil(n, d) - 1 => n - i * d >= d
           /\ i >= Ceil(n, d) - 1 /\ n % d # 0 => n - i * d = n % d
<1> DEFINE q == n \div d
           m == n % d
           c == Ceil(n, d)
<1>1. q \in Nat /\ q * d \in Nat /\ q * d <= n /\ n < q * d + d
  BY Quotient
<1>2. m \in 0..(d - 1) /\ n = q * d + m
  <2>1. m \in 0..(d - 1) /\ q \in Int /\ n = d * q + m
    OBVIOUS
  <2>2. d * q = q * d
    BY <1>1
  <2> QED
    BY <2>1, <2>2
<1>3. c \in Nat /\ \A j \in Nat : j * d \in Nat /\ (j < c <=> j * d < n)
  BY CeilIs
<1> HIDE DEF q, m, c
<1>4. i < q => i * d + d <= q * d
  BY <1>1, MultiplesApart
<1>5. q < i => q * d + d <= i * d
  BY <1>1, MultiplesApart
<1>6. i <= q
  BY <1>1, <1>3, <1>5
<1>7. m = 0 => n - i * d >= d
  <2> SUFFICES ASSUME m = 0 PROVE n - i * d >= d
    OBVIOUS
  <2>1. q * d = n /\ i # q
    BY <1>1, <1>2
  <2> DEFINE x == i * d
             y == q * d
  <2>2. x \in Nat /\ y = n /\ x + d <= y
    BY <1>1, <1>3, <1>4, <1>6, <2>1
  <2> HIDE DEF x, y
  <2>3. n - x >= d
    BY <2>2
  <2> QED
    BY <2>3 DEF x
<1>8. i < c - 1 => n - i * d >= d
  <2> SUFFICES ASSUME i < c - 1 PROVE n - i * d >= d
    OBVIOUS
  <2> DEFINE k == i + 1
  <2>1. k \in Nat /\ k < c /\ i < k
    BY <1>3
  <2> HIDE DEF k
  <2>2. k * d < n /\ i * d + d <= k * d /\ i * d \in Nat /\ k * d \in Nat
    BY <1>3, <2>1, MultiplesApart
  <2> DEFINE x == i * d
             y == k * d
  <2>3. x \in Nat /\ y \in Nat /\ y < n /\ x + d <= y
    BY <2>2
  <2> HIDE DEF x, y
  <2>4. n - x >= d
    BY <2>3
  <2> QED
    BY <2>4 DEF x
<1>9. i >= c - 1 /\ m # 0 => n - i * d = m
  <2> SUFFICES ASSUME i >= c - 1, m # 0 PROVE n - i * d = m
    OBVIOUS
  <2>1. q * d < n
    BY <1>1, <1>2
  <2>2. q < c
    BY <1>1, <1>3, <2>1
  <2>3. i = q
    BY <1>1, <1>3, <1>6, <2>2
  <2> DEFINE x == q * d
  <2>4. x \in Nat /\ n = x + m
    BY <1>1, <1>2
  <2> HIDE DEF x
  <2>5. n - x = m
    BY <1>2, <2>4
  <2> QED
    BY <2>3, <2>5 DEF x
<1> QED
  BY <1>2, <1>3, <1>7, <1>8, <1>9 DEF m, c

\* Writers and readers agree on the values of a sub-block,
LEMMA SizeIs ==
    ASSUME NEW n \in Nat, NEW sb \in Nat, sb * SubblockSize < n
    PROVE  /\ CountIn(n, sb) \in 1..SubblockSize /\ sb * SubblockSize \in Nat
           /\ sb * SubblockSize + CountIn(n, sb) <= n
           /\ GetSubblockSize(sb, n) = CountIn(n, sb)
           /\ n <= DocsPerBlock => GetNumSubblockValues(n, sb) = CountIn(n, sb)
<1> DEFINE s == SubblockSize
           x == sb * s
           m == n % s
           c == Ceil(n, s)
<1>1. s \in Nat \ {0}
  BY GeometryAssumption
<1> HIDE DEF s
<1>2. /\ x \in Nat /\ m \in 0..(s - 1) /\ c \in Nat /\ x < n
      /\ m = 0 => n - x >= s
      /\ sb < c - 1 => n - x >= s
      /\ sb >= c - 1 /\ m # 0 => n - x = m
  <2>1. sb * s < n
    BY DEF s
  <2> QED
    BY <1>1, <2>1, Leftover, CeilIs
<1>3. sb < c
  <2>1. sb * s < n
    BY DEF s
  <2> QED
    BY <1>1, <2>1, CeilIs
<1>4. n = DocsPerBlock => m = 0
  BY GeometryAssumption DEF s
<1> HIDE DEF x, m, c
<1>5. CountIn(n, sb) = IF s < n - x THEN s ELSE n - x
  BY DEF CountIn, Smaller, s, x
<1>6. GetSubblockSize(sb, n) = IF sb = c - 1 /\ m # 0 THEN m ELSE s
  BY DEF GetSubblockSize, s, m, c
<1>7. GetNumSubblockValues(n, sb) = IF n = DocsPerBlock \/ sb < c - 1 \/ m = 0 THEN s ELSE m
  BY DEF GetNumSubblockValues, s, m, c
<1>8. CountIn(n, sb) \in 1..s /\ x + CountIn(n, sb) <= n /\ GetSubblockSize(sb, n) = CountIn(n, sb)
      /\ GetNumSubblockValues(n, sb) = CountIn(n, sb)
  BY <1>1, <1>2, <1>3, <1>4, <1>5, <1>6, <1>7
<1> QED
  BY <1>2, <1>8 DEF s, x

\* and on the documents of a block.
LEMMA NumDocsIs ==
    ASSUME NEW n \in Nat, NEW b \in Nat, b * DocsPerBlock < n
    PROVE  /\ b * DocsPerBlock \in Nat
           /\ GetNumDocs(n, b) = Smaller(DocsPerBlock, n - b * DocsPerBlock)
           /\ GetNumDocs(n, b) \in 1..DocsPerBlock
           /\ b * DocsPerBlock + GetNumDocs(n, b) <= n
<1> DEFINE s == DocsPerBlock
           x == b * s
           m == n % s
           c == Ceil(n, s)
<1>1. s \in Nat \ {0}
  BY GeometryAssumption
<1> HIDE DEF s
<1>2. /\ x \in Nat /\ m \in 0..(s - 1) /\ c \in Nat /\ x < n
      /\ m = 0 => n - x >= s
      /\ b < c - 1 => n - x >= s
      /\ b >= c - 1 /\ m # 0 => n - x = m
  <2>1. b * s < n
    BY DEF s
  <2> QED
    BY <1>1, <2>1, Leftover, CeilIs
<1> HIDE DEF x, m, c
<1>3. GetNumDocs(n, b) = IF m = 0 \/ b < c - 1 THEN s ELSE m
  BY DEF GetNumDocs, s, m, c
<1>4. /\ GetNumDocs(n, b) = (IF s < n - x THEN s ELSE n - x)
      /\ GetNumDocs(n, b) \in 1..s /\ x + GetNumDocs(n, b) <= n
  BY <1>1, <1>2, <1>3
<1> QED
  BY <1>2, <1>4 DEF s, x, Smaller

\* A part is there for each number of a sub-block, and is made of words.
LEMMA PartIs ==
    ASSUME NEW v \in Seq(Value), NEW sb \in PartsOf(v)
    PROVE  /\ sb \in Nat /\ sb * SubblockSize \in Nat /\ sb * SubblockSize < Len(v)
           /\ CountIn(Len(v), sb) \in 1..SubblockSize
           /\ sb * SubblockSize + CountIn(Len(v), sb) <= Len(v)
           /\ Part(v, sb) \in Seq(Value) /\ Len(Part(v, sb)) = CountIn(Len(v), sb)
           /\ \A i \in 1..CountIn(Len(v), sb) : Part(v, sb)[i] = v[sb * SubblockSize + i]
<1> DEFINE n == Len(v)
           x == sb * SubblockSize
           m == CountIn(n, sb)
<1>1. n \in Nat /\ sb \in Nat /\ x < n
  BY DEF PartsOf
<1>2. m \in 1..SubblockSize /\ x \in Nat /\ x + m <= n
  BY <1>1, SizeIs
<1>3. Part(v, sb) = [i \in 1..m |-> v[x + i]]
  BY DEF Part
<1>4. SubblockSize \in Nat
  BY GeometryAssumption
<1> HIDE DEF x, m
<1>5. \A i \in 1..m : x + i \in 1..n
  BY <1>1, <1>2, <1>4
<1>6. \A i \in 1..m : v[x + i] \in Value
  BY <1>5
<1>7. m \in Nat
  BY <1>2, <1>4
<1>8. Part(v, sb) \in Seq(Value) /\ Len(Part(v, sb)) = m /\ \A i \in 1..m : Part(v, sb)[i] = v[x + i]
  <2>1. [i \in 1..m |-> v[x + i]] \in [1..m -> Value]
    BY <1>6
  <2> QED
    BY <1>3, <1>7, <2>1
<1> QED
  BY <1>1, <1>2, <1>8 DEF x, m

\* What fits in a word is a natural number.
LEMMA WordsAreNumbers == Value \subseteq Nat /\ \A s \in Seq(Value) : s \in Seq(Nat)
<1>1. Value \subseteq Nat
  BY WordIs DEF Value
<1>2. \A s \in Seq(Value) : s \in Seq(Nat)
  <2> SUFFICES ASSUME NEW s \in Seq(Value) PROVE s \in Seq(Nat)
    OBVIOUS
  <2>1. Len(s) \in Nat /\ s = [i \in 1..Len(s) |-> s[i]] /\ \A i \in 1..Len(s) : s[i] \in Value
    OBVIOUS
  <2>2. \A i \in 1..Len(s) : s[i] \in Nat
    BY <1>1, <2>1
  <2> QED
    BY <2>1, <2>2
<1> QED
  BY <1>1, <1>2

\* Subblocks cuts a block into its parts.
LEMMA SubblocksAre ==
    ASSUME NEW v \in Seq(Value), v # << >>, Len(v) <= DocsPerBlock
    PROVE  /\ DOMAIN Subblocks(v) = 1..Ceil(Len(v), SubblockSize)
           /\ Ceil(Len(v), SubblockSize) \in 1..SubblocksPerBlock
           /\ \A i \in 1..Ceil(Len(v), SubblockSize) : i - 1 \in PartsOf(v) /\ Subblocks(v)[i] = Part(v, i - 1)
           /\ \A sb \in PartsOf(v) : sb + 1 \in 1..Ceil(Len(v), SubblockSize)
<1> DEFINE n == Len(v)
           s == SubblockSize
           c == Ceil(n, s)
<1>1. n \in Nat /\ n # 0 /\ s \in Nat \ {0} /\ n <= DocsPerBlock
  BY GeometryAssumption
<1> HIDE DEF n, s
<1>2. c \in Nat /\ \A i \in Nat : i * s \in Nat /\ (i < c <=> i * s < n)
  BY <1>1, CeilIs
<1> HIDE DEF c
<1>3. c # 0
  <2>1. 0 * s = 0
    BY <1>1
  <2> QED
    BY <1>1, <1>2, <2>1
<1>4. c <= SubblocksPerBlock
  <2> SUFFICES ASSUME SubblocksPerBlock < c PROVE FALSE
    BY <1>2, BlockIs
  <2>1. SubblocksPerBlock * s < n
    BY <1>2, BlockIs
  <2> QED
    BY <1>1, <2>1, BlockIs DEF s
<1>5. ASSUME NEW i \in 1..c
      PROVE  i - 1 \in PartsOf(v) /\ Subblocks(v)[i] = Part(v, i - 1)
  <2> DEFINE sb == i - 1
             x == sb * s
             m == CountIn(n, sb)
  <2>1. sb \in Nat /\ sb < c
    BY <1>2
  <2> HIDE DEF sb
  <2>2. x < n /\ x \in Nat
    BY <1>2, <2>1
  <2>3. sb \in PartsOf(v)
    <3>1. sb <= x
      <4>1. \A p \in Nat : \A q \in Nat \ {0} : p <= p * q
        <5> SUFFICES ASSUME NEW p \in Nat, NEW q \in Nat \ {0} PROVE p <= p * q
          OBVIOUS
        <5>1. q - 1 \in Nat /\ q = (q - 1) + 1
          OBVIOUS
        <5>2. \A r \in Nat : p * (r + 1) = p * r + p /\ p * r >= 0
          OBVIOUS
        <5>3. p * q = p * (q - 1) + p /\ p * (q - 1) >= 0
          BY <5>1, <5>2
        <5> QED
          BY <5>1, <5>3
      <4> QED
        BY <1>1, <2>1, <4>1
    <3>2. sb \in 0..n
      BY <1>1, <2>1, <2>2, <3>1
    <3> QED
      BY <2>2, <3>2 DEF PartsOf, n, s
  <2>4. m \in 1..s /\ x + m <= n /\ GetSubblockSize(sb, n) = m
    <3>1. sb * SubblockSize < n
      BY <2>2 DEF s
    <3> QED
      BY <1>1, <2>1, <3>1, SizeIs DEF s
  <2>5. Subblocks(v)[i] = SubSeq(v, x + 1, x + m)
    <3>1. i \in 1..Ceil(Len(v), SubblockSize)
      BY DEF c, n, s
    <3>2. Subblocks(v)[i] = SubSeq(v, (i - 1) * SubblockSize + 1, (i - 1) * SubblockSize + GetSubblockSize(i - 1, Len(v)))
      BY <3>1, Zenon DEF Subblocks
    <3> QED
      BY <2>4, <3>2 DEF sb, s, n
  <2>6. SubSeq(v, x + 1, x + m) = [k \in 1..m |-> v[x + k]]
    <3> HIDE DEF x, m
    <3> DEFINE b == x + m
    <3>1. b \in Nat /\ b <= Len(v) /\ b - x = m /\ x <= b
      BY <1>1, <2>2, <2>4 DEF n
    <3>2. v \in Seq(Nat)
      BY WordsAreNumbers
    <3> HIDE DEF b
    <3>3. /\ SubSeq(v, x + 1, b) \in Seq(Nat) /\ Len(SubSeq(v, x + 1, b)) = b - x
          /\ \A k \in 1..(b - x) : SubSeq(v, x + 1, b)[k] = v[x + k]
      BY <2>2, <3>1, <3>2, SubSeqIs
    <3> DEFINE q == SubSeq(v, x + 1, b)
    <3> HIDE DEF q
    <3>4. q \in Seq(Nat) /\ Len(q) = m /\ \A k \in 1..m : q[k] = v[x + k]
      BY <3>1, <3>3 DEF q
    <3>5. q = [k \in 1..m |-> q[k]]
      BY <3>4
    <3>6. q = [k \in 1..m |-> v[x + k]]
      BY <3>4, <3>5
    <3> QED
      BY <3>6 DEF q, b
  <2>7. Part(v, sb) = [k \in 1..m |-> v[x + k]]
    BY DEF Part, m, x, n, s
  <2> QED
    BY <2>3, <2>5, <2>6, <2>7 DEF sb
<1>6. ASSUME NEW sb \in PartsOf(v)
      PROVE  sb + 1 \in 1..c
  <2>1. sb \in Nat /\ sb * s < n
    BY DEF PartsOf, s, n
  <2> QED
    BY <1>2, <2>1
<1>7. DOMAIN Subblocks(v) = 1..c
  BY DEF Subblocks, c, n, s
<1>8. c \in 1..SubblocksPerBlock
  BY <1>2, <1>3, <1>4
<1> QED
  BY <1>5, <1>6, <1>7, <1>8 DEF c, n, s

-----------------------------------------------------------------------------
(* What is read of what was written. *)

\* A sub-block of a body of chunks of different sizes is its chunk, unless the
\* sizes together are more than a word.
LEMMA WrittenReads ==
    ASSUME NEW packing, NEW chunks \in Seq(Seq(Nat)), Len(chunks) \in 1..SubblocksPerBlock,
           \A i \in 1..Len(chunks) : Len(chunks[i]) <= 2 * SubblockSize + 1
    PROVE  /\ Written(packing, chunks).packing = packing
           /\ Written(packing, chunks).sizes \in Seq(Nat)
           /\ Written(packing, chunks).body \in Seq(Nat)
           /\ Written(packing, chunks) = [packing |-> packing, sizes |-> Written(packing, chunks).sizes,
                                          table |-> << >>, body |-> Written(packing, chunks).body]
           /\ \A sb \in 0..(Len(chunks) - 1) :
                 ReadSized(Written(packing, chunks).body,
                           ComputeInverseDeltas(Written(packing, chunks).sizes, TRUE), sb) = chunks[sb + 1]
<1> DEFINE n == Len(chunks)
           w == Written(packing, chunks)
           lens == [i \in DOMAIN chunks |-> Len(chunks[i])]
           body == FlattenSeq(chunks)
           cum == Cumulative(chunks)
           sizes == ComputeDeltas(cum, TRUE)
           k == 2 * SubblockSize + 1
<1>1. n \in Nat /\ n \in 1..SubblocksPerBlock /\ chunks # << >> /\ DOMAIN chunks = 1..n
  OBVIOUS
<1>2. w = [packing |-> packing, sizes |-> sizes, table |-> << >>, body |-> body]
  BY DEF Written
<1>3. body \in Seq(Nat)
  BY FlattenType
<1>4. PICK e : /\ AreEnds(e, chunks)
               /\ \A i \in 1..n : SubSeq(body, e[i - 1] + 1, e[i]) = chunks[i]
  BY <1>1, ChunksRead
<1>5. /\ e \in [0..n -> Nat] /\ e[0] = 0
      /\ \A i \in 1..n : e[i] = e[i - 1] + Len(chunks[i])
  BY <1>4 DEF AreEnds
<1>6. lens \in Seq(Nat) /\ Len(lens) = n /\ \A i \in 1..n : lens[i] = Len(chunks[i]) /\ Len(chunks[i]) <= k
  BY <1>1
<1> HIDE DEF lens, w, body, k
<1>7. k \in Nat /\ SubblocksPerBlock * k < Word
  <2>1. \A p, s \in Nat : p * (2 * s + 1) = 2 * (p * s) + p /\ (s >= 1 => p <= p * s)
    <3> SUFFICES ASSUME NEW p \in Nat, NEW s \in Nat
                 PROVE  p * (2 * s + 1) = 2 * (p * s) + p /\ (s >= 1 => p <= p * s)
      OBVIOUS
    <3>1. p * (2 * s + 1) = 2 * (p * s) + p
      OBVIOUS
    <3>2. s >= 1 => p <= p * s
      <4> SUFFICES ASSUME s >= 1 PROVE p <= p * s
        OBVIOUS
      <4> DEFINE t == s - 1
      <4>1. t \in Nat /\ s = t + 1
        OBVIOUS
      <4> HIDE DEF t
      <4>2. p * (t + 1) = p * t + p /\ p * t \in Nat
        BY <4>1
      <4> QED
        BY <4>1, <4>2
    <3> QED
      BY <3>1, <3>2
  <2> DEFINE s == SubblockSize
             p == SubblocksPerBlock
             d == p * s
  <2>2. p \in Nat \ {0} /\ s \in Nat \ {0} /\ d = DocsPerBlock /\ d \in Nat
    BY BlockIs, GeometryAssumption
  <2>3. p * (2 * s + 1) = 2 * d + p /\ p <= d
    BY <2>1, <2>2
  <2>4. 3 * d < Word /\ Word \in Nat
    BY <2>2, PackingAssumption
  <2> HIDE DEF d
  <2>5. 2 * d + p < Word
    BY <2>2, <2>3, <2>4
  <2>6. p * (2 * s + 1) = 2 * d + p
    BY <2>3
  <2>7. SubblocksPerBlock * k = 2 * d + p
    BY <2>6, Zenon DEF k, p, s
  <2>8. k \in Nat
    BY <2>2 DEF k
  <2> QED
    BY <2>5, <2>7, <2>8, Zenon
<1>8. \A i \in 0..n : e[i] <= i * k
  <2> DEFINE T == {i \in 0..n : ~(e[i] <= i * k)}
  <2>1. SUFFICES ASSUME T # {} PROVE FALSE
    OBVIOUS
  <2>2. PICK i \in T : \A j \in T : i <= j
    <3>1. T \subseteq Nat
      OBVIOUS
    <3> HIDE DEF T
    <3> QED
      BY <2>1, <3>1, LeastNatural
  <2>3. i \in 0..n /\ ~(e[i] <= i * k)
    BY <2>2
  <2>4. i # 0
    <3>1. 0 * k = 0
      BY <1>7
    <3> QED
      BY <1>5, <2>3, <3>1
  <2> DEFINE j == i - 1
  <2>5. j \in 0..n /\ j \notin T /\ i \in 1..n /\ i = j + 1 /\ j \in Nat
    BY <2>2, <2>3, <2>4
  <2>6. e[j] <= j * k
    BY <2>5
  <2>7. e[i] = e[j] + lens[i] /\ lens[i] <= k /\ lens[i] \in Nat /\ e[j] \in Nat
    <3>1. e[i] = e[i - 1] + Len(chunks[i]) /\ lens[i] = Len(chunks[i]) /\ Len(chunks[i]) <= k
      BY <1>5, <1>6, <2>5
    <3>2. lens[i] \in Nat
      BY <1>6, <2>5
    <3>3. e[j] \in Nat
      BY <1>5, <2>5
    <3> QED
      BY <3>1, <3>2, <3>3
  <2>8. i * k = j * k + k /\ j * k \in Nat
    <3> HIDE DEF j
    <3>1. (j + 1) * k = j * k + k /\ j * k \in Nat
      BY <1>7, <2>5
    <3> QED
      BY <2>5, <3>1
  <2> DEFINE x == j * k
             y == i * k
  <2>9. x \in Nat /\ y = x + k /\ e[j] <= x
    BY <2>6, <2>8
  <2> HIDE DEF j, x, y
  <2>10. e[i] <= y
    BY <1>7, <2>7, <2>9
  <2> QED
    BY <2>3, <2>10 DEF y
<1>9. \A i \in 0..n : e[i] \in 0..(Word - 1)
  <2> SUFFICES ASSUME NEW i \in 0..n PROVE e[i] \in 0..(Word - 1)
    OBVIOUS
  <2>1. i * k \in Nat /\ i * k <= SubblocksPerBlock * k
    <3>1. i \in Nat /\ SubblocksPerBlock \in Nat /\ (i = SubblocksPerBlock \/ i < SubblocksPerBlock)
      BY <1>1, BlockIs
    <3>2. i < SubblocksPerBlock => i * k + k <= SubblocksPerBlock * k
      BY <1>7, <3>1, MultiplesApart
    <3> DEFINE x == i * k
               y == SubblocksPerBlock * k
    <3>3. x \in Nat /\ y \in Nat /\ (i = SubblocksPerBlock => x = y)
      BY <1>7, <3>1
    <3>4. i < SubblocksPerBlock => x + k <= y
      BY <3>2
    <3> HIDE DEF x, y
    <3>5. x <= y
      BY <1>7, <3>1, <3>3, <3>4
    <3> QED
      BY <3>3, <3>5 DEF x, y
  <2> DEFINE x == i * k
             y == SubblocksPerBlock * k
  <2>2. x \in Nat /\ x <= y /\ y < Word /\ y \in Nat
    BY <1>7, <2>1, BlockIs
  <2>3. e[i] \in Nat /\ e[i] <= x
    BY <1>5, <1>8
  <2> HIDE DEF x, y
  <2> QED
    BY <2>2, <2>3, WordIs
<1> DEFINE sums == [i \in 1..n |-> e[i]]
<1>10. sums \in Seq(Value) /\ Len(sums) = n /\ DOMAIN sums = 1..n /\ \A i \in 1..n : sums[i] = e[i]
  <2>1. \A i \in 1..n : e[i] \in Value
    BY <1>1, <1>9 DEF Value
  <2>2. sums \in [1..n -> Value] /\ \A i \in 1..n : sums[i] = e[i]
    BY <2>1
  <2> HIDE DEF sums, n
  <2>3. sums \in Seq(Value) /\ Len(sums) = n /\ DOMAIN sums = 1..n
    BY <1>1, <2>2
  <2> QED
    BY <2>2, <2>3
<1> HIDE DEF sums
<1>11. cum = sums
  <2>1. DOMAIN lens = 1..n
    BY <1>1, <1>6
  <2>2. \A i \in 1..n : sums[i] = IF i = 1 THEN lens[1] ELSE (sums[i - 1] + lens[i]) % Word
    <3> SUFFICES ASSUME NEW i \in 1..n
                 PROVE  sums[i] = IF i = 1 THEN lens[1] ELSE (sums[i - 1] + lens[i]) % Word
      OBVIOUS
    <3>1. e[i] = e[i - 1] + lens[i] /\ sums[i] = e[i]
      BY <1>5, <1>6, <1>10
    <3>2. CASE i = 1
      BY <1>5, <1>6, <3>1, <3>2
    <3>3. CASE i # 1
      <4>1. sums[i - 1] = e[i - 1] /\ e[i] \in 0..(Word - 1)
        BY <1>9, <1>10, <3>3
      <4>2. e[i] % Word = e[i]
        <5> DEFINE z == e[i]
        <5>1. z \in Int /\ z \in 0..(Word - 1)
          BY <4>1, WordIs
        <5> HIDE DEF z
        <5>2. z % Word = z
          BY <5>1, WordIs, Remainder
        <5> QED
          BY <5>2 DEF z
      <4> QED
        BY <3>1, <3>3, <4>1, <4>2
    <3> QED
      BY <3>2, <3>3
  <2>3. sums = [i \in DOMAIN lens |-> IF i = 1 THEN lens[1] ELSE (sums[i - 1] + lens[i]) % Word]
    <3>1. sums = [i \in 1..n |-> sums[i]]
      BY <1>10
    <3> QED
      BY <2>1, <2>2, <3>1
  <2>4. InverseDelta(lens) = sums
    BY <1>6, <2>3, InverseIs
  <2>5. cum = InverseDelta(lens)
    BY DEF Cumulative, ComputeInverseDeltas, lens
  <2> QED
    BY <2>4, <2>5
<1>12. sizes \in Seq(Nat) /\ ComputeInverseDeltas(sizes, TRUE) = sums
  <2>1. sums \in Seq(Value)
    BY <1>10
  <2> QED
    BY <1>11, <2>1, DeltasInverted
<1>13. ASSUME NEW sb \in 0..(n - 1)
       PROVE  ReadSized(body, sums, sb) = chunks[sb + 1]
  <2>1. sb + 1 \in 1..n /\ sb + 1 - 1 = sb /\ (sb # 0 => sb \in 1..n)
    BY <1>1
  <2>2. sums[sb + 1] = e[sb + 1] /\ (IF sb = 0 THEN 0 ELSE sums[sb]) = e[sb]
    BY <1>5, <1>10, <2>1
  <2>3. SubSeq(body, e[sb] + 1, e[sb + 1]) = chunks[sb + 1]
    BY <1>4, <2>1
  <2>4. ReadSized(body, sums, sb) = SubSeq(body, (IF sb = 0 THEN 0 ELSE sums[sb]) + 1, sums[sb + 1])
    BY DEF ReadSized
  <2> QED
    BY <2>2, <2>3, <2>4
<1> HIDE DEF sizes
<1>14. w.packing = packing /\ w.sizes = sizes /\ w.body = body /\ w.table = << >>
  BY <1>2
<1> QED
  BY <1>2, <1>3, <1>12, <1>13, <1>14 DEF w

\* A word before others: the first of them and the rest.
LEMMA PrefixIs ==
    ASSUME NEW h \in Nat, NEW d \in Seq(Nat)
    PROVE  /\ <<h>> \o d \in Seq(Nat) /\ Len(<<h>> \o d) = Len(d) + 1 /\ <<h>> \o d # << >>
           /\ Head(<<h>> \o d) = h /\ (<<h>> \o d)[1] = h /\ Tail(<<h>> \o d) = d
           /\ \A i \in 1..Len(d) : (<<h>> \o d)[i + 1] = d[i]
<1> DEFINE n == Len(d)
           g == <<h>>
           x == g \o d
<1>1. n \in Nat /\ g \in Seq(Nat) /\ Len(g) = 1 /\ g[1] = h
  OBVIOUS
<1> HIDE DEF g
<1>2. /\ x \in Seq(Nat) /\ Len(x) = 1 + n
      /\ \A i \in 1..(1 + n) : x[i] = IF i <= 1 THEN g[i] ELSE d[i - 1]
  <2>1. /\ x \in Seq(Nat) /\ Len(x) = Len(g) + Len(d)
        /\ \A i \in 1..(Len(g) + Len(d)) : x[i] = IF i <= Len(g) THEN g[i] ELSE d[i - Len(g)]
    BY <1>1, ConcatProperties
  <2> HIDE DEF x
  <2> QED
    BY <1>1, <2>1
<1> HIDE DEF x
<1>3. 1 \in 1..(1 + n) /\ \A i \in 1..n : i + 1 \in 1..(1 + n) /\ ~(i + 1 <= 1) /\ i + 1 - 1 = i
  BY <1>1
<1>4. x[1] = h /\ \A i \in 1..n : x[i + 1] = d[i]
  BY <1>1, <1>2, <1>3
<1>5. Len(x) = n + 1 /\ x # << >>
  BY <1>1, <1>2
<1>6. Head(x) = h
  BY <1>2, <1>4, <1>5
<1>7. Tail(x) = d
  <2> DEFINE t == Tail(x)
  <2>1. t \in Seq(Nat) /\ Len(t) = Len(x) - 1 /\ \A i \in 1..Len(t) : t[i] = x[i + 1]
    BY <1>2, <1>5, HeadTailProperties
  <2> HIDE DEF t
  <2>2. Len(t) = n
    BY <1>1, <1>5, <2>1
  <2>5. \A i \in 1..n : t[i] = d[i]
    BY <1>4, <2>1, <2>2
  <2>3. t = [i \in 1..n |-> t[i]] /\ d = [i \in 1..n |-> d[i]]
    BY <2>1, <2>2
  <2>4. t = d
    BY <2>3, <2>5, Zenon
  <2> QED
    BY <2>4 DEF t
<1> QED
  BY <1>2, <1>4, <1>5, <1>6, <1>7 DEF x, g, n

\* A part that is filled up has the size of a sub-block and begins as it did.
LEMMA PaddedIs ==
    ASSUME NEW q \in Seq(Nat), Len(q) <= SubblockSize
    PROVE  /\ Padded(q) \in Seq(Nat) /\ Len(Padded(q)) = SubblockSize
           /\ SubSeq(Padded(q), 1, Len(q)) = q
<1> DEFINE n == Len(q)
           z == [i \in 1..(SubblockSize - n) |-> 0]
           p == q \o z
<1>1. n \in Nat /\ SubblockSize - n \in Nat
  BY GeometryAssumption
<1>2. z \in Seq(Nat) /\ Len(z) = SubblockSize - n
  <2> DEFINE m == SubblockSize - n
  <2>1. m \in Nat
    BY <1>1
  <2> HIDE DEF m
  <2>2. [i \in 1..m |-> 0] \in Seq(Nat) /\ Len([i \in 1..m |-> 0]) = m
    BY <2>1
  <2> QED
    BY <2>2 DEF m
<1> HIDE DEF z
<1>3. p \in Seq(Nat) /\ Len(p) = n + Len(z) /\ \A i \in 1..n : p[i] = q[i]
  <2>1. /\ p \in Seq(Nat) /\ Len(p) = n + Len(z)
        /\ \A i \in 1..(n + Len(z)) : p[i] = IF i <= n THEN q[i] ELSE z[i - n]
    BY <1>2, ConcatProperties
  <2>2. \A i \in 1..n : i \in 1..(n + Len(z)) /\ i <= n
    BY <1>1, <1>2
  <2> HIDE DEF p
  <2> QED
    BY <2>1, <2>2
<1>4. Len(p) = SubblockSize
  BY <1>1, <1>2, <1>3, GeometryAssumption
<1> HIDE DEF p
<1>5. SubSeq(p, 1, n) = q
  <2> DEFINE r == SubSeq(p, 0 + 1, n)
  <2>1. r \in Seq(Nat) /\ Len(r) = n - 0 /\ \A i \in 1..(n - 0) : r[i] = p[0 + i]
    <3>1. 0 \in Nat /\ 0 <= n /\ n <= Len(p)
      BY <1>1, <1>4, GeometryAssumption
    <3>2. p \in Seq(Nat)
      BY <1>3
    <3> HIDE DEF n
    <3> QED
      BY <1>1, <3>1, <3>2, SubSeqIs
  <2> HIDE DEF r
  <2>2. Len(r) = n
    BY <1>1, <2>1
  <2>6. \A i \in 1..n : r[i] = q[i]
    <3> SUFFICES ASSUME NEW i \in 1..n PROVE r[i] = q[i]
      OBVIOUS
    <3>1. i \in 1..(n - 0) /\ 0 + i = i
      BY <1>1
    <3> QED
      BY <1>3, <2>1, <3>1
  <2>3. r = [i \in 1..n |-> r[i]] /\ q = [i \in 1..n |-> q[i]]
    BY <2>1, <2>2
  <2>4. r = q
    BY <2>3, <2>6, Zenon
  <2>5. 0 + 1 = 1
    OBVIOUS
  <2> QED
    BY <2>4, <2>5 DEF r
<1>6. Padded(q) = p
  BY DEF Padded, p, z, n
<1> QED
  BY <1>3, <1>4, <1>5, <1>6 DEF n

\* A sub-block of a body of chunks of one size is its chunk.
LEMMA FixedReads ==
    ASSUME NEW packing, NEW table \in Seq(Nat), NEW v \in Seq(Value), v # << >>, Len(v) <= DocsPerBlock
    PROVE  /\ WrittenFixed(packing, table, v) = [packing |-> packing, sizes |-> << >>, table |-> table,
                                                 body |-> WrittenFixed(packing, table, v).body]
           /\ WrittenFixed(packing, table, v).body \in Seq(Nat)
           /\ \A sb \in PartsOf(v) :
                 SubSeq(ReadFixed(WrittenFixed(packing, table, v).body, sb), 1, CountIn(Len(v), sb)) = Part(v, sb)
<1> DEFINE w == WrittenFixed(packing, table, v)
           c == Ceil(Len(v), SubblockSize)
           chunks == [i \in DOMAIN Subblocks(v) |-> Padded(Subblocks(v)[i])]
           body == FlattenSeq(chunks)
           s == SubblockSize
<1>1. /\ DOMAIN Subblocks(v) = 1..c /\ c \in 1..SubblocksPerBlock /\ SubblocksPerBlock \in Nat
      /\ \A i \in 1..c : i - 1 \in PartsOf(v) /\ Subblocks(v)[i] = Part(v, i - 1)
      /\ \A sb \in PartsOf(v) : sb + 1 \in 1..c
  BY SubblocksAre, BlockIs
<1>2. w = [packing |-> packing, sizes |-> << >>, table |-> table, body |-> body]
  BY DEF WrittenFixed
<1> HIDE DEF c
<1>3. ASSUME NEW i \in 1..c
      PROVE  /\ chunks[i] \in Seq(Nat) /\ Len(chunks[i]) = s
             /\ SubSeq(chunks[i], 1, CountIn(Len(v), i - 1)) = Part(v, i - 1)
  <2>1. chunks[i] = Padded(Part(v, i - 1))
    BY <1>1
  <2> DEFINE q == Part(v, i - 1)
  <2>2. /\ q \in Seq(Value) /\ Len(q) = CountIn(Len(v), i - 1)
        /\ CountIn(Len(v), i - 1) \in 1..SubblockSize
    BY <1>1, PartIs
  <2>3. q \in Seq(Nat) /\ Len(q) <= SubblockSize
    BY <2>2, WordsAreNumbers, GeometryAssumption
  <2> HIDE DEF q
  <2>4. Padded(q) \in Seq(Nat) /\ Len(Padded(q)) = SubblockSize /\ SubSeq(Padded(q), 1, Len(q)) = q
    BY <2>3, PaddedIs
  <2> QED
    BY <2>1, <2>2, <2>4 DEF q, s
<1>4. c \in Nat /\ c # 0
  BY <1>1
<1>5. chunks \in Seq(Seq(Nat)) /\ Len(chunks) = c /\ chunks # << >>
  <2>1. DOMAIN chunks = 1..c /\ chunks = [i \in 1..c |-> chunks[i]]
    BY <1>1
  <2> HIDE DEF chunks
  <2>2. chunks \in [1..c -> Seq(Nat)]
    BY <1>3, <2>1
  <2>3. chunks \in Seq(Seq(Nat)) /\ Len(chunks) = c
    BY <1>4, <2>2
  <2> QED
    BY <1>4, <2>3
<1> HIDE DEF chunks
<1>6. body \in Seq(Nat)
  BY <1>5, FlattenType
<1>7. PICK e : /\ AreEnds(e, chunks)
               /\ \A i \in 1..c : SubSeq(body, e[i - 1] + 1, e[i]) = chunks[i]
  BY <1>5, ChunksRead
<1>8. /\ e \in [0..c -> Nat] /\ e[0] = 0
      /\ \A i \in 1..c : e[i] = e[i - 1] + s
  BY <1>3, <1>5, <1>7 DEF AreEnds
<1>9. s \in Nat \ {0}
  BY GeometryAssumption
<1> HIDE DEF s, body
<1>10. \A i \in 0..c : e[i] = i * s
  <2> DEFINE T == {i \in 0..c : e[i] # i * s}
  <2>1. SUFFICES ASSUME T # {} PROVE FALSE
    OBVIOUS
  <2>2. PICK i \in T : \A j \in T : i <= j
    <3>1. T \subseteq Nat
      OBVIOUS
    <3> HIDE DEF T
    <3> QED
      BY <2>1, <3>1, LeastNatural
  <2>3. i \in 0..c /\ e[i] # i * s
    BY <2>2
  <2>4. i # 0
    <3>1. 0 * s = 0
      BY <1>9
    <3> QED
      BY <1>8, <2>3, <3>1
  <2> DEFINE j == i - 1
  <2>5. j \in 0..c /\ j \notin T /\ i \in 1..c /\ i = j + 1 /\ j \in Nat
    BY <1>4, <2>2, <2>3, <2>4
  <2>6. e[j] = j * s /\ e[i] = e[j] + s
    BY <1>8, <2>5
  <2> HIDE DEF j
  <2>7. (j + 1) * s = j * s + s
    BY <1>9, <2>5
  <2> QED
    BY <2>3, <2>5, <2>6, <2>7
<1>11. ASSUME NEW sb \in PartsOf(v)
       PROVE  SubSeq(ReadFixed(body, sb), 1, CountIn(Len(v), sb)) = Part(v, sb)
  <2>1. sb \in Nat /\ sb + 1 \in 1..c /\ sb + 1 - 1 = sb /\ sb \in 0..c /\ sb + 1 \in 0..c
    BY <1>1, <1>4 DEF PartsOf
  <2>2. SubSeq(body, e[sb] + 1, e[sb + 1]) = chunks[sb + 1]
    BY <1>7, <2>1
  <2>3. e[sb] = sb * s /\ e[sb + 1] = (sb + 1) * s
    BY <1>10, <2>1
  <2>4. ReadFixed(body, sb) = SubSeq(body, sb * s + 1, (sb + 1) * s)
    BY DEF ReadFixed, s
  <2>5. SubSeq(chunks[sb + 1], 1, CountIn(Len(v), sb + 1 - 1)) = Part(v, sb + 1 - 1)
    BY <1>3, <2>1
  <2> QED
    BY <2>1, <2>2, <2>3, <2>4, <2>5
<1>12. w.body = body
  BY <1>2
<1> QED
  BY <1>2, <1>6, <1>11, <1>12 DEF w

-----------------------------------------------------------------------------
(* The chunks of the packings. *)

\* A set of numbers that is not empty has a least one.
LEMMA LeastIs ==
    ASSUME NEW q \in Seq(Value), q # << >>
    PROVE  Least(q) \in Value /\ \A i \in 1..Len(q) : Least(q) <= q[i]
<1>1. Len(q) \in Nat /\ Len(q) # 0 /\ DOMAIN q = 1..Len(q) /\ \A i \in 1..Len(q) : q[i] \in Value
  OBVIOUS
<1>2. \A x : x \in ToSet(q) <=> \E i \in 1..Len(q) : q[i] = x
  BY <1>1 DEF ToSet
<1>3. ToSet(q) \subseteq Value /\ \A i \in 1..Len(q) : q[i] \in ToSet(q)
  BY <1>1, <1>2
<1>4. ToSet(q) \subseteq Nat /\ ToSet(q) # {}
  <2>1. 1 \in 1..Len(q)
    BY <1>1
  <2>2. Value \subseteq Nat
    BY WordsAreNumbers
  <2> QED
    BY <1>3, <2>1, <2>2
<1>5. \E m \in ToSet(q) : \A k \in ToSet(q) : m <= k
  BY <1>4, LeastNatural
<1>6. Least(q) \in ToSet(q) /\ \A k \in ToSet(q) : Least(q) <= k
  BY <1>5 DEF Least
<1> QED
  BY <1>3, <1>6

\* The values of a chunk, less the least of them, and back.
LEMMA PforReads ==
    ASSUME NEW q \in Seq(Value), q # << >>
    PROVE  /\ WriteValues_PFOR(q) \in Seq(Nat) /\ Len(WriteValues_PFOR(q)) = Len(q) + 1
           /\ DecodeValues_PFOR(WriteValues_PFOR(q)) = q
<1> DEFINE n == Len(q)
           m == Least(q)
           d == [i \in DOMAIN q |-> (q[i] - m) % Word]
           x == WriteValues_PFOR(q)
<1>1. n \in Nat /\ DOMAIN q = 1..n /\ q = [i \in 1..n |-> q[i]] /\ \A i \in 1..n : q[i] \in 0..(Word - 1)
  <2>1. \A i \in 1..n : q[i] \in Value
    OBVIOUS
  <2> QED
    BY <2>1 DEF Value
<1>2. m \in 0..(Word - 1) /\ \A i \in 1..n : m <= q[i]
  BY LeastIs DEF Value
<1> HIDE DEF m, n
<1>3. \A i \in 1..n : d[i] \in Nat /\ (d[i] + m) % Word = q[i]
  <2> SUFFICES ASSUME NEW i \in 1..n PROVE d[i] \in Nat /\ (d[i] + m) % Word = q[i]
    OBVIOUS
  <2> DEFINE y == (q[i] - m) % Word
  <2>1. q[i] \in 0..(Word - 1) /\ d[i] = y
    BY <1>1
  <2>2. y \in Nat /\ (m + y) % Word = q[i]
    BY <1>2, <2>1, StepBack
  <2> HIDE DEF y
  <2>3. m + y = y + m
    BY <1>2, <2>2, WordIs
  <2> QED
    BY <2>1, <2>2, <2>3
<1>4. d \in Seq(Nat) /\ Len(d) = n /\ DOMAIN d = 1..n
  <2>1. DOMAIN d = 1..n /\ d = [i \in 1..n |-> d[i]]
    BY <1>1
  <2> HIDE DEF d
  <2>2. d \in [1..n -> Nat]
    BY <1>3, <2>1
  <2> QED
    BY <1>1, <2>2
<1>5. x = <<m>> \o d
  BY DEF WriteValues_PFOR, m
<1> HIDE DEF d, x
<1>6. m \in Nat
  BY <1>2, WordIs
<1>7. x \in Seq(Nat) /\ Len(x) = n + 1 /\ Head(x) = m /\ Tail(x) = d
  BY <1>4, <1>5, <1>6, PrefixIs
<1>9. DecodeValues_PFOR(x) = [i \in 1..n |-> (d[i] + m) % Word]
  BY <1>4, <1>7 DEF DecodeValues_PFOR, AddMinValue
<1>10. [i \in 1..n |-> (d[i] + m) % Word] = q
  BY <1>1, <1>3
<1> QED
  BY <1>7, <1>9, <1>10 DEF x, n

\* The differences of a chunk, and the values back.
LEMMA DeltaReads ==
    ASSUME NEW q \in Seq(Value), NEW asc \in BOOLEAN
    PROVE  /\ <<IF asc THEN 0 ELSE 1>> \o ComputeDeltas(q, asc) \in Seq(Nat)
           /\ Len(<<IF asc THEN 0 ELSE 1>> \o ComputeDeltas(q, asc)) = Len(q) + 1
           /\ DecodeValues_Delta_PFOR(<<IF asc THEN 0 ELSE 1>> \o ComputeDeltas(q, asc)) = q
<1> DEFINE h == IF asc THEN 0 ELSE 1
           d == ComputeDeltas(q, asc)
           x == <<h>> \o d
<1>1. h \in Nat /\ ((h = 0) = asc)
  OBVIOUS
<1>2. d \in Seq(Nat) /\ Len(d) = Len(q) /\ ComputeInverseDeltas(d, asc) = q
  BY DeltasInverted
<1> HIDE DEF h, d
<1>3. x \in Seq(Nat) /\ Len(x) = Len(d) + 1 /\ Head(x) = h /\ Tail(x) = d
  BY <1>1, <1>2, PrefixIs
<1>4. DecodeValues_Delta_PFOR(x) = ComputeInverseDeltas(Tail(x), Head(x) = 0)
  BY DEF DecodeValues_Delta_PFOR
<1> HIDE DEF x
<1>5. DecodeValues_Delta_PFOR(x) = q
  BY <1>1, <1>2, <1>3, <1>4
<1> QED
  BY <1>2, <1>3, <1>5 DEF x, h, d

\* Two sequences one behind the other, and each of them back.
LEMMA PairReads ==
    ASSUME NEW x \in Seq(Nat), NEW y \in Seq(Nat)
    PROVE  /\ x \o y \in Seq(Nat) /\ Len(x \o y) = Len(x) + Len(y)
           /\ \A i \in 1..Len(x) : (x \o y)[i] = x[i]
           /\ SubSeq(x \o y, Len(x) + 1, Len(x) + Len(y)) = y
<1> DEFINE n == Len(x)
           m == Len(y)
           w == x \o y
<1>1. n \in Nat /\ m \in Nat
  OBVIOUS
<1>2. /\ w \in Seq(Nat) /\ Len(w) = n + m
      /\ \A i \in 1..(n + m) : w[i] = IF i <= n THEN x[i] ELSE y[i - n]
  BY ConcatProperties
<1> HIDE DEF w
<1>3. \A i \in 1..n : w[i] = x[i]
  <2>1. \A i \in 1..n : i \in 1..(n + m) /\ i <= n
    BY <1>1
  <2> QED
    BY <1>2, <2>1
<1> DEFINE r == SubSeq(w, n + 1, n + m)
<1>4. r \in Seq(Nat) /\ Len(r) = m /\ \A i \in 1..m : r[i] = w[n + i]
  <2> DEFINE b == n + m
  <2>1. b \in Nat /\ n <= b /\ b <= Len(w) /\ b - n = m
    BY <1>1, <1>2
  <2> HIDE DEF b, n, m
  <2>2. SubSeq(w, n + 1, b) \in Seq(Nat) /\ Len(SubSeq(w, n + 1, b)) = b - n
        /\ \A i \in 1..(b - n) : SubSeq(w, n + 1, b)[i] = w[n + i]
    BY <1>1, <1>2, <2>1, SubSeqIs
  <2> QED
    BY <2>1, <2>2 DEF b
<1> HIDE DEF r
<1>5. \A i \in 1..m : r[i] = y[i]
  <2> SUFFICES ASSUME NEW i \in 1..m PROVE r[i] = y[i]
    OBVIOUS
  <2> DEFINE k == n + i
  <2>1. k \in 1..(n + m) /\ ~(k <= n) /\ k - n = i
    BY <1>1
  <2> HIDE DEF k
  <2>2. w[k] = y[k - n]
    BY <1>2, <2>1
  <2> QED
    BY <1>4, <2>1, <2>2 DEF k
<1>6. r = y
  <2>1. r = [i \in 1..m |-> r[i]] /\ y = [i \in 1..m |-> y[i]]
    BY <1>4
  <2> QED
    BY <1>5, <2>1, Zenon
<1> QED
  BY <1>2, <1>3, <1>6 DEF r, w, n, m

\* The hashes that are not zero, in turn: each is where the map counts to.
LEMMA NonEmptyIs ==
    ASSUME NEW q \in Seq(Value)
    PROVE  /\ NonEmpty(q) \in Seq(Nat) /\ Len(NonEmpty(q)) \in 0..Len(q)
           /\ \A i \in 1..Len(q) : q[i] # 0 =>
                 /\ Cardinality({j \in 1..i : q[j] # 0}) \in 1..Len(NonEmpty(q))
                 /\ NonEmpty(q)[Cardinality({j \in 1..i : q[j] # 0})] = q[i]
<1> DEFINE n == Len(q)
           T == {i \in DOMAIN q : q[i] # 0}
           places == Ranked(T)
           k == Cardinality(T)
           ne == [r \in 1..k |-> q[places[r]]]
<1>1. n \in Nat /\ DOMAIN q = 1..n /\ q \in Seq(Nat) /\ \A i \in 1..n : q[i] \in Nat
  <2>1. q \in Seq(Nat)
    BY WordsAreNumbers
  <2> QED
    BY <2>1
<1>2. T \subseteq 1..n /\ \A i : i \in T <=> i \in 1..n /\ q[i] # 0
  BY <1>1
<1> HIDE DEF T
<1>3. IsFiniteSet(T) /\ k \in Nat /\ k <= n
  <2>1. IsFiniteSet(1..n) /\ Cardinality(1..n) = n
    <3>1. 1 \in Int /\ n \in Int /\ n >= 0
      BY <1>1
    <3> HIDE DEF n
    <3>2. IsFiniteSet(1..n) /\ Cardinality(1..n) = IF 1 > n THEN 0 ELSE n - 1 + 1
      BY <3>1, FS_Interval
    <3> QED
      BY <3>1, <3>2
  <2> QED
    BY <1>2, <2>1, FS_Subset, FS_CardinalityType
<1>4. T \subseteq Nat \ {0} /\ T \subseteq Nat
  BY <1>1, <1>2
<1>5. /\ DOMAIN places = 1..k /\ \A x : x \in T <=> \E i \in 1..k : places[i] = x
      /\ \A r \in 1..k : places[r] \in T
  BY <1>3, <1>4, RankedIs
<1>6. NonEmpty(q) = ne
  BY <1>5 DEF NonEmpty, T
<1>7. ASSUME NEW r \in 1..k PROVE Cardinality({j \in 1..places[r] : j \in T}) = r
  BY <1>3, <1>4, RankCounts
<1> HIDE DEF places, k
<1>8. ne \in Seq(Nat) /\ Len(ne) = k
  <2>1. ne \in [1..k -> Nat]
    BY <1>1, <1>2, <1>5
  <2> HIDE DEF ne
  <2> QED
    BY <1>3, <2>1
<1>9. ASSUME NEW i \in 1..n, q[i] # 0
      PROVE  LET c == Cardinality({j \in 1..i : q[j] # 0}) IN c \in 1..k /\ ne[c] = q[i]
  <2>1. i \in T
    BY <1>2, <1>9
  <2>2. PICK r \in 1..k : places[r] = i
    BY <1>5, <2>1
  <2>3. \A j \in 1..i : j \in T <=> q[j] # 0
    BY <1>1, <1>2
  <2>4. {j \in 1..i : q[j] # 0} = {j \in 1..places[r] : j \in T}
    BY <2>2, <2>3
  <2>5. Cardinality({j \in 1..i : q[j] # 0}) = r
    BY <1>7, <2>4
  <2>6. ne[r] = q[i]
    BY <2>2
  <2> QED
    BY <2>2, <2>5, <2>6
<1> HIDE DEF ne
<1>10. k \in 0..n
  BY <1>1, <1>3
<1> QED
  BY <1>6, <1>8, <1>9, <1>10 DEF n

\* The hashes of a chunk, whether or not a map says which of them it holds.
LEMMA HashReads ==
    ASSUME NEW q \in Seq(Value), Len(q) \in 1..SubblockSize
    PROVE  /\ WriteSubblock_Hash(q) \in Seq(Nat) /\ Len(WriteSubblock_Hash(q)) <= 2 * SubblockSize + 1
           /\ DecodeValues_Hash(WriteSubblock_Hash(q), Len(q)) = q
<1> DEFINE n == Len(q)
           ne == NonEmpty(q)
           k == Len(ne)
           x == WriteSubblock_Hash(q)
<1>1. n \in Nat \ {0} /\ n <= SubblockSize /\ DOMAIN q = 1..n /\ q \in Seq(Nat)
  <2>1. q \in Seq(Nat)
    BY WordsAreNumbers
  <2> QED
    BY <2>1
<1>2. SubblockSize \in Nat \ {0}
  BY GeometryAssumption
<1>3. ne \in Seq(Nat) /\ k \in 0..n
  BY NonEmptyIs
<1>4. CASE ~NeedNullMap(q)
  <2>1. x = <<n>> \o q
    BY <1>4 DEF WriteSubblock_Hash
  <2>2. x \in Seq(Nat) /\ Len(x) = n + 1 /\ x[1] = n /\ Tail(x) = q
    BY <1>1, <2>1, PrefixIs
  <2> HIDE DEF x
  <2>3. DecodeValues_Hash(x, n) = q
    BY <2>2 DEF DecodeValues_Hash
  <2>4. Len(x) <= 2 * SubblockSize + 1
    BY <1>1, <1>2, <2>2
  <2> QED
    BY <2>2, <2>3, <2>4 DEF x, n
<1>5. CASE NeedNullMap(q)
  <2> DEFINE map == [i \in DOMAIN q |-> IF q[i] = 0 THEN 0 ELSE 1]
             y == <<k>> \o map
  <2>1. x = y \o ne
    BY <1>5 DEF WriteSubblock_Hash
  <2>2. map \in Seq(Nat) /\ Len(map) = n /\ DOMAIN map = 1..n
    <3>1. map \in [1..n -> Nat]
      BY <1>1
    <3> HIDE DEF map
    <3> QED
      BY <1>1, <3>1
  <2>3. (n - k) * 8 > 4 * (n \div 8)
    BY <1>5 DEF NeedNullMap
  <2>4. k < n
    <3>1. n \div 8 \in Nat
      BY <1>1
    <3> QED
      BY <1>1, <1>3, <2>3, <3>1
  <2>5. \A i \in 1..n : map[i] = (IF q[i] = 0 THEN 0 ELSE 1)
    BY <1>1
  <2> HIDE DEF map, x, ne
  <2>6. y \in Seq(Nat) /\ Len(y) = n + 1 /\ y[1] = k /\ \A i \in 1..n : y[i + 1] = map[i]
    <3>1. k \in Nat
      BY <1>1, <1>3
    <3> HIDE DEF k
    <3> QED
      BY <2>2, <3>1, PrefixIs
  <2> HIDE DEF y
  <2>7. /\ x \in Seq(Nat) /\ Len(x) = n + 1 + k /\ \A i \in 1..(n + 1) : x[i] = y[i]
        /\ SubSeq(x, n + 2, Len(x)) = ne
    <3>1. /\ x \in Seq(Nat) /\ Len(x) = Len(y) + Len(ne) /\ \A i \in 1..Len(y) : x[i] = y[i]
          /\ SubSeq(x, Len(y) + 1, Len(y) + Len(ne)) = ne
      BY <1>3, <2>1, <2>6, PairReads
    <3>2. Len(y) + 1 = n + 2
      BY <1>1, <2>6
    <3> QED
      BY <2>6, <3>1, <3>2
  <2>8. x[1] = k /\ \A i \in 1..n : x[i + 1] = map[i]
    <3>1. 1 \in 1..(n + 1) /\ \A i \in 1..n : i + 1 \in 1..(n + 1)
      BY <1>1
    <3> QED
      BY <2>6, <2>7, <3>1
  <2>9. SubSeq(x, 2, n + 1) = map
    <3> DEFINE r == SubSeq(x, 1 + 1, n + 1)
               b == n + 1
    <3>1. b \in Nat /\ 1 \in Nat /\ 1 <= b /\ b <= Len(x) /\ b - 1 = n
      BY <1>1, <1>3, <2>7
    <3> HIDE DEF b
    <3>2. SubSeq(x, 1 + 1, b) \in Seq(Nat) /\ Len(SubSeq(x, 1 + 1, b)) = b - 1
          /\ \A i \in 1..(b - 1) : SubSeq(x, 1 + 1, b)[i] = x[1 + i]
      BY <2>7, <3>1, SubSeqIs
    <3>3. r \in Seq(Nat) /\ Len(r) = n /\ \A i \in 1..n : r[i] = x[1 + i]
      BY <3>1, <3>2 DEF b
    <3> HIDE DEF r
    <3>4. \A i \in 1..n : 1 + i = i + 1
      BY <1>1
    <3>5. \A i \in 1..n : r[i] = map[i]
      BY <2>8, <3>3, <3>4
    <3>6. r = [i \in 1..n |-> r[i]] /\ map = [i \in 1..n |-> map[i]]
      BY <2>2, <3>3
    <3>7. r = map
      BY <3>5, <3>6, Zenon
    <3>8. 1 + 1 = 2
      OBVIOUS
    <3> QED
      BY <3>7, <3>8 DEF r
  <2>10. DecodeValues_Hash(x, n) = ReadHashesWithNullMap(map, ne)
    <3>1. x[1] # n
      BY <1>1, <1>3, <2>4, <2>8
    <3> QED
      BY <2>7, <2>9, <3>1 DEF DecodeValues_Hash
  <2>11. ASSUME NEW i \in 1..n
         PROVE  (IF map[i] = 0 THEN 0 ELSE ne[Cardinality({j \in 1..i : map[j] = 1})]) = q[i]
    <3>1. CASE q[i] = 0
      BY <2>5, <3>1
    <3>2. CASE q[i] # 0
      <4>1. map[i] # 0
        BY <2>5, <3>2
      <4>2. \A j \in 1..i : map[j] = 1 <=> q[j] # 0
        <5>1. \A j \in 1..i : j \in 1..n
          BY <1>1
        <5> QED
          BY <2>5, <5>1
      <4>3. {j \in 1..i : map[j] = 1} = {j \in 1..i : q[j] # 0}
        BY <4>2
      <4>4. ne[Cardinality({j \in 1..i : q[j] # 0})] = q[i]
        BY <3>2, NonEmptyIs DEF ne
      <4> QED
        BY <4>1, <4>3, <4>4
    <3> QED
      BY <3>1, <3>2
  <2>12. ReadHashesWithNullMap(map, ne) = [i \in 1..n |-> q[i]]
    BY <2>2, <2>11 DEF ReadHashesWithNullMap
  <2>13. q = [i \in 1..n |-> q[i]]
    BY <1>1
  <2>14. Len(x) <= 2 * SubblockSize + 1
    BY <1>1, <1>2, <1>3, <2>7
  <2> QED
    BY <2>7, <2>10, <2>12, <2>13, <2>14 DEF x, n
<1> QED
  BY <1>4, <1>5

\* The values of a sequence are finitely many.
LEMMA FewValues ==
    ASSUME NEW T, NEW v \in Seq(T)
    PROVE  /\ IsFiniteSet(ToSet(v)) /\ Cardinality(ToSet(v)) \in Nat /\ Cardinality(ToSet(v)) <= Len(v)
           /\ \A x : x \in ToSet(v) <=> \E i \in 1..Len(v) : v[i] = x
<1> DEFINE n == Len(v)
           U == ToSet(v)
<1>1. n \in Nat /\ DOMAIN v = 1..n /\ v = [i \in 1..n |-> v[i]]
  OBVIOUS
<1>2. \A x : x \in U <=> \E i \in 1..n : v[i] = x
  BY <1>1 DEF ToSet
<1> HIDE DEF U, n
<1>3. v \in Surjection(1..n, U)
  <2>1. v \in [1..n -> U]
    BY <1>1, <1>2
  <2> QED
    BY <1>2, <2>1 DEF Surjection
<1>4. IsFiniteSet(1..n) /\ Cardinality(1..n) = n
  <2>1. 1 \in Int /\ n \in Int /\ n >= 0
    BY <1>1
  <2>2. IsFiniteSet(1..n) /\ Cardinality(1..n) = IF 1 > n THEN 0 ELSE n - 1 + 1
    BY <2>1, FS_Interval
  <2> QED
    BY <2>1, <2>2
<1>5. IsFiniteSet(U) /\ Cardinality(U) <= n
  BY <1>3, <1>4, FS_Surjection
<1>6. Cardinality(U) \in Nat
  BY <1>5, FS_CardinalityType
<1> QED
  BY <1>2, <1>5, <1>6 DEF U, n

-----------------------------------------------------------------------------
(* The packings. *)

\* What the reader of a stored block makes of its header and of a sub-block.
Sized == {"DELTA", "GENERIC", "HASH"}
\* What a reader makes of the header of a block and of a sub-block.
Sizes(w) == ComputeInverseDeltas(w.sizes, TRUE)
Table(w) == ComputeInverseDeltas(w.table, TRUE)
FixedPart(w, n, sb) == SubSeq(ReadFixed(w.body, sb), 1, CountIn(n, sb))
SizedPart(w, n, sb) == Decode(w.packing, ReadSized(w.body, Sizes(w), sb), CountIn(n, sb))

\* Numbers of entries of a table stand for values.
Names(ids, table, q) ==
    /\ Len(ids) = Len(q)
    /\ \A i \in 1..Len(q) : ids[i] \in 0..(Len(table) - 1) /\ table[ids[i] + 1] = q[i]

\* A block in the file.
Block == [packing : {"CONST", "TABLE", "BITMAP", "DELTA", "GENERIC", "HASH"},
          sizes : Seq(Nat), table : Seq(Nat), body : Seq(Nat)]

\* A block is written as a record of four parts.
LEMMA BlockType ==
    ASSUME NEW packing \in {"CONST", "TABLE", "BITMAP", "DELTA", "GENERIC", "HASH"},
           NEW sizes \in Seq(Nat), NEW table \in Seq(Nat), NEW body \in Seq(Nat)
    PROVE  [packing |-> packing, sizes |-> sizes, table |-> table, body |-> body] \in Block
BY DEF Block

\* What is read of a block is what was written of it.
WellWritten(w, v) ==
    /\ w \in Block
    /\ w.packing = "CONST" => \A i \in 1..Len(v) : v[i] = w.body[1]
    /\ w.packing = "TABLE" =>
          /\ Table(w) \in Seq(Value) /\ Different(Table(w))
          /\ \A sb \in PartsOf(v) : Names(FixedPart(w, Len(v), sb), Table(w), Part(v, sb))
    /\ w.packing = "BITMAP" => \A sb \in PartsOf(v) : FixedPart(w, Len(v), sb) = Part(v, sb)
    /\ w.packing \in Sized => \A sb \in PartsOf(v) : SizedPart(w, Len(v), sb) = Part(v, sb)

\* A block of values that are all the same.
LEMMA ConstWritten ==
    ASSUME NEW v \in Seq(Value), NEW x \in Value, \A i \in 1..Len(v) : v[i] = x
    PROVE  WellWritten([packing |-> "CONST", sizes |-> << >>, table |-> << >>, body |-> <<x>>], v)
<1> DEFINE w == [packing |-> "CONST", sizes |-> << >>, table |-> << >>, body |-> <<x>>]
<1>1. x \in Nat /\ << >> \in Seq(Nat)
  BY WordsAreNumbers
<1>2. <<x>> \in Seq(Nat) /\ <<x>>[1] = x
  BY <1>1
<1>3. w \in Block /\ w.packing = "CONST" /\ w.body[1] = x
  BY <1>1, <1>2 DEF Block
<1> HIDE DEF w
<1>4. WellWritten(w, v)
  BY <1>3 DEF WellWritten, Sized
<1> QED
  BY <1>4 DEF w

\* A block of bits.
LEMMA BitmapWritten ==
    ASSUME NEW v \in Seq(Value), v # << >>, Len(v) <= DocsPerBlock
    PROVE  WellWritten(WritePacked_Bitmap(v), v)
<1> DEFINE w == WritePacked_Bitmap(v)
<1>1. << >> \in Seq(Nat) /\ w = WrittenFixed("BITMAP", << >>, v)
  BY DEF WritePacked_Bitmap
<1> HIDE DEF w
<1>2. /\ w = [packing |-> "BITMAP", sizes |-> << >>, table |-> << >>, body |-> w.body] /\ w.body \in Seq(Nat)
      /\ \A sb \in PartsOf(v) : SubSeq(ReadFixed(w.body, sb), 1, CountIn(Len(v), sb)) = Part(v, sb)
  BY <1>1, FixedReads
<1>3. w \in Block /\ w.packing = "BITMAP"
  <2>1. [packing |-> "BITMAP", sizes |-> << >>, table |-> << >>, body |-> w.body] \in Block
    BY <1>1, <1>2, BlockType
  <2> DEFINE r == [packing |-> "BITMAP", sizes |-> << >>, table |-> << >>, body |-> w.body]
  <2>2. r.packing = "BITMAP"
    OBVIOUS
  <2>3. w = r
    BY <1>2
  <2>4. r \in Block
    BY <2>1
  <2> HIDE DEF r
  <2> QED
    BY <2>2, <2>3, <2>4
<1>4. \A sb \in PartsOf(v) : FixedPart(w, Len(v), sb) = Part(v, sb)
  BY <1>2 DEF FixedPart
<1>5. WellWritten(w, v)
  BY <1>3, <1>4 DEF WellWritten, Sized
<1> QED
  BY <1>5 DEF w

\* A block of sub-blocks of different sizes is read right if each chunk is.
LEMMA SizedWritten ==
    ASSUME NEW v \in Seq(Value), v # << >>, Len(v) <= DocsPerBlock, NEW packing \in Sized, NEW chunks,
           DOMAIN chunks = DOMAIN Subblocks(v), chunks = [i \in DOMAIN chunks |-> chunks[i]],
           \A i \in DOMAIN chunks : /\ chunks[i] \in Seq(Nat) /\ Len(chunks[i]) <= 2 * SubblockSize + 1
                                    /\ Decode(packing, chunks[i], Len(Subblocks(v)[i])) = Subblocks(v)[i]
    PROVE  WellWritten(Written(packing, chunks), v)
<1> DEFINE c == Ceil(Len(v), SubblockSize)
           w == Written(packing, chunks)
<1>1. /\ DOMAIN Subblocks(v) = 1..c /\ c \in 1..SubblocksPerBlock
      /\ \A i \in 1..c : i - 1 \in PartsOf(v) /\ Subblocks(v)[i] = Part(v, i - 1)
      /\ \A sb \in PartsOf(v) : sb + 1 \in 1..c
  BY SubblocksAre
<1>2. SubblocksPerBlock \in Nat
  BY BlockIs
<1> HIDE DEF c
<1>3. c \in Nat
  BY <1>1, <1>2
<1>4. chunks \in Seq(Seq(Nat)) /\ Len(chunks) = c
  <2>1. chunks \in [1..c -> Seq(Nat)]
    BY <1>1
  <2> QED
    BY <1>3, <2>1
<1>5. /\ w.packing = packing /\ w.sizes \in Seq(Nat) /\ w.body \in Seq(Nat)
      /\ w = [packing |-> packing, sizes |-> w.sizes, table |-> << >>, body |-> w.body]
      /\ \A sb \in 0..(Len(chunks) - 1) :
            ReadSized(w.body, ComputeInverseDeltas(w.sizes, TRUE), sb) = chunks[sb + 1]
  <2>1. Len(chunks) \in 1..SubblocksPerBlock /\ \A i \in 1..Len(chunks) : Len(chunks[i]) <= 2 * SubblockSize + 1
    BY <1>1, <1>4
  <2> QED
    BY <1>4, <2>1, WrittenReads
<1> HIDE DEF w
<1>6. w \in Block
  <2>1. << >> \in Seq(Nat)
    OBVIOUS
  <2> QED
    <3>1. [packing |-> packing, sizes |-> w.sizes, table |-> << >>, body |-> w.body] \in Block
      BY <1>5, <2>1, BlockType DEF Sized
    <3> QED
      BY <1>5, <3>1, Zenon
<1>7. ASSUME NEW sb \in PartsOf(v)
      PROVE  SizedPart(w, Len(v), sb) = Part(v, sb)
  <2>1. sb \in Nat /\ Len(Part(v, sb)) = CountIn(Len(v), sb)
    BY PartIs
  <2>2. sb + 1 \in 1..c /\ sb + 1 - 1 = sb /\ sb \in 0..(c - 1)
    BY <1>1, <1>3, <2>1
  <2>3. ReadSized(w.body, ComputeInverseDeltas(w.sizes, TRUE), sb) = chunks[sb + 1]
    BY <1>4, <1>5, <2>2
  <2>4. Subblocks(v)[sb + 1] = Part(v, sb)
    BY <1>1, <2>2
  <2>5. Decode(packing, chunks[sb + 1], CountIn(Len(v), sb)) = Part(v, sb)
    BY <1>1, <2>1, <2>2, <2>4
  <2> QED
    BY <1>5, <2>3, <2>5 DEF SizedPart, Sizes
<1>8. w.packing \notin {"CONST", "TABLE", "BITMAP"}
  BY <1>5 DEF Sized
<1>9. WellWritten(w, v)
  BY <1>6, <1>7, <1>8 DEF WellWritten
<1> QED
  BY <1>9 DEF w

\* The sub-blocks of a block, one by one.
LEMMA SubblockIs ==
    ASSUME NEW v \in Seq(Value), v # << >>, Len(v) <= DocsPerBlock, NEW i \in DOMAIN Subblocks(v)
    PROVE  /\ Subblocks(v)[i] \in Seq(Value) /\ Len(Subblocks(v)[i]) \in 1..SubblockSize
           /\ Subblocks(v)[i] # << >>
<1> DEFINE c == Ceil(Len(v), SubblockSize)
<1>1. DOMAIN Subblocks(v) = 1..c /\ \A k \in 1..c : k - 1 \in PartsOf(v) /\ Subblocks(v)[k] = Part(v, k - 1)
  BY SubblocksAre
<1> HIDE DEF c
<1>2. i - 1 \in PartsOf(v) /\ Subblocks(v)[i] = Part(v, i - 1)
  BY <1>1
<1>3. Part(v, i - 1) \in Seq(Value) /\ Len(Part(v, i - 1)) \in 1..SubblockSize
  BY <1>2, PartIs
<1>4. SubblockSize \in Nat
  BY GeometryAssumption
<1> QED
  BY <1>2, <1>3, <1>4

\* A block of differences, upwards or downwards.
LEMMA DeltaWritten ==
    ASSUME NEW v \in Seq(Value), v # << >>, Len(v) <= DocsPerBlock, NEW asc \in BOOLEAN
    PROVE  WellWritten(WritePacked_Delta(v, asc), v)
<1> DEFINE chunk(s) == <<IF asc THEN 0 ELSE 1>> \o ComputeDeltas(s, asc)
           chunks == [i \in DOMAIN Subblocks(v) |-> chunk(Subblocks(v)[i])]
<1>1. ASSUME NEW i \in DOMAIN chunks
      PROVE  /\ chunks[i] \in Seq(Nat) /\ Len(chunks[i]) <= 2 * SubblockSize + 1
             /\ Decode("DELTA", chunks[i], Len(Subblocks(v)[i])) = Subblocks(v)[i]
  <2> DEFINE q == Subblocks(v)[i]
  <2>1. i \in DOMAIN Subblocks(v)
    OBVIOUS
  <2>2. q \in Seq(Value) /\ Len(q) \in 1..SubblockSize
    BY <2>1, SubblockIs
  <2>3. chunks[i] = <<IF asc THEN 0 ELSE 1>> \o ComputeDeltas(q, asc)
    OBVIOUS
  <2> HIDE DEF q, chunks
  <2>4. chunks[i] \in Seq(Nat) /\ Len(chunks[i]) = Len(q) + 1 /\ DecodeValues_Delta_PFOR(chunks[i]) = q
    BY <2>2, <2>3, DeltaReads
  <2>5. Decode("DELTA", chunks[i], Len(q)) = q
    BY <2>4 DEF Decode
  <2>6. Len(chunks[i]) <= 2 * SubblockSize + 1
    BY <2>2, <2>4, GeometryAssumption
  <2> QED
    BY <2>4, <2>5, <2>6 DEF q
<1>2. DOMAIN chunks = DOMAIN Subblocks(v) /\ chunks = [i \in DOMAIN chunks |-> chunks[i]]
  OBVIOUS
<1>3. WritePacked_Delta(v, asc) = Written("DELTA", chunks)
  BY DEF WritePacked_Delta
<1> HIDE DEF chunks
<1>4. "DELTA" \in Sized
  BY DEF Sized
<1>5. WellWritten(Written("DELTA", chunks), v)
  BY <1>1, <1>2, <1>4, SizedWritten
<1> QED
  BY <1>3, <1>5

\* A block of values less the least of each sub-block.
LEMMA GenericWritten ==
    ASSUME NEW v \in Seq(Value), v # << >>, Len(v) <= DocsPerBlock
    PROVE  WellWritten(WritePacked_Generic(v), v)
<1> DEFINE chunks == [i \in DOMAIN Subblocks(v) |-> WriteValues_PFOR(Subblocks(v)[i])]
<1>1. ASSUME NEW i \in DOMAIN chunks
      PROVE  /\ chunks[i] \in Seq(Nat) /\ Len(chunks[i]) <= 2 * SubblockSize + 1
             /\ Decode("GENERIC", chunks[i], Len(Subblocks(v)[i])) = Subblocks(v)[i]
  <2> DEFINE q == Subblocks(v)[i]
  <2>1. i \in DOMAIN Subblocks(v)
    OBVIOUS
  <2>2. q \in Seq(Value) /\ Len(q) \in 1..SubblockSize /\ q # << >>
    BY <2>1, SubblockIs
  <2>3. chunks[i] = WriteValues_PFOR(q)
    OBVIOUS
  <2> HIDE DEF q, chunks
  <2>4. chunks[i] \in Seq(Nat) /\ Len(chunks[i]) = Len(q) + 1 /\ DecodeValues_PFOR(chunks[i]) = q
    BY <2>2, <2>3, PforReads
  <2>5. Decode("GENERIC", chunks[i], Len(q)) = q
    BY <2>4 DEF Decode
  <2>6. Len(chunks[i]) <= 2 * SubblockSize + 1
    BY <2>2, <2>4, GeometryAssumption
  <2> QED
    BY <2>4, <2>5, <2>6 DEF q
<1>2. DOMAIN chunks = DOMAIN Subblocks(v) /\ chunks = [i \in DOMAIN chunks |-> chunks[i]]
  OBVIOUS
<1>3. WritePacked_Generic(v) = Written("GENERIC", chunks)
  BY DEF WritePacked_Generic
<1> HIDE DEF chunks
<1>4. "GENERIC" \in Sized
  BY DEF Sized
<1>5. WellWritten(Written("GENERIC", chunks), v)
  BY <1>1, <1>2, <1>4, SizedWritten
<1> QED
  BY <1>3, <1>5

\* A block of hashes, with or without maps.
LEMMA HashWritten ==
    ASSUME NEW v \in Seq(Value), v # << >>, Len(v) <= DocsPerBlock
    PROVE  WellWritten(WritePacked_Hash(v), v)
<1> DEFINE chunks == [i \in DOMAIN Subblocks(v) |-> WriteSubblock_Hash(Subblocks(v)[i])]
<1>1. ASSUME NEW i \in DOMAIN chunks
      PROVE  /\ chunks[i] \in Seq(Nat) /\ Len(chunks[i]) <= 2 * SubblockSize + 1
             /\ Decode("HASH", chunks[i], Len(Subblocks(v)[i])) = Subblocks(v)[i]
  <2> DEFINE q == Subblocks(v)[i]
  <2>1. i \in DOMAIN Subblocks(v)
    OBVIOUS
  <2>2. q \in Seq(Value) /\ Len(q) \in 1..SubblockSize
    BY <2>1, SubblockIs
  <2>3. chunks[i] = WriteSubblock_Hash(q)
    OBVIOUS
  <2> HIDE DEF q, chunks
  <2>4. chunks[i] \in Seq(Nat) /\ Len(chunks[i]) <= 2 * SubblockSize + 1
        /\ DecodeValues_Hash(chunks[i], Len(q)) = q
    BY <2>2, <2>3, HashReads
  <2>5. Decode("HASH", chunks[i], Len(q)) = q
    BY <2>4 DEF Decode
  <2> QED
    BY <2>4, <2>5 DEF q
<1>2. DOMAIN chunks = DOMAIN Subblocks(v) /\ chunks = [i \in DOMAIN chunks |-> chunks[i]]
  OBVIOUS
<1>3. WritePacked_Hash(v) = Written("HASH", chunks)
  BY DEF WritePacked_Hash
<1> HIDE DEF chunks
<1>4. "HASH" \in Sized
  BY DEF Sized
<1>5. WellWritten(Written("HASH", chunks), v)
  BY <1>1, <1>2, <1>4, SizedWritten
<1> QED
  BY <1>3, <1>5

\* A block with a table of its values.
LEMMA TableWritten ==
    ASSUME NEW v \in Seq(Value), v # << >>, Len(v) <= DocsPerBlock
    PROVE  WellWritten(WritePacked_Table(v, ToSet(v)), v)
<1> DEFINE n == Len(v)
           U == ToSet(v)
           k == Cardinality(U)
           sorted == Ranked(U)
           ord(x) == CHOOSE i \in DOMAIN sorted : sorted[i] = x
           ids == [i \in DOMAIN v |-> ord(v[i]) - 1]
           w == WritePacked_Table(v, U)
<1>1. n \in Nat /\ n <= DocsPerBlock /\ DOMAIN v = 1..n /\ \A i \in 1..n : v[i] \in Value
  OBVIOUS
<1>2. IsFiniteSet(U) /\ k \in Nat /\ k <= n /\ \A x : x \in U <=> \E i \in 1..n : v[i] = x
  BY FewValues
<1> HIDE DEF U
<1>3. U \subseteq Value /\ U \subseteq Nat
  BY <1>1, <1>2, WordsAreNumbers
<1>4. /\ sorted \in Seq(U) /\ Len(sorted) = k /\ DOMAIN sorted = 1..k /\ Rising(sorted)
      /\ \A x : x \in U <=> \E i \in 1..k : sorted[i] = x
  BY <1>2, <1>3, RankedIs
<1>5. w = WrittenFixed("TABLE", ComputeDeltas(sorted, TRUE), ids)
  BY DEF WritePacked_Table
<1> HIDE DEF sorted, k, n, w
<1>6. k <= Word - 1
  BY <1>1, <1>2, WordIs, PackingAssumption
<1>7. sorted \in Seq(Value)
  <2>1. sorted \in [1..k -> U]
    BY <1>4
  <2>2. sorted \in [1..k -> Value]
    BY <1>3, <2>1
  <2> QED
    BY <1>2, <2>2
<1>8. /\ ComputeDeltas(sorted, TRUE) \in Seq(Nat)
      /\ ComputeInverseDeltas(ComputeDeltas(sorted, TRUE), TRUE) = sorted
  BY <1>7, DeltasInverted
<1>9. ASSUME NEW i \in 1..n
      PROVE  /\ ids[i] \in 0..(k - 1) /\ ids[i] \in Value /\ sorted[ids[i] + 1] = v[i]
  <2>1. v[i] \in U
    BY <1>2
  <2>2. \E j \in DOMAIN sorted : sorted[j] = v[i]
    BY <1>4, <2>1
  <2> DEFINE o == ord(v[i])
  <2>3. o \in DOMAIN sorted /\ sorted[o] = v[i]
    BY <2>2
  <2>4. ids[i] = o - 1
    BY <1>1
  <2> HIDE DEF o, ids
  <2>5. o \in 1..k /\ ids[i] + 1 = o
    BY <1>2, <1>4, <2>3, <2>4
  <2>6. ids[i] \in 0..(k - 1)
    BY <1>2, <2>4, <2>5
  <2>7. ids[i] \in Value
    BY <1>2, <1>6, <2>6, WordIs DEF Value
  <2> QED
    BY <2>3, <2>5, <2>6, <2>7
<1>10. DOMAIN ids = 1..n /\ ids = [i \in 1..n |-> ids[i]]
  BY <1>1
<1> HIDE DEF ids
<1>11. ids \in Seq(Value) /\ Len(ids) = n
  <2>1. ids \in [1..n -> Value]
    BY <1>9, <1>10
  <2> QED
    BY <1>1, <2>1
<1>12. ids # << >> /\ n # 0
  BY <1>1, <1>11 DEF n
<1> DEFINE deltas == ComputeDeltas(sorted, TRUE)
<1> HIDE DEF deltas
<1>13. deltas \in Seq(Nat) /\ ComputeInverseDeltas(deltas, TRUE) = sorted /\ w = WrittenFixed("TABLE", deltas, ids)
  BY <1>5, <1>8 DEF deltas
<1>14. /\ w = [packing |-> "TABLE", sizes |-> << >>, table |-> deltas, body |-> w.body] /\ w.body \in Seq(Nat)
       /\ \A sb \in PartsOf(ids) : SubSeq(ReadFixed(w.body, sb), 1, CountIn(Len(ids), sb)) = Part(ids, sb)
  <2>1. Len(ids) <= DocsPerBlock
    BY <1>1, <1>11
  <2> QED
    BY <1>11, <1>12, <1>13, <2>1, FixedReads
<1>15. w \in Block /\ w.packing = "TABLE" /\ w.table = deltas
  <2> DEFINE r == [packing |-> "TABLE", sizes |-> << >>, table |-> deltas, body |-> w.body]
  <2>1. r.packing = "TABLE" /\ r.table = deltas
    OBVIOUS
  <2>2. << >> \in Seq(Nat)
    OBVIOUS
  <2>3. r \in Block
    BY <1>13, <1>14, <2>2, BlockType
  <2>4. w = r
    BY <1>14
  <2> HIDE DEF r
  <2> QED
    BY <2>1, <2>3, <2>4
<1>16. Table(w) = sorted
  BY <1>13, <1>15 DEF Table
<1>17. Different(sorted)
  <2>1. \A i, j \in 1..k : i < j => sorted[i] < sorted[j]
    BY <1>4 DEF Rising
  <2>2. \A i \in 1..k : sorted[i] \in Nat
    BY <1>3, <1>4
  <2>3. \A i, j \in 1..k : sorted[i] = sorted[j] => i = j
    <3> SUFFICES ASSUME NEW i \in 1..k, NEW j \in 1..k, sorted[i] = sorted[j], i # j PROVE FALSE
      OBVIOUS
    <3>1. i < j \/ j < i
      BY <1>2
    <3>2. ~(sorted[i] < sorted[j]) /\ ~(sorted[j] < sorted[i])
      BY <2>2
    <3> QED
      BY <2>1, <3>1, <3>2
  <2> QED
    BY <1>4, <2>3 DEF Different
<1>18. ASSUME NEW sb \in PartsOf(v)
       PROVE  Names(FixedPart(w, Len(v), sb), Table(w), Part(v, sb))
  <2> DEFINE m == CountIn(n, sb)
  <2>1. /\ sb \in Nat /\ sb * SubblockSize \in Nat /\ m \in Nat
        /\ sb * SubblockSize + m <= n /\ Len(Part(v, sb)) = m
        /\ \A i \in 1..m : Part(v, sb)[i] = v[sb * SubblockSize + i]
    <3>1. /\ sb \in Nat /\ sb * SubblockSize \in Nat /\ m \in 1..SubblockSize
          /\ sb * SubblockSize + m <= n /\ Len(Part(v, sb)) = m
          /\ \A i \in 1..m : Part(v, sb)[i] = v[sb * SubblockSize + i]
      BY PartIs DEF n
    <3> HIDE DEF m
    <3>2. m \in Nat
      BY <3>1, GeometryAssumption
    <3> QED
      BY <3>1, <3>2
  <2>2. sb \in PartsOf(ids)
    BY <1>11 DEF PartsOf, n
  <2>3. /\ Len(Part(ids, sb)) = m
        /\ \A i \in 1..m : Part(ids, sb)[i] = ids[sb * SubblockSize + i]
    BY <1>11, <2>2, PartIs
  <2>4. FixedPart(w, Len(v), sb) = Part(ids, sb)
    BY <1>11, <1>14, <2>2 DEF FixedPart, n
  <2> DEFINE p == Part(ids, sb)
             q == Part(v, sb)
             a == sb * SubblockSize
  <2> HIDE DEF p, q, m, a
  <2>5. ASSUME NEW i \in 1..m
        PROVE  p[i] \in 0..(k - 1) /\ sorted[p[i] + 1] = q[i]
    <3>1. a + i \in 1..n
      BY <1>1, <2>1 DEF a
    <3>2. p[i] = ids[a + i] /\ q[i] = v[a + i]
      BY <2>1, <2>3 DEF p, q, a
    <3> QED
      BY <1>9, <3>1, <3>2
  <2>6. Len(p) = m /\ Len(q) = m
    BY <2>1, <2>3 DEF p, q
  <2>7. Names(p, sorted, q)
    BY <1>4, <2>5, <2>6 DEF Names
  <2> QED
    BY <1>16, <2>4, <2>7 DEF p, q
<1>19. WellWritten(w, v)
  <2>1. w.packing # "CONST" /\ w.packing # "BITMAP" /\ w.packing \notin Sized
    BY <1>15 DEF Sized
  <2> QED
    BY <1>7, <1>15, <1>16, <1>17, <1>18, <2>1 DEF WellWritten
<1> QED
  BY <1>19 DEF w, U

-----------------------------------------------------------------------------
(* The packers. *)

\* A column of integers, hashes or booleans.
Numeric == case \in IntCases

\* The values of block b of a column.
StoredIn(c, v) == IF c.kind = "bool" THEN StoredBool(v) ELSE v
CutOf(c, b) ==
    [i \in 1..Smaller(DocsPerBlock, Len(c.docs) - b * DocsPerBlock) |->
        StoredIn(c, c.docs[b * DocsPerBlock + i])]

Packings(c) == IF c.kind = "bool" THEN {"CONST", "BITMAP"} ELSE {"CONST", "TABLE"} \cup Sized

\* A packer knows enough of the values it has collected.
StatsFitInt(v, s) ==
    /\ s.uniques \subseteq ToSet(v) /\ IsFiniteSet(s.uniques) /\ s.asc \in BOOLEAN /\ s.desc \in BOOLEAN
    /\ v # << >> => s.uniques # {}
    /\ Cardinality(s.uniques) < TableLimit => s.uniques = ToSet(v)

StatsFitBool(v, s) ==
    /\ s.first = (v = << >>)
    /\ s.const \in BOOLEAN
    /\ s.const => \A i \in 1..Len(v) : v[i] = s.value

StatsFit(c, v, s) == IF c.kind = "bool" THEN StatsFitBool(v, s) ELSE StatsFitInt(v, s)

\* The values it has collected are those that follow n blocks.
PendingFits(c, n, p, s) ==
    /\ p \in Seq(Value) /\ Len(p) <= DocsPerBlock /\ n * DocsPerBlock + Len(p) <= Len(c.docs)
    /\ \A i \in 1..Len(p) : p[i] = StoredIn(c, c.docs[n * DocsPerBlock + i])
    /\ StatsFit(c, p, s)

BlocksFit(c, bs) ==
    /\ bs \in Seq(Block)
    /\ \A b \in 0..(Len(bs) - 1) :
          /\ b * DocsPerBlock < Len(c.docs)
          /\ bs[b + 1].packing \in Packings(c)
          /\ WellWritten(bs[b + 1], CutOf(c, b))

PackerFits ==
    /\ use \in {"build", "iterate", "analyze"}
    /\ BlocksFit(case, blocks)
    /\ use = "build" =>
          /\ added \in Seq(Value) /\ Len(added) = Len(blocks) * DocsPerBlock + Len(pending)
          /\ Len(added) > 0 => pending # << >>
          /\ PendingFits(case, Len(blocks), pending, stats)
    /\ use # "build" => Len(blocks) = Ceil(Len(docs), DocsPerBlock)

\* What there is to know of a column.
LEMMA CaseIs ==
    ASSUME NEW c \in IntCases
    PROVE  /\ c.kind \in {"int", "hash", "bool"} /\ c.docs \in Seq(Value) /\ c.docs # << >>
           /\ Len(c.docs) \in Nat \ {0} /\ c.filter \in Filter
           /\ c.filter.type = "VALUES" => IsInjective(c.filter.values) /\ c.filter.values # << >>
           /\ c.kind = "hash" => c.filter.type = "VALUES"
           /\ c.uses = {"iterate", "analyze"}
<1>1. c \in [kind : {"int", "hash", "bool"}, docs : Seq(0..(Word - 1)), filter : Filter, uses : {Uses}]
  BY IntCasesAssumption
<1>2. /\ c.docs # << >>
      /\ c.filter.type = "VALUES" => IsInjective(c.filter.values) /\ c.filter.values # << >>
      /\ c.kind = "hash" => c.filter.type = "VALUES"
  BY IntCasesAssumption
<1>3. c.kind \in {"int", "hash", "bool"} /\ c.docs \in Seq(Value) /\ c.filter \in Filter
  BY <1>1 DEF Value
<1>5. c.uses = {"iterate", "analyze"}
  BY <1>1 DEF Uses
<1>4. Len(c.docs) \in Nat \ {0}
  <2> DEFINE d == c.docs
  <2>1. d \in Seq(Value) /\ d # << >>
    BY <1>2, <1>3
  <2> HIDE DEF d
  <2>2. Len(d) \in Nat \ {0}
    BY <2>1
  <2> QED
    BY <2>2 DEF d
<1> QED
  BY <1>2, <1>3, <1>4, <1>5

\* A column stores values.
LEMMA StoredType ==
    ASSUME NEW c \in IntCases, NEW i \in 1..Len(c.docs)
    PROVE  StoredIn(c, c.docs[i]) \in Value
<1> DEFINE d == c.docs
<1>1. d \in Seq(Value)
  BY CaseIs
<1> HIDE DEF d
<1>2. i \in 1..Len(d)
  BY DEF d
<1>3. d[i] \in Value
  BY <1>1, <1>2
<1>4. 0 \in Value /\ 1 \in Value
  BY PackingAssumption, GeometryAssumption DEF Value
<1> QED
  BY <1>3, <1>4 DEF StoredIn, StoredBool, d

\* A block has as many values as rows, which are those of the documents.
LEMMA CutIs ==
    ASSUME NEW c \in IntCases, NEW b \in Nat, b * DocsPerBlock < Len(c.docs)
    PROVE  /\ b * DocsPerBlock \in Nat
           /\ CutOf(c, b) \in Seq(Value) /\ CutOf(c, b) # << >>
           /\ Len(CutOf(c, b)) = GetNumDocs(Len(c.docs), b)
           /\ Len(CutOf(c, b)) = Smaller(DocsPerBlock, Len(c.docs) - b * DocsPerBlock)
           /\ Len(CutOf(c, b)) \in 1..DocsPerBlock
           /\ b * DocsPerBlock + Len(CutOf(c, b)) <= Len(c.docs)
           /\ \A i \in 1..Len(CutOf(c, b)) : CutOf(c, b)[i] = StoredIn(c, c.docs[b * DocsPerBlock + i])
<1> DEFINE n == Len(c.docs)
           x == b * DocsPerBlock
           m == Smaller(DocsPerBlock, n - x)
           v == CutOf(c, b)
<1>1. n \in Nat
  BY CaseIs
<1>2. /\ x \in Nat /\ GetNumDocs(n, b) = m /\ m \in 1..DocsPerBlock /\ x + m <= n
  BY <1>1, NumDocsIs
<1>3. DocsPerBlock \in Nat
  BY WordIs
<1> HIDE DEF x, m, n
<1>4. m \in Nat /\ m # 0
  BY <1>2, <1>3
<1>5. v = [i \in 1..m |-> StoredIn(c, c.docs[x + i])]
  BY DEF CutOf, m, x, n
<1> HIDE DEF v
<1>6. \A i \in 1..m : x + i \in 1..n
  BY <1>1, <1>2, <1>4
<1>7. \A i \in 1..m : StoredIn(c, c.docs[x + i]) \in Value
  BY <1>6, StoredType DEF n
<1>8. v \in [1..m -> Value]
  BY <1>5, <1>7
<1>9. v \in Seq(Value) /\ Len(v) = m
  BY <1>4, <1>8
<1>10. v # << >> /\ \A i \in 1..m : v[i] = StoredIn(c, c.docs[x + i])
  BY <1>4, <1>5, <1>9
<1> QED
  BY <1>2, <1>9, <1>10 DEF x, m, n, v

\* The packing a packer chooses from what it has seen keeps the block.
LEMMA WrittenFits ==
    ASSUME Numeric, NEW v \in Seq(Value), v # << >>, Len(v) <= DocsPerBlock, NEW s, StatsFit(case, v, s)
    PROVE  /\ WellWritten(WrittenBlock(v, s), v)
           /\ WrittenBlock(v, s).packing \in Packings(case)
<1> DEFINE w == WrittenBlock(v, s)
<1>1. Len(v) \in Nat \ {0} /\ 1 \in 1..Len(v) /\ v[1] \in Value
  OBVIOUS
<1>2. kind = case.kind /\ kind \in {"int", "hash", "bool"}
  BY CaseIs DEF Numeric, kind
<1>3. WritePacked_Const(<<v[1]>>) = WritePacked_Const(v)
  BY DEF WritePacked_Const
<1>4. ASSUME \A i \in 1..Len(v) : v[i] = v[1]
      PROVE  WellWritten(WritePacked_Const(v), v) /\ WritePacked_Const(v).packing = "CONST"
  <2>1. WritePacked_Const(v) = [packing |-> "CONST", sizes |-> << >>, table |-> << >>, body |-> <<v[1]>>]
    BY DEF WritePacked_Const
  <2> QED
    BY <1>1, <1>4, <2>1, ConstWritten
<1>5. CASE kind = "bool"
  <2>1. w = WriteToFileBool(v, s)
    BY <1>5 DEF WrittenBlock
  <2>2. StatsFitBool(v, s)
    BY <1>2, <1>5 DEF StatsFit
  <2>3. Packings(case) = {"CONST", "BITMAP"}
    BY <1>2, <1>5 DEF Packings
  <2>4. CASE s.const
    <3>1. \A i \in 1..Len(v) : v[i] = s.value
      BY <2>2, <2>4 DEF StatsFitBool
    <3>2. s.value = v[1] /\ \A i \in 1..Len(v) : v[i] = v[1]
      BY <1>1, <3>1
    <3>3. w = WritePacked_Const(v)
      BY <1>3, <2>1, <2>4, <3>2 DEF WriteToFileBool
    <3> QED
      BY <1>4, <2>3, <3>2, <3>3
  <2>5. CASE ~ s.const
    <3>1. w = WritePacked_Bitmap(v)
      BY <2>1, <2>5 DEF WriteToFileBool
    <3>2. w.packing = "BITMAP"
      <4>1. WrittenFixed("BITMAP", << >>, v).packing = "BITMAP"
        BY DEF WrittenFixed
      <4> QED
        BY <3>1, <4>1 DEF WritePacked_Bitmap
    <3> QED
      BY <2>3, <3>1, <3>2, BitmapWritten
  <2> QED
    BY <2>4, <2>5
<1>6. CASE kind # "bool"
  <2> DEFINE p == ChoosePacking(s)
             u == s.uniques
  <2>1. w = WriteToFile(v, s)
    BY <1>2, <1>6 DEF WrittenBlock
  <2>2. StatsFitInt(v, s)
    BY <1>2, <1>6 DEF StatsFit
  <2>3. Packings(case) = {"CONST", "TABLE"} \cup Sized
    BY <1>2, <1>6 DEF Packings
  <2>4. TableLimit \in Nat /\ TableLimit >= 2
    BY PackingAssumption
  <2>5. IsFiniteSet(u) /\ Cardinality(u) \in Nat
    BY <2>2, FS_CardinalityType DEF StatsFitInt
  <2>6. CASE Cardinality(u) = 1
    <3>1. u = ToSet(v)
      BY <2>2, <2>4, <2>6 DEF StatsFitInt
    <3>2. PICK x : u = {x}
      BY <2>5, <2>6, FS_Singleton
    <3>3. \A i \in 1..Len(v) : v[i] \in ToSet(v)
      BY FewValues
    <3>4. \A i \in 1..Len(v) : v[i] = v[1]
      BY <1>1, <3>1, <3>2, <3>3
    <3>5. p = "CONST"
      BY <2>6 DEF ChoosePacking
    <3>6. w = WritePacked_Const(v)
      BY <2>1, <3>5 DEF WriteToFile
    <3> QED
      BY <1>4, <2>3, <3>4, <3>6
  <2>7. CASE Cardinality(u) \in 2..(TableLimit - 1)
    <3>1. u = ToSet(v)
      BY <2>2, <2>4, <2>7 DEF StatsFitInt
    <3>2. p = "TABLE"
      BY <2>7 DEF ChoosePacking
    <3>3. w = WritePacked_Table(v, u)
      BY <2>1, <3>2 DEF WriteToFile
    <3>4. w.packing = "TABLE"
      BY <3>3 DEF WritePacked_Table, WrittenFixed
    <3> QED
      BY <2>3, <3>1, <3>3, <3>4, TableWritten
  <2>8. CASE Cardinality(u) # 1 /\ Cardinality(u) \notin 2..(TableLimit - 1)
    <3>1. p = IF s.asc \/ s.desc THEN "DELTA" ELSE IF kind = "hash" THEN "HASH" ELSE "GENERIC"
      BY <2>8 DEF ChoosePacking
    <3>2. s.asc \in BOOLEAN
      BY <2>2 DEF StatsFitInt
    <3>3. CASE s.asc \/ s.desc
      <4>1. w = WritePacked_Delta(v, s.asc)
        BY <2>1, <3>1, <3>3 DEF WriteToFile
      <4>2. w.packing = "DELTA"
        BY <4>1 DEF WritePacked_Delta, Written
      <4> QED
        BY <2>3, <3>2, <4>1, <4>2, DeltaWritten DEF Sized
    <3>4. CASE ~(s.asc \/ s.desc) /\ kind = "hash"
      <4>1. w = WritePacked_Hash(v)
        BY <2>1, <3>1, <3>4 DEF WriteToFile
      <4>2. w.packing = "HASH"
        BY <4>1 DEF WritePacked_Hash, Written
      <4> QED
        BY <2>3, <4>1, <4>2, HashWritten DEF Sized
    <3>5. CASE ~(s.asc \/ s.desc) /\ kind # "hash"
      <4>1. w = WritePacked_Generic(v)
        BY <2>1, <3>1, <3>5 DEF WriteToFile
      <4>2. w.packing = "GENERIC"
        BY <4>1 DEF WritePacked_Generic, Written
      <4> QED
        BY <2>3, <4>1, <4>2, GenericWritten DEF Sized
    <3> QED
      BY <3>3, <3>4, <3>5
  <2> QED
    BY <2>6, <2>7, <2>8
<1> QED
  BY <1>5, <1>6

\* A packer that has seen nothing, or one value more.
LEMMA FreshFits ==
    ASSUME Numeric
    PROVE  StatsFit(case, << >>, Fresh)
<1>1. kind = case.kind /\ kind \in {"int", "hash", "bool"} /\ ~ IsVar
  BY CaseIs DEF Numeric, kind, IsVar
<1>2. CASE kind = "bool"
  <2>1. Fresh = NoStatsBool
    BY <1>1, <1>2 DEF Fresh
  <2>2. StatsFitBool(<< >>, NoStatsBool)
    BY DEF StatsFitBool, NoStatsBool
  <2> QED
    BY <1>1, <1>2, <2>1, <2>2 DEF StatsFit
<1>3. CASE kind # "bool"
  <2>1. Fresh = NoStats
    BY <1>1, <1>3 DEF Fresh
  <2>2. ToSet(<< >>) = {}
    BY DEF ToSet
  <2>3. StatsFitInt(<< >>, NoStats)
    BY <2>2, FS_EmptySet DEF StatsFitInt, NoStats
  <2> QED
    BY <1>1, <1>3, <2>1, <2>3 DEF StatsFit
<1> QED
  BY <1>2, <1>3

\* What the packer has seen of its values, with the next one (AnalyzeCollected).
LEMMA SeenFits ==
    ASSUME Numeric, NEW v \in Seq(Value), NEW s, StatsFit(case, v, s), NEW x \in Value
    PROVE  StatsFit(case, Append(v, x), Seen(s, x))
<1> DEFINE a == Append(v, x)
           n == Len(v)
<1>1. kind = case.kind /\ kind \in {"int", "hash", "bool"} /\ ~ IsVar
  BY CaseIs DEF Numeric, kind, IsVar
<1>2. /\ n \in Nat /\ a \in Seq(Value) /\ Len(a) = n + 1 /\ a[n + 1] = x /\ a # << >>
      /\ \A i \in 1..n : a[i] = v[i]
  OBVIOUS
<1>3. v # << >> => n # 0
  OBVIOUS
<1> HIDE DEF a
<1>4. CASE kind = "bool"
  <2>1. Seen(s, x) = AnalyzeCollectedBool(s, x)
    BY <1>1, <1>4 DEF Seen
  <2>2. StatsFitBool(v, s)
    BY <1>1, <1>4 DEF StatsFit
  <2> DEFINE y == IF s.first THEN x ELSE s.value
             t == [first |-> FALSE, const |-> s.const /\ x = y, value |-> y]
  <2>3. AnalyzeCollectedBool(s, x) = t
    BY DEF AnalyzeCollectedBool
  <2>4. t.first = FALSE /\ t.const = (s.const /\ x = y) /\ t.value = y
    OBVIOUS
  <2> HIDE DEF t
  <2>5. ASSUME t.const, NEW i \in 1..Len(a)
        PROVE  a[i] = t.value
    <3>1. s.const /\ x = y
      BY <2>4, <2>5
    <3>2. CASE i = n + 1
      BY <1>2, <2>4, <3>1, <3>2
    <3>3. CASE i # n + 1
      <4>1. i \in 1..n /\ v # << >>
        BY <1>2, <3>3
      <4>2. ~ s.first
        BY <2>2, <4>1 DEF StatsFitBool
      <4>3. v[i] = s.value
        BY <2>2, <3>1, <4>1 DEF StatsFitBool
      <4> QED
        BY <1>2, <2>4, <4>1, <4>2, <4>3
    <3> QED
      BY <3>2, <3>3
  <2>6. t.const \in BOOLEAN /\ t.first = (a = << >>)
    BY <1>2, <2>4
  <2>7. StatsFitBool(a, t)
    BY <2>5, <2>6 DEF StatsFitBool
  <2> QED
    BY <1>1, <1>4, <2>1, <2>3, <2>7 DEF StatsFit, a
<1>5. CASE kind # "bool"
  <2>1. Seen(s, x) = AnalyzeCollected(s, x)
    BY <1>1, <1>5 DEF Seen
  <2>2. StatsFitInt(v, s)
    BY <1>1, <1>5 DEF StatsFit
  <2> DEFINE t == AnalyzeCollected(s, x)
             u == s.uniques
  <2>3. /\ t.uniques = IF Cardinality(u) < TableLimit THEN u \cup {x} ELSE u
        /\ t.asc = (s.asc /\ (u # {} => x >= s.prev)) /\ t.desc = (s.desc /\ (u # {} => x <= s.prev))
    BY DEF AnalyzeCollected, SeenValue
  <2>4. t.asc \in BOOLEAN /\ t.desc \in BOOLEAN
    BY <2>2, <2>3 DEF StatsFitInt
  <2> HIDE DEF t
  <2>5. \A y : y \in ToSet(a) <=> y \in ToSet(v) \/ y = x
    <3>1. \A y : y \in ToSet(a) <=> \E i \in 1..Len(a) : a[i] = y
      BY <1>2, FewValues
    <3>2. \A y : y \in ToSet(v) <=> \E i \in 1..Len(v) : v[i] = y
      BY FewValues
    <3>3. \A i : i \in 1..Len(a) <=> i \in 1..n \/ i = n + 1
      BY <1>2
    <3> QED
      BY <1>2, <3>1, <3>2, <3>3
  <2>6. /\ u \subseteq ToSet(v) /\ IsFiniteSet(u) /\ (v # << >> => u # {})
        /\ Cardinality(u) < TableLimit => u = ToSet(v)
    BY <2>2 DEF StatsFitInt
  <2>7. IsFiniteSet(t.uniques) /\ t.uniques \subseteq ToSet(a)
    <3>1. IsFiniteSet(u \cup {x})
      BY <2>6, FS_AddElement
    <3> QED
      BY <2>3, <2>5, <2>6, <3>1
  <2>8. CASE Cardinality(u) < TableLimit
    <3>1. t.uniques = u \cup {x}
      BY <2>3, <2>8
    <3>2. t.uniques = ToSet(a) /\ t.uniques # {}
      BY <2>5, <2>6, <2>8, <3>1
    <3>3. StatsFitInt(a, t)
      BY <2>4, <2>7, <3>2 DEF StatsFitInt
    <3> QED
      BY <1>1, <1>5, <2>1, <3>3 DEF StatsFit, a, t
  <2>9. CASE ~(Cardinality(u) < TableLimit)
    <3>1. t.uniques = u
      BY <2>3, <2>9
    <3>2. u # {}
      <4>1. 0 < TableLimit
        BY PackingAssumption
      <4>2. Cardinality({}) = 0
        BY FS_EmptySet
      <4>3. Cardinality({}) < TableLimit
        BY <4>1, <4>2
      <4> QED
        BY <2>9, <4>3
    <3>3. StatsFitInt(a, t)
      BY <2>4, <2>7, <2>9, <3>1, <3>2 DEF StatsFitInt
    <3> QED
      BY <1>1, <1>5, <2>1, <3>3 DEF StatsFit, a, t
  <2> QED
    BY <2>8, <2>9
<1> QED
  BY <1>4, <1>5

\* A block that is full, or the last one, is written as it was collected.
LEMMA FlushFits ==
    ASSUME Numeric, BlocksFit(case, blocks), PendingFits(case, Len(blocks), pending, stats), pending # << >>,
           \/ Len(pending) = DocsPerBlock
           \/ Len(blocks) * DocsPerBlock + Len(pending) = Len(docs)
    PROVE  /\ BlocksFit(case, Flushed) /\ Len(Flushed) = Len(blocks) + 1
           /\ Len(blocks) * DocsPerBlock \in Nat /\ Len(blocks) * DocsPerBlock < Len(docs)
<1> DEFINE n == Len(blocks)
           x == n * DocsPerBlock
           m == Len(pending)
           v == CutOf(case, n)
           w == WrittenBlock(pending, stats)
           bs == Append(blocks, w)
<1>1. case \in IntCases /\ docs = case.docs /\ Len(docs) \in Nat
  BY CaseIs DEF Numeric, docs
<1>2. blocks \in Seq(Block) /\ n \in Nat
  BY DEF BlocksFit
<1>3. /\ pending \in Seq(Value) /\ m <= DocsPerBlock /\ x + m <= Len(docs)
      /\ \A i \in 1..m : pending[i] = StoredIn(case, case.docs[x + i])
      /\ StatsFit(case, pending, stats)
  BY <1>1 DEF PendingFits
<1>4. m \in Nat \ {0}
  BY <1>3
<1>5. x \in Nat /\ DocsPerBlock \in Nat
  <2>1. DocsPerBlock \in Nat
    BY WordIs
  <2> HIDE DEF n
  <2> QED
    BY <1>2, <2>1
<1> HIDE DEF m, x, n
<1>6. x < Len(docs)
  BY <1>1, <1>3, <1>4, <1>5
<1>7. /\ v \in Seq(Value) /\ Len(v) = Smaller(DocsPerBlock, Len(docs) - x)
      /\ \A i \in 1..Len(v) : v[i] = StoredIn(case, case.docs[x + i])
  BY <1>1, <1>2, <1>6, CutIs DEF x
<1>8. Len(v) = m
  <2>1. m = DocsPerBlock \/ x + m = Len(docs)
    BY DEF m, x, n
  <2> QED
    BY <1>1, <1>3, <1>4, <1>5, <1>7, <2>1 DEF Smaller
<1>9. v = pending
  <2>1. v = [i \in 1..m |-> v[i]] /\ pending = [i \in 1..m |-> pending[i]]
    BY <1>3, <1>7, <1>8 DEF m
  <2>2. \A i \in 1..m : v[i] = pending[i]
    BY <1>3, <1>7, <1>8
  <2> QED
    BY <2>1, <2>2, Zenon
<1>10. WellWritten(w, v) /\ w.packing \in Packings(case)
  <2>1. Len(pending) <= DocsPerBlock
    BY <1>3 DEF m
  <2> QED
    BY <1>3, <1>9, <2>1, WrittenFits
<1>11. w \in Block
  BY <1>10 DEF WellWritten
<1> HIDE DEF w, v
<1>12. /\ bs \in Seq(Block) /\ Len(bs) = n + 1 /\ bs[n + 1] = w
       /\ \A i \in 1..n : bs[i] = blocks[i]
  BY <1>2, <1>11 DEF n
<1> HIDE DEF bs
<1>13. ASSUME NEW b \in 0..n
       PROVE  /\ b * DocsPerBlock < Len(case.docs)
              /\ bs[b + 1].packing \in Packings(case)
              /\ WellWritten(bs[b + 1], CutOf(case, b))
  <2>1. CASE b = n
    BY <1>1, <1>6, <1>10, <1>12, <2>1 DEF x, v
  <2>2. CASE b # n
    <3>1. b \in 0..(n - 1) /\ b + 1 \in 1..n
      BY <1>2, <2>2
    <3> QED
      BY <1>12, <3>1 DEF BlocksFit, n
  <2> QED
    BY <2>1, <2>2
<1>14. Len(bs) - 1 = n
  BY <1>2, <1>12
<1>15. BlocksFit(case, bs)
  <2>1. \A b \in 0..(Len(bs) - 1) :
           /\ b * DocsPerBlock < Len(case.docs)
           /\ bs[b + 1].packing \in Packings(case)
           /\ WellWritten(bs[b + 1], CutOf(case, b))
    BY <1>13, <1>14
  <2> QED
    BY <1>12, <2>1 DEF BlocksFit
<1>16. Flushed = bs
  BY DEF Flushed, bs, w
<1> QED
  BY <1>5, <1>6, <1>12, <1>15, <1>16 DEF x, n

\* An empty packer has seen what it holds, and no block is in the file.
LEMMA PackerStarts ==
    ASSUME Init, Numeric
    PROVE  PackerFits
<1>1. added = << >> /\ pending = << >> /\ stats = Fresh /\ blocks = << >> /\ use = "build"
  BY DEF Init
<1>2. case \in IntCases /\ Len(case.docs) \in Nat
  BY CaseIs DEF Numeric
<1>3. << >> \in Seq(Value) /\ << >> \in Seq(Block) /\ Len(<< >>) = 0 /\ 0 * DocsPerBlock = 0 /\ DocsPerBlock \in Nat
  BY WordIs
<1>4. BlocksFit(case, blocks)
  <2>1. 0..(Len(blocks) - 1) = {}
    BY <1>1, <1>3
  <2> QED
    BY <1>1, <1>3, <2>1 DEF BlocksFit
<1>5. PendingFits(case, Len(blocks), pending, stats)
  <2>1. StatsFit(case, pending, stats)
    BY <1>1, FreshFits
  <2>2. 1..Len(pending) = {}
    BY <1>1
  <2> QED
    BY <1>1, <1>2, <1>3, <2>1, <2>2 DEF PendingFits
<1> QED
  BY <1>1, <1>3, <1>4, <1>5 DEF PackerFits

\* A document is added to the block, or the full block is written and another one begun.
LEMMA AddDocFits ==
    ASSUME Numeric, PackerFits, AddDoc
    PROVE  PackerFits'
<1> DEFINE v == Stored(docs[Len(added) + 1])
           n == Len(blocks)
           x == n * DocsPerBlock
           m == Len(pending)
           k == Len(added)
           N == Len(docs)
<1>1. case \in IntCases /\ docs = case.docs /\ N \in Nat
  BY CaseIs DEF Numeric, docs
<1>2. /\ use = "build" /\ k < N /\ added' = Append(added, v) /\ case' = case /\ use' = use
      /\ \/ m = DocsPerBlock /\ blocks' = Flushed /\ pending' = <<v>> /\ stats' = Seen(Fresh, v)
         \/ m # DocsPerBlock /\ blocks' = blocks /\ pending' = Append(pending, v) /\ stats' = Seen(stats, v)
  BY DEF AddDoc
<1>3. /\ BlocksFit(case, blocks) /\ added \in Seq(Value) /\ k = x + m /\ (k > 0 => pending # << >>)
      /\ PendingFits(case, n, pending, stats)
  BY <1>2 DEF PackerFits
<1>4. /\ pending \in Seq(Value) /\ m <= DocsPerBlock
      /\ \A i \in 1..m : pending[i] = StoredIn(case, case.docs[x + i])
      /\ StatsFit(case, pending, stats) /\ blocks \in Seq(Block)
  BY <1>3 DEF PendingFits, BlocksFit
<1>5. n \in Nat /\ m \in Nat /\ k \in Nat /\ DocsPerBlock \in Nat \ {0}
  BY <1>3, <1>4, WordIs
<1> HIDE DEF n, N
<1>6. x \in Nat
  BY <1>5
<1> HIDE DEF x, m, k
<1>7. k + 1 \in 1..N
  BY <1>1, <1>2, <1>5
<1>8. v = StoredIn(case, case.docs[k + 1]) /\ v \in Value
  <2>1. v = StoredIn(case, case.docs[k + 1])
    BY <1>1 DEF Stored, StoredIn, kind, k
  <2>2. StoredIn(case, case.docs[k + 1]) \in Value
    BY <1>1, <1>7, StoredType DEF N
  <2> QED
    BY <2>1, <2>2
<1> HIDE DEF v
<1>9. added' \in Seq(Value) /\ Len(added') = k + 1
  BY <1>2, <1>3, <1>8 DEF k
<1>10. CASE m = DocsPerBlock
  <2>1. blocks' = Flushed /\ pending' = <<v>> /\ stats' = Seen(Fresh, v)
    BY <1>2, <1>10
  <2>2. BlocksFit(case, Flushed) /\ Len(Flushed) = n + 1
    <3>1. pending # << >> /\ Len(pending) = DocsPerBlock
      BY <1>4, <1>5, <1>10 DEF m
    <3> QED
      BY <1>3, <3>1, FlushFits DEF n
  <2>3. pending' \in Seq(Value) /\ Len(pending') = 1 /\ pending'[1] = v /\ pending' # << >>
    BY <1>8, <2>1
  <2>4. StatsFit(case, pending', stats')
    <3>1. StatsFit(case, Append(<< >>, v), Seen(Fresh, v))
      <4>1. << >> \in Seq(Value) /\ StatsFit(case, << >>, Fresh)
        BY FreshFits
      <4> DEFINE e == << >>
      <4> HIDE DEF e
      <4>2. e \in Seq(Value) /\ StatsFit(case, e, Fresh)
        BY <4>1 DEF e
      <4>3. StatsFit(case, Append(e, v), Seen(Fresh, v))
        BY <1>8, <4>2, SeenFits
      <4> QED
        BY <4>3 DEF e
    <3>2. Append(<< >>, v) = <<v>>
      OBVIOUS
    <3> QED
      BY <2>1, <3>1, <3>2
  <2>5. (n + 1) * DocsPerBlock = k
    <3>1. (n + 1) * DocsPerBlock = n * DocsPerBlock + DocsPerBlock
      BY <1>5
    <3> QED
      BY <1>3, <1>10, <3>1 DEF x
  <2>6. PendingFits(case, n + 1, pending', stats')
    <3>1. 1 <= DocsPerBlock /\ k + 1 <= Len(case.docs)
      BY <1>1, <1>5, <1>7 DEF N
    <3>2. \A i \in 1..1 : pending'[i] = StoredIn(case, case.docs[k + i])
      BY <1>8, <2>3
    <3> QED
      BY <2>3, <2>4, <2>5, <3>1, <3>2 DEF PendingFits
  <2> DEFINE n1 == n + 1
  <2>7. Len(blocks') = n1 /\ Len(added') = n1 * DocsPerBlock + Len(pending')
    BY <1>9, <2>1, <2>2, <2>3, <2>5
  <2> QED
    BY <1>2, <1>9, <2>1, <2>2, <2>3, <2>6, <2>7 DEF PackerFits
<1>11. CASE m # DocsPerBlock
  <2>1. blocks' = blocks /\ pending' = Append(pending, v) /\ stats' = Seen(stats, v)
    BY <1>2, <1>11
  <2>2. /\ pending' \in Seq(Value) /\ Len(pending') = m + 1 /\ pending'[m + 1] = v /\ pending' # << >>
        /\ \A i \in 1..m : pending'[i] = pending[i]
    BY <1>4, <1>8, <2>1 DEF m
  <2>3. StatsFit(case, pending', stats')
    BY <1>4, <1>8, <2>1, SeenFits
  <2>4. m + 1 <= DocsPerBlock /\ x + (m + 1) = k + 1 /\ x + (m + 1) <= N
    BY <1>1, <1>3, <1>4, <1>5, <1>6, <1>7, <1>11
  <2>5. \A i \in 1..(m + 1) : pending'[i] = StoredIn(case, case.docs[x + i])
    <3> SUFFICES ASSUME NEW i \in 1..(m + 1) PROVE pending'[i] = StoredIn(case, case.docs[x + i])
      OBVIOUS
    <3>1. CASE i = m + 1
      BY <1>8, <2>2, <2>4, <3>1
    <3>2. CASE i # m + 1
      <4>1. i \in 1..m
        BY <1>5, <3>2
      <4> QED
        BY <1>4, <2>2, <4>1
    <3> QED
      BY <3>1, <3>2
  <2>6. PendingFits(case, n, pending', stats')
    BY <1>1, <2>2, <2>3, <2>4, <2>5 DEF PendingFits, x, N
  <2>7. Len(blocks') = n /\ Len(added') = n * DocsPerBlock + Len(pending')
    BY <1>9, <2>1, <2>2, <2>4 DEF x, n
  <2> QED
    BY <1>2, <1>3, <1>9, <2>1, <2>2, <2>6, <2>7 DEF PackerFits
<1> QED
  BY <1>10, <1>11

\* The rest is written: now every document is in a block.
LEMMA DoneFits ==
    ASSUME Numeric, PackerFits, Done
    PROVE  PackerFits'
<1> DEFINE n == Len(blocks)
           x == n * DocsPerBlock
           m == Len(pending)
           N == Len(docs)
<1>1. case \in IntCases /\ docs = case.docs /\ N \in Nat \ {0} /\ case.uses = {"iterate", "analyze"}
  BY CaseIs DEF Numeric, docs
<1>2. /\ use = "build" /\ Len(added) = N /\ blocks' = Flushed /\ case' = case /\ use' \in case.uses
  BY DEF Done
<1>3. /\ BlocksFit(case, blocks) /\ Len(added) = x + m /\ (Len(added) > 0 => pending # << >>)
      /\ PendingFits(case, n, pending, stats)
  BY <1>2 DEF PackerFits
<1>4. pending \in Seq(Value) /\ m <= DocsPerBlock /\ blocks \in Seq(Block)
  BY <1>3 DEF PendingFits, BlocksFit
<1>5. n \in Nat /\ m \in Nat /\ DocsPerBlock \in Nat \ {0}
  BY <1>4, WordIs
<1>6. pending # << >>
  BY <1>1, <1>2, <1>3
<1>7. BlocksFit(case, Flushed) /\ Len(Flushed) = n + 1 /\ x \in Nat /\ x < N
  <2>1. x + m = N
    BY <1>2, <1>3
  <2> QED
    BY <1>3, <1>6, <2>1, FlushFits
<1> HIDE DEF n, N, m
<1>8. (n + 1) * DocsPerBlock = x + DocsPerBlock
  BY <1>5
<1> HIDE DEF x
<1>9. N = x + m
  BY <1>2, <1>3
<1> DEFINE c == Ceil(N, DocsPerBlock)
           n1 == n + 1
<1>10. c \in Nat /\ \A i \in Nat : i < c <=> i * DocsPerBlock < N
  BY <1>1, <1>5, CeilIs
<1> HIDE DEF c
<1>11. n1 \in Nat /\ n1 * DocsPerBlock = x + DocsPerBlock
  BY <1>5, <1>8
<1> HIDE DEF n1
<1>12. n < c
  BY <1>5, <1>7, <1>10 DEF x
<1>13. ~(n1 < c)
  <2>1. ~(x + DocsPerBlock < N)
    BY <1>4, <1>5, <1>7, <1>9 DEF m
  <2> QED
    BY <1>10, <1>11, <2>1
<1>14. c = n + 1
  BY <1>5, <1>10, <1>12, <1>13 DEF n1
<1>15. Len(blocks') = Ceil(Len(docs'), DocsPerBlock)
  <2>1. docs' = docs
    BY <1>2 DEF docs
  <2> QED
    BY <1>2, <1>7, <1>14, <2>1 DEF c, N
<1>16. use' \in {"iterate", "analyze"}
  BY <1>1, <1>2
<1> QED
  BY <1>2, <1>7, <1>15, <1>16 DEF PackerFits

\* The other steps leave the packer alone.
LEMMA PackerRests ==
    ASSUME PackerFits, UNCHANGED <<case, packer, use>>
    PROVE  PackerFits'
<1>1. case' = case /\ added' = added /\ pending' = pending /\ stats' = stats /\ blocks' = blocks /\ use' = use
  BY DEF packer
<1>2. docs' = docs
  BY <1>1 DEF docs
<1> QED
  BY <1>1, <1>2 DEF PackerFits

-----------------------------------------------------------------------------
(* Rows, sub-blocks and blocks. *)

\* A number is its quotient times the divisor, and the remainder.
LEMMA DivMod ==
    ASSUME NEW a \in Nat, NEW d \in Nat \ {0}
    PROVE  /\ a \div d \in Nat /\ (a \div d) * d \in Nat /\ a % d \in 0..(d - 1)
           /\ a = (a \div d) * d + (a % d)
<1>1. a \div d \in Nat /\ (a \div d) * d \in Nat
  BY Quotient
<1>2. a \div d \in Int /\ a % d \in 0..(d - 1) /\ a = d * (a \div d) + (a % d)
  OBVIOUS
<1> DEFINE q == a \div d
           m == a % d
<1>3. q \in Nat /\ m \in 0..(d - 1) /\ a = d * q + m
  BY <1>1, <1>2
<1> HIDE DEF q, m
<1>4. q \in Nat /\ q * d \in Nat /\ m \in 0..(d - 1) /\ a = q * d + m
  BY <1>3
<1> QED
  BY <1>4 DEF q, m

\* A quotient is told by the multiples around a number.
LEMMA QuotientIs ==
    ASSUME NEW a \in Nat, NEW d \in Nat \ {0}, NEW q \in Nat, q * d <= a, a < q * d + d
    PROVE  a \div d = q /\ a % d = a - q * d
<1> DEFINE p == a \div d
           m == a % d
<1>1. p \in Nat /\ p * d \in Nat /\ m \in 0..(d - 1) /\ a = p * d + m
  BY DivMod
<1> HIDE DEF p, m
<1>2. q * d \in Nat
  OBVIOUS
<1>3. p < q => p * d + d <= q * d
  BY <1>1, MultiplesApart
<1>4. q < p => q * d + d <= p * d
  BY <1>1, MultiplesApart
<1> DEFINE x == p * d
           y == q * d
<1>5. x \in Nat /\ y \in Nat /\ a = x + m /\ y <= a /\ a < y + d
      /\ (p < q => x + d <= y) /\ (q < p => y + d <= x)
  BY <1>1, <1>2, <1>3, <1>4
<1> HIDE DEF x, y
<1>6. p = q
  BY <1>1, <1>5
<1>7. x = y
  BY <1>6 DEF x, y
<1>8. m = a - y
  BY <1>1, <1>5, <1>7
<1> QED
  BY <1>6, <1>8 DEF p, m, y

\* A multiple of a number is no less than the number.
LEMMA TimesIsMore ==
    ASSUME NEW k \in Nat, NEW d \in Nat \ {0}
    PROVE  k * d \in Nat /\ k <= k * d
<1>1. d - 1 \in Nat /\ d = (d - 1) + 1
  OBVIOUS
<1>2. \A e \in Nat : k * (e + 1) = k * e + k /\ k * e \in Nat
  OBVIOUS
<1>3. k * ((d - 1) + 1) = k * (d - 1) + k /\ k * (d - 1) \in Nat
  BY <1>1, <1>2
<1> DEFINE y == k * (d - 1)
           x == k * d
<1>4. y \in Nat /\ x = y + k
  BY <1>1, <1>3
<1> HIDE DEF x, y
<1>5. x \in Nat /\ k <= x
  BY <1>4
<1> QED
  BY <1>5 DEF x

\* A sub-block begins in its block: these are its values.
LEMMA InBlock ==
    ASSUME NEW c \in IntCases, NEW b \in Nat, NEW sb \in Nat, sb < SubblocksPerBlock,
           b * DocsPerBlock + sb * SubblockSize < Len(c.docs)
    PROVE  /\ b * DocsPerBlock \in Nat /\ sb * SubblockSize \in Nat /\ b * DocsPerBlock < Len(c.docs)
           /\ sb * SubblockSize + SubblockSize <= DocsPerBlock
           /\ sb \in PartsOf(CutOf(c, b))
           /\ CountIn(Len(CutOf(c, b)), sb) \in 1..SubblockSize
           /\ \A i \in Nat : i \in 1..CountIn(Len(CutOf(c, b)), sb) <=>
                  i \in 1..SubblockSize /\ b * DocsPerBlock + sb * SubblockSize + i <= Len(c.docs)
           /\ \A i \in 1..CountIn(Len(CutOf(c, b)), sb) :
                  CutOf(c, b)[sb * SubblockSize + i]
                    = StoredIn(c, c.docs[b * DocsPerBlock + sb * SubblockSize + i])
<1> DEFINE N == Len(c.docs)
           x == b * DocsPerBlock
           y == sb * SubblockSize
           v == CutOf(c, b)
           m == CountIn(Len(v), sb)
           s == SubblockSize
           D == DocsPerBlock
<1>1. N \in Nat
  BY CaseIs
<1>2. s \in Nat \ {0} /\ D \in Nat \ {0} /\ D = SubblocksPerBlock * s /\ SubblocksPerBlock \in Nat
  BY GeometryAssumption, BlockIs
<1>3. y + s <= D /\ y \in Nat
  <2>1. sb * s + s <= SubblocksPerBlock * s /\ sb * s \in Nat
    BY <1>2, MultiplesApart
  <2> QED
    BY <1>2, <2>1
<1>4. x \in Nat
  BY <1>2
<1>5. x + y < N
  OBVIOUS
<1>6. x < N
  <2> HIDE DEF x, y, N
  <2> QED
    BY <1>1, <1>3, <1>4, <1>5
<1>7. /\ Len(v) = Smaller(D, N - x)
      /\ \A i \in 1..Len(v) : v[i] = StoredIn(c, c.docs[x + i])
  BY <1>6, CutIs
<1> HIDE DEF N, x, v
<1>8. sb <= y
  BY <1>2, TimesIsMore
<1>9. m = Smaller(s, Len(v) - y)
  BY DEF CountIn
<1>10. y < Len(v) /\ Len(v) \in Nat
  <2> HIDE DEF y, s, D
  <2> QED
    BY <1>1, <1>2, <1>3, <1>4, <1>5, <1>6, <1>7 DEF Smaller
<1>11. sb \in PartsOf(v)
  <2>1. sb \in 0..Len(v)
    <3> HIDE DEF y
    <3> QED
      BY <1>3, <1>8, <1>10
  <2> QED
    BY <1>10, <2>1 DEF PartsOf
<1> HIDE DEF y, s, D, m
<1>12. m \in 1..s
  BY <1>2, <1>3, <1>9, <1>10 DEF Smaller
<1>13. \A i \in Nat : i \in 1..m <=> i \in 1..s /\ x + y + i <= N
  BY <1>1, <1>2, <1>3, <1>4, <1>5, <1>6, <1>7, <1>9 DEF Smaller
<1>14. ASSUME NEW i \in 1..m
       PROVE  v[y + i] = StoredIn(c, c.docs[x + y + i])
  <2>1. y + i \in 1..Len(v)
    BY <1>2, <1>3, <1>9, <1>10, <1>12 DEF Smaller
  <2>2. x + (y + i) = x + y + i
    BY <1>2, <1>3, <1>4, <1>12
  <2> QED
    BY <1>7, <2>1, <2>2
<1> QED
  BY <1>3, <1>4, <1>6, <1>11, <1>12, <1>13, <1>14 DEF N, x, y, v, m, s, D

\* Where an accessor finds a row.
Finds(row, b, sb, i) ==
    /\ b = RowId2BlockId(row)
    /\ sb = GetSubblockId(row - BlockId2RowId(b))
    /\ i = GetValueIdInSubblock(row - BlockId2RowId(b)) + 1

\* Get and the analyzers look for a row where the packer put its document.
LEMMA RowIs ==
    ASSUME NEW c \in IntCases, NEW row \in 0..(Len(c.docs) - 1), NEW b, NEW sb, NEW i, Finds(row, b, sb, i)
    PROVE  /\ b \in Nat /\ b * DocsPerBlock < Len(c.docs)
           /\ sb \in PartsOf(CutOf(c, b))
           /\ i \in 1..CountIn(Len(CutOf(c, b)), sb)
           /\ CutOf(c, b)[sb * SubblockSize + i] = StoredIn(c, c.docs[row + 1])
<1> DEFINE N == Len(c.docs)
           x == b * DocsPerBlock
           y == sb * SubblockSize
           s == SubblockSize
           D == DocsPerBlock
           off == row - x
<1>1. N \in Nat /\ row \in Nat /\ row < N
  BY CaseIs
<1>2. s \in Nat \ {0} /\ D \in Nat \ {0} /\ D = SubblocksPerBlock * s /\ SubblocksPerBlock \in Nat
  BY GeometryAssumption, BlockIs
<1>3. b = row \div D /\ sb = off \div s /\ i = (off % s) + 1
  BY DEF RowId2BlockId, BlockId2RowId, GetSubblockId, GetValueIdInSubblock, Finds
<1>4. b \in Nat /\ x \in Nat /\ x <= row /\ row < x + D
  BY <1>1, <1>2, <1>3, Quotient
<1> HIDE DEF x, s, D
<1>5. off \in Nat /\ off < D
  BY <1>1, <1>2, <1>4
<1>13. off = row - x
  OBVIOUS
<1> HIDE DEF off
<1>6. sb \in Nat /\ y \in Nat /\ y <= off /\ off = y + (i - 1) /\ i \in 1..s
  <2> DEFINE m == off % s
  <2>1. off \div s \in Nat /\ (off \div s) * s \in Nat /\ m \in 0..(s - 1) /\ off = (off \div s) * s + m
    BY <1>2, <1>5, DivMod
  <2>2. y = (off \div s) * s
    BY <1>3 DEF s
  <2>3. i = m + 1
    BY <1>3
  <2> HIDE DEF m, y
  <2>4. sb \in Nat
    BY <1>3, <2>1
  <2>5. y \in Nat /\ m \in 0..(s - 1) /\ off = y + m
    BY <2>1, <2>2
  <2> QED
    BY <1>2, <2>3, <2>4, <2>5
<1>7. sb < SubblocksPerBlock
  <2> SUFFICES ASSUME ~(sb < SubblocksPerBlock) PROVE FALSE
    OBVIOUS
  <2>1. SubblocksPerBlock < sb \/ SubblocksPerBlock = sb
    BY <1>2, <1>6
  <2>2. SubblocksPerBlock < sb => SubblocksPerBlock * s + s <= sb * s
    BY <1>2, <1>6, MultiplesApart
  <2>3. SubblocksPerBlock = sb => y = D
    BY <1>2 DEF y, s
  <2>4. SubblocksPerBlock < sb => D + s <= y
    BY <1>2, <2>2 DEF y, s
  <2> HIDE DEF y
  <2> QED
    BY <1>2, <1>5, <1>6, <2>1, <2>3, <2>4
<1> HIDE DEF y, N
<1>10. i \in Nat
  BY <1>2, <1>6
<1>8. x + y < N /\ x + y + i = row + 1 /\ x + y + i <= N
  <2>1. x + y + i = row + 1
    BY <1>1, <1>4, <1>6, <1>10, <1>13
  <2> QED
    BY <1>1, <1>4, <1>6, <1>10, <1>13, <2>1
<1> DEFINE v == CutOf(c, b)
           k == CountIn(Len(v), sb)
<1>9. /\ x < N /\ sb \in PartsOf(v)
      /\ \A j \in Nat : j \in 1..k <=> j \in 1..s /\ x + y + j <= N
      /\ \A j \in 1..k : v[y + j] = StoredIn(c, c.docs[x + y + j])
  <2>1. x + y < N
    BY <1>8
  <2> QED
    <3>1. b * DocsPerBlock + sb * SubblockSize < Len(c.docs)
      BY <2>1 DEF x, y, N, s
    <3>2. /\ b * DocsPerBlock < Len(c.docs) /\ sb \in PartsOf(CutOf(c, b))
          /\ \A j \in Nat : j \in 1..CountIn(Len(CutOf(c, b)), sb) <=>
                j \in 1..SubblockSize /\ b * DocsPerBlock + sb * SubblockSize + j <= Len(c.docs)
          /\ \A j \in 1..CountIn(Len(CutOf(c, b)), sb) :
                CutOf(c, b)[sb * SubblockSize + j] = StoredIn(c, c.docs[b * DocsPerBlock + sb * SubblockSize + j])
      BY <1>4, <1>6, <1>7, <3>1, InBlock, Zenon
    <3> QED
      BY <3>2 DEF x, y, N, s
<1> HIDE DEF v, k
<1>11. i \in 1..k
  BY <1>6, <1>8, <1>9, <1>10
<1>12. v[y + i] = StoredIn(c, c.docs[row + 1])
  BY <1>8, <1>9, <1>11
<1> QED
  BY <1>4, <1>9, <1>11, <1>12 DEF x, N, v, k, y

-----------------------------------------------------------------------------
(* The accessors. *)

\* The accessor agrees with the file: what it keeps of a header is of its block,
\* what it keeps of a sub-block of the one it has the number of.
AccFields == {"block", "packing", "const", "table", "fixedId", "fixed", "sizes", "sizedId", "sized", "len",
              "sorted", "lensId", "lens", "first", "pos", "lastRead"}

OfBlock(w, v, a) ==
    /\ a.packing = w.packing
    /\ w.packing = "CONST" => a.const = w.body[1]
    /\ w.packing = "TABLE" => a.table = Table(w)
    /\ w.packing \in Sized => a.sizes = Sizes(w)
    /\ w.packing \in {"TABLE", "BITMAP"} /\ a.fixedId # -1 =>
          a.fixedId \in PartsOf(v) /\ a.fixed = FixedPart(w, Len(v), a.fixedId)
    /\ w.packing \in Sized /\ a.sizedId # -1 =>
          a.sizedId \in PartsOf(v) /\ a.sized = SizedPart(w, Len(v), a.sizedId)

AccFits(c, bs, a) ==
    /\ DOMAIN a = AccFields
    /\ a.block \in -1..(Len(bs) - 1)
    /\ a.block # -1 => OfBlock(bs[a.block + 1], CutOf(c, a.block), a)

\* It has read sub-block sb.
HasRead(a, sb) ==
    /\ a.packing \in {"TABLE", "BITMAP"} => a.fixedId = sb
    /\ a.packing \in Sized => a.sizedId = sb

\* What a value that was read is.
Reads(a, i, x) ==
    /\ a.packing = "CONST" => a.const = x
    /\ a.packing = "TABLE" => a.fixed[i] \in 0..(Len(a.table) - 1) /\ a.table[a.fixed[i] + 1] = x
    /\ a.packing = "BITMAP" => a.fixed[i] = x
    /\ a.packing \in Sized => a.sized[i] = x

\* A block of the column and what is known of it.
LEMMA BlockFits ==
    ASSUME NEW c \in IntCases, NEW bs, BlocksFit(c, bs), NEW b \in 0..(Len(bs) - 1)
    PROVE  /\ b \in Nat /\ b * DocsPerBlock < Len(c.docs)
           /\ bs[b + 1] \in Block /\ bs[b + 1].packing \in Packings(c)
           /\ WellWritten(bs[b + 1], CutOf(c, b))
<1>1. b \in Nat
  OBVIOUS
<1>2. /\ b * DocsPerBlock < Len(c.docs) /\ bs[b + 1].packing \in Packings(c)
      /\ WellWritten(bs[b + 1], CutOf(c, b))
  BY DEF BlocksFit
<1> QED
  BY <1>1, <1>2 DEF WellWritten

\* The packings of the blocks of each type.
LEMMA PackingsAre ==
    ASSUME NEW c \in IntCases
    PROVE  /\ c.kind = "bool" => Packings(c) = {"CONST", "BITMAP"}
           /\ c.kind # "bool" => Packings(c) = {"CONST", "TABLE", "DELTA", "GENERIC", "HASH"}
BY DEF Packings, Sized

\* Moved to a block, the accessor has its header and forgets the sub-block.
LEMMA EntersBlock ==
    ASSUME Numeric, BlocksFit(case, blocks), NEW a, DOMAIN a = AccFields, NEW b \in 0..(Len(blocks) - 1)
    PROVE  /\ AccFits(case, blocks, SetCurBlock(a, b)) /\ SetCurBlock(a, b).block = b
           /\ SetCurBlock(a, b).packing = blocks[b + 1].packing
<1> DEFINE w == blocks[b + 1]
           v == CutOf(case, b)
           at == [a EXCEPT !.block = b, !.packing = w.packing]
           r == SetCurBlock(a, b)
<1>1. kind = case.kind /\ kind \in {"int", "hash", "bool"} /\ case \in IntCases
  BY CaseIs DEF Numeric, kind
<1>2. w.packing \in Packings(case) /\ b \in Nat
  BY <1>1, BlockFits
<1>3. DOMAIN at = AccFields /\ at.block = b /\ at.packing = w.packing
  BY DEF AccFields
<1> HIDE DEF w, v, at
<1>4. CASE kind = "bool"
  <2>1. w.packing \in {"CONST", "BITMAP"}
    BY <1>1, <1>2, <1>4, PackingsAre
  <2>2. r = SetCurBlockBool(at, w)
    BY <1>4 DEF SetCurBlock, at, w
  <2>3. CASE w.packing = "CONST"
    <3>1. r = [at EXCEPT !.const = w.body[1]]
      BY <2>2, <2>3 DEF SetCurBlockBool
    <3>2. DOMAIN r = AccFields /\ r.block = b /\ r.packing = w.packing /\ r.const = w.body[1]
      BY <1>3, <3>1 DEF AccFields
    <3> HIDE DEF r
    <3>3. OfBlock(w, v, r)
      BY <2>3, <3>2 DEF OfBlock, Sized
    <3> QED
      BY <3>2, <3>3 DEF AccFits, r, w, v
  <2>4. CASE w.packing = "BITMAP"
    <3>1. r = [at EXCEPT !.fixedId = -1]
      BY <2>2, <2>4 DEF SetCurBlockBool
    <3>2. DOMAIN r = AccFields /\ r.block = b /\ r.packing = w.packing /\ r.fixedId = -1
      BY <1>3, <3>1 DEF AccFields
    <3> HIDE DEF r
    <3>3. OfBlock(w, v, r)
      BY <2>4, <3>2 DEF OfBlock, Sized
    <3> QED
      BY <3>2, <3>3 DEF AccFits, r, w, v
  <2> QED
    BY <2>1, <2>3, <2>4
<1>5. CASE kind # "bool"
  <2>1. w.packing \in {"CONST", "TABLE"} \cup Sized
    BY <1>1, <1>2, <1>5, PackingsAre DEF Sized
  <2>2. r = SetCurBlockInt(at, w)
    BY <1>1, <1>5 DEF SetCurBlock, at, w
  <2>3. CASE w.packing = "CONST"
    <3>1. r = [at EXCEPT !.const = w.body[1]]
      BY <2>2, <2>3 DEF SetCurBlockInt
    <3>2. DOMAIN r = AccFields /\ r.block = b /\ r.packing = w.packing /\ r.const = w.body[1]
      BY <1>3, <3>1 DEF AccFields
    <3> HIDE DEF r
    <3>3. OfBlock(w, v, r)
      BY <2>3, <3>2 DEF OfBlock, Sized
    <3> QED
      BY <3>2, <3>3 DEF AccFits, r, w, v
  <2>4. CASE w.packing = "TABLE"
    <3>1. r = [at EXCEPT !.table = Table(w), !.fixedId = -1]
      BY <2>2, <2>4 DEF SetCurBlockInt, Table
    <3>2. DOMAIN r = AccFields /\ r.block = b /\ r.packing = w.packing /\ r.fixedId = -1 /\ r.table = Table(w)
      BY <1>3, <3>1 DEF AccFields
    <3> HIDE DEF r
    <3>3. OfBlock(w, v, r)
      BY <2>4, <3>2 DEF OfBlock, Sized
    <3> QED
      BY <3>2, <3>3 DEF AccFits, r, w, v
  <2>5. CASE w.packing \in Sized
    <3>1. r = [at EXCEPT !.sizes = Sizes(w), !.sizedId = -1]
      BY <2>2, <2>5 DEF SetCurBlockInt, Sizes, Sized
    <3>2. DOMAIN r = AccFields /\ r.block = b /\ r.packing = w.packing /\ r.sizedId = -1 /\ r.sizes = Sizes(w)
      BY <1>3, <3>1 DEF AccFields
    <3> HIDE DEF r
    <3>3. OfBlock(w, v, r)
      BY <2>5, <3>2 DEF OfBlock, Sized
    <3> QED
      BY <3>2, <3>3 DEF AccFits, r, w, v
  <2> QED
    BY <2>1, <2>3, <2>4, <2>5
<1> QED
  BY <1>4, <1>5

\* The readers know the number of values of a sub-block.
LEMMA NumValuesIs ==
    ASSUME Numeric, NEW b \in Nat, b * DocsPerBlock < Len(docs), NEW a, a.block = b,
           NEW sb \in PartsOf(CutOf(case, b))
    PROVE  NumValues(a, sb) = CountIn(Len(CutOf(case, b)), sb)
<1> DEFINE v == CutOf(case, b)
           n == Len(v)
<1>1. case \in IntCases /\ docs = case.docs
  BY DEF Numeric, docs
<1>2. v \in Seq(Value) /\ n = GetNumDocs(Len(docs), b) /\ n \in 1..DocsPerBlock
  BY <1>1, CutIs
<1>3. n \in Nat /\ n <= DocsPerBlock
  BY <1>2, WordIs
<1> HIDE DEF v
<1>4. sb \in Nat /\ sb * SubblockSize < n
  BY <1>2, PartIs DEF v
<1> HIDE DEF n
<1>5. GetNumSubblockValues(n, sb) = CountIn(n, sb)
  BY <1>3, <1>4, SizeIs
<1>6. NumValues(a, sb) = GetNumSubblockValues(n, sb)
  BY <1>2 DEF NumValues
<1> QED
  BY <1>5, <1>6 DEF n, v

\* Moved to a sub-block, it has its values.
LEMMA EntersSubblock ==
    ASSUME Numeric, BlocksFit(case, blocks), NEW a, AccFits(case, blocks, a), NEW b, b # -1, a.block = b,
           NEW sb \in PartsOf(CutOf(case, b))
    PROVE  /\ AccFits(case, blocks, ReadSubblock(a, sb)) /\ HasRead(ReadSubblock(a, sb), sb)
           /\ ReadSubblock(a, sb).block = a.block /\ ReadSubblock(a, sb).packing = a.packing
           /\ ReadSubblock(a, sb).table = a.table /\ ReadSubblock(a, sb).const = a.const
<1> DEFINE w == blocks[b + 1]
           v == CutOf(case, b)
           r == ReadSubblock(a, sb)
<1>1. case \in IntCases /\ ~ IsVar /\ docs = case.docs
  BY CaseIs DEF Numeric, kind, IsVar, docs
<1>2. b \in 0..(Len(blocks) - 1) /\ DOMAIN a = AccFields /\ OfBlock(w, v, a)
  BY DEF AccFits
<1>3. w.packing \in Packings(case) /\ b \in Nat /\ b * DocsPerBlock < Len(docs) /\ w \in Block
  BY <1>1, <1>2, BlockFits
<1>4. w.packing \in {"CONST", "TABLE", "BITMAP"} \cup Sized
  BY <1>3, <1>1, PackingsAre DEF Sized
<1>5. NumValues(a, sb) = CountIn(Len(v), sb)
  BY <1>3, NumValuesIs
<1>6. r = ReadSubblockInt(a, sb) /\ a.packing = w.packing
  <2>1. r = ReadSubblockInt(a, sb)
    BY <1>1 DEF ReadSubblock, IsVar
  <2>2. a.packing = w.packing
    BY <1>2 DEF OfBlock
  <2> QED
    BY <2>1, <2>2
<1>7. sb \in Nat /\ sb # -1
  BY DEF PartsOf
<1>8. sb \in PartsOf(v)
  OBVIOUS
<1> HIDE DEF v
<1>9. CASE w.packing = "CONST"
  <2>1. r = a
    <3>1. a.packing = "CONST"
      BY <1>6, <1>9
    <3>2. r = ReadSubblockInt(a, sb)
      BY <1>6
    <3> HIDE DEF r
    <3> QED
      BY <3>1, <3>2 DEF ReadSubblockInt, IsFixed
  <2> QED
    BY <1>6, <1>9, <2>1 DEF HasRead, Sized
<1>10. CASE w.packing \in {"TABLE", "BITMAP"}
  <2>1. r = ReadFixedSubblock(a, sb)
    BY <1>6, <1>10 DEF ReadSubblockInt, IsFixed
  <2>2. CASE a.fixedId = sb
    <3>1. r = a
      BY <2>1, <2>2 DEF ReadFixedSubblock
    <3> QED
      BY <1>6, <1>10, <2>2, <3>1 DEF HasRead, Sized
  <2>3. CASE a.fixedId # sb
    <3>1. r = [a EXCEPT !.fixedId = sb, !.fixed = FixedPart(w, Len(v), sb)]
      BY <1>5, <2>1, <2>3 DEF ReadFixedSubblock, FixedPart
    <3>2. /\ DOMAIN r = AccFields /\ r.block = a.block /\ r.packing = a.packing /\ r.table = a.table
          /\ r.const = a.const /\ r.fixedId = sb /\ r.fixed = FixedPart(w, Len(v), sb)
      BY <1>2, <3>1 DEF AccFields
    <3> HIDE DEF r, w
    <3>3. OfBlock(w, v, r)
      BY <1>2, <1>8, <1>10, <3>2 DEF OfBlock, Sized
    <3>4. HasRead(r, sb)
      BY <1>6, <1>10, <3>2 DEF HasRead, Sized
    <3> QED
      BY <1>2, <3>2, <3>3, <3>4 DEF AccFits, r, v, w
  <2> QED
    BY <2>2, <2>3
<1>11. CASE w.packing \in Sized
  <2>1. r = ReadSizedSubblock(a, sb)
    BY <1>6, <1>11 DEF ReadSubblockInt, IsFixed, Sized
  <2>2. CASE a.sizedId = sb
    <3>1. r = a
      BY <2>1, <2>2 DEF ReadSizedSubblock
    <3> QED
      BY <1>6, <1>11, <2>2, <3>1 DEF HasRead, Sized
  <2>3. CASE a.sizedId # sb
    <3>1. a.sizes = Sizes(w) /\ a.packing = w.packing
      BY <1>2, <1>11 DEF OfBlock
    <3>2. r = [a EXCEPT !.sizedId = sb, !.sized = SizedPart(w, Len(v), sb)]
      BY <1>5, <2>1, <2>3, <3>1 DEF ReadSizedSubblock, SizedPart
    <3>3. /\ DOMAIN r = AccFields /\ r.block = a.block /\ r.packing = a.packing /\ r.table = a.table
          /\ r.const = a.const /\ r.sizes = a.sizes /\ r.sizedId = sb /\ r.sized = SizedPart(w, Len(v), sb)
      BY <1>2, <3>2 DEF AccFields
    <3> HIDE DEF r, w
    <3>4. OfBlock(w, v, r)
      BY <1>2, <1>8, <1>11, <3>1, <3>3 DEF OfBlock, Sized
    <3>5. HasRead(r, sb)
      BY <1>6, <1>11, <3>3 DEF HasRead, Sized
    <3> QED
      BY <1>2, <3>3, <3>4, <3>5 DEF AccFits, r, v, w
  <2> QED
    BY <2>2, <2>3
<1> QED
  BY <1>4, <1>9, <1>10, <1>11

\* A value that was read is the one that was written.
LEMMA ReadsRight ==
    ASSUME NEW c \in IntCases, NEW bs, BlocksFit(c, bs), NEW a, AccFits(c, bs, a), NEW b, b # -1, a.block = b,
           NEW sb \in PartsOf(CutOf(c, b)), HasRead(a, sb), NEW i \in 1..CountIn(Len(CutOf(c, b)), sb)
    PROVE  Reads(a, i, CutOf(c, b)[sb * SubblockSize + i])
<1> DEFINE w == bs[b + 1]
           v == CutOf(c, b)
           n == Len(v)
           m == CountIn(n, sb)
           x == v[sb * SubblockSize + i]
           p == Part(v, sb)
<1>1. b \in 0..(Len(bs) - 1) /\ OfBlock(w, v, a)
  BY DEF AccFits
<1>2. b \in Nat /\ b * DocsPerBlock < Len(c.docs) /\ WellWritten(w, v)
  BY <1>1, BlockFits
<1>3. v \in Seq(Value) /\ n \in 1..DocsPerBlock
  BY <1>2, CutIs
<1>4. /\ m \in 1..SubblockSize /\ sb * SubblockSize \in Nat /\ sb * SubblockSize + m <= n
      /\ p \in Seq(Value) /\ Len(p) = m /\ p[i] = x
  BY <1>3, PartIs
<1>5. i \in 1..m /\ sb \in PartsOf(v) /\ sb # -1
  BY DEF PartsOf
<1>6. sb * SubblockSize + i \in 1..n
  <2> DEFINE y == sb * SubblockSize
  <2>1. y \in Nat /\ y + m <= n /\ m \in Nat /\ n \in Nat
    BY <1>3, <1>4, WordIs
  <2> HIDE DEF y, m, n
  <2> QED
    BY <1>5, <2>1 DEF y
<1> HIDE DEF w, v, n, m, x, p
<1>7. a.packing = w.packing
  BY <1>1 DEF OfBlock
<1>8. a.packing = "CONST" => a.const = x
  <2> SUFFICES ASSUME a.packing = "CONST" PROVE a.const = x
    OBVIOUS
  <2>1. a.const = w.body[1]
    BY <1>1, <1>7 DEF OfBlock
  <2>2. x = w.body[1]
    BY <1>2, <1>6, <1>7 DEF WellWritten, x, n
  <2> QED
    BY <2>1, <2>2
<1>9. a.packing = "TABLE" => a.fixed[i] \in 0..(Len(a.table) - 1) /\ a.table[a.fixed[i] + 1] = x
  <2> SUFFICES ASSUME a.packing = "TABLE"
               PROVE  a.fixed[i] \in 0..(Len(a.table) - 1) /\ a.table[a.fixed[i] + 1] = x
    OBVIOUS
  <2>1. a.fixedId = sb
    BY DEF HasRead
  <2>2. a.table = Table(w) /\ a.fixed = FixedPart(w, n, sb)
    BY <1>1, <1>5, <1>7, <2>1 DEF OfBlock, n
  <2>3. Names(FixedPart(w, n, sb), Table(w), p)
    BY <1>2, <1>5, <1>7 DEF WellWritten, n, p
  <2> QED
    BY <1>4, <1>5, <2>2, <2>3 DEF Names
<1>10. a.packing = "BITMAP" => a.fixed[i] = x
  <2> SUFFICES ASSUME a.packing = "BITMAP" PROVE a.fixed[i] = x
    OBVIOUS
  <2>1. a.fixedId = sb
    BY DEF HasRead
  <2>2. a.fixed = FixedPart(w, n, sb)
    BY <1>1, <1>5, <1>7, <2>1 DEF OfBlock, n
  <2>3. FixedPart(w, n, sb) = p
    BY <1>2, <1>5, <1>7 DEF WellWritten, n, p
  <2> QED
    BY <1>4, <2>2, <2>3
<1>11. a.packing \in Sized => a.sized[i] = x
  <2> SUFFICES ASSUME a.packing \in Sized PROVE a.sized[i] = x
    OBVIOUS
  <2>1. a.sizedId = sb
    BY DEF HasRead
  <2>2. a.sized = SizedPart(w, n, sb)
    BY <1>1, <1>5, <1>7, <2>1 DEF OfBlock, n
  <2>3. SizedPart(w, n, sb) = p
    BY <1>2, <1>5, <1>7 DEF WellWritten, n, p
  <2> QED
    BY <1>4, <2>2, <2>3
<1>12. Reads(a, i, x)
  BY <1>8, <1>9, <1>10, <1>11 DEF Reads
<1> QED
  BY <1>12 DEF x, v

\* The reader before and beside the walk of an analyzer: an accessor that has not
\* been used yet is of no block, and what an iterator returned last is right.
ReaderFits ==
    /\ pc = "off" => AccFits(case, blocks, acc) /\ (use # "iterate" => acc.block = -1)
    /\ use # "analyze" => pc = "off"
    /\ got.row # -1 => /\ use = "iterate" /\ got.row \in 0..(Len(docs) - 1)
                       /\ got.what = "value" /\ got.is = StoredIn(case, case.docs[got.row + 1])

\* Every block of the column is in the file when it is read.
LEMMA AllBlocks ==
    ASSUME Numeric, PackerFits, use # "build", NEW b \in Nat
    PROVE  b * DocsPerBlock < Len(docs) <=> b \in 0..(Len(blocks) - 1)
<1>1. docs = case.docs /\ Len(docs) \in Nat /\ DocsPerBlock \in Nat \ {0}
  BY CaseIs, WordIs DEF Numeric, docs
<1>2. Len(blocks) = Ceil(Len(docs), DocsPerBlock)
  BY DEF PackerFits
<1> DEFINE c == Ceil(Len(docs), DocsPerBlock)
<1>3. c \in Nat /\ (b < c <=> b * DocsPerBlock < Len(docs))
  BY <1>1, CeilIs
<1> HIDE DEF c
<1>4. b < c <=> b \in 0..(c - 1)
  BY <1>3
<1> QED
  BY <1>2, <1>3, <1>4 DEF c

\* Get returns the document of the row.
LEMMA GetFits ==
    ASSUME Numeric, PackerFits, ReaderFits, NEW row \in 0..(Len(docs) - 1), Get(row)
    PROVE  /\ AccFits(case, blocks, acc') /\ acc'.block # -1
           /\ got'.row = row /\ got'.what = "value" /\ got'.is = StoredIn(case, case.docs[row + 1])
<1> DEFINE b == RowId2BlockId(row)
           off == row - BlockId2RowId(b)
           sb == GetSubblockId(off)
           i == GetValueIdInSubblock(off) + 1
           v == CutOf(case, b)
           at == IF b = acc.block THEN acc ELSE SetCurBlock(acc, b)
           a == ReadSubblock(at, sb)
           x == StoredIn(case, case.docs[row + 1])
<1>1. case \in IntCases /\ kind = case.kind /\ docs = case.docs /\ kind \in {"int", "hash", "bool"} /\ ~ IsVar
  BY CaseIs DEF Numeric, kind, IsVar, docs
<1>2. use = "iterate" /\ pc = "off" /\ AccFits(case, blocks, acc) /\ BlocksFit(case, blocks)
  BY DEF Get, ReaderFits, PackerFits
<1>3. a = AdvanceTo(row) /\ i = Place(row)
  BY DEF AdvanceTo, Place
<1>4. acc' = a /\ got' = [row |-> row, what |-> "value",
                          is |-> IF kind = "bool" THEN ReadValueBool(a, i) ELSE ReadValueInt(a, i)]
  <2> HIDE DEF a, i
  <2>1. CASE kind = "bool"
    BY <1>3, <2>1 DEF Get
  <2>2. CASE kind # "bool"
    <3>1. kind \in {"int", "hash"}
      BY <1>1, <2>2
    <3> QED
      BY <1>3, <2>2, <3>1 DEF Get
  <2> QED
    BY <2>1, <2>2
<1>5. /\ b \in Nat /\ b * DocsPerBlock < Len(docs) /\ sb \in PartsOf(v) /\ i \in 1..CountIn(Len(v), sb)
      /\ v[sb * SubblockSize + i] = x
  <2>1. Finds(row, b, sb, i)
    BY DEF Finds
  <2> DEFINE b1 == b
             sb1 == sb
             i1 == i
  <2> HIDE DEF b1, sb1, i1
  <2>2. Finds(row, b1, sb1, i1)
    BY <2>1 DEF b1, sb1, i1
  <2>3. row \in 0..(Len(case.docs) - 1)
    BY <1>1
  <2>4. /\ b1 \in Nat /\ b1 * DocsPerBlock < Len(case.docs)
        /\ sb1 \in PartsOf(CutOf(case, b1)) /\ i1 \in 1..CountIn(Len(CutOf(case, b1)), sb1)
        /\ CutOf(case, b1)[sb1 * SubblockSize + i1] = StoredIn(case, case.docs[row + 1])
    BY <1>1, <2>2, <2>3, RowIs
  <2> QED
    BY <1>1, <2>4 DEF b1, sb1, i1
<1> HIDE DEF b, sb, i, x
<1>6. b \in 0..(Len(blocks) - 1) /\ b # -1
  BY <1>2, <1>5, AllBlocks
<1>7. AccFits(case, blocks, at) /\ at.block = b
  <2>1. CASE b = acc.block
    BY <1>2, <2>1
  <2>2. CASE b # acc.block
    <3>1. DOMAIN acc = AccFields
      BY <1>2 DEF AccFits
    <3> QED
      BY <1>2, <1>6, <2>2, <3>1, EntersBlock
  <2> QED
    BY <2>1, <2>2
<1> HIDE DEF at
<1>8. AccFits(case, blocks, a) /\ HasRead(a, sb) /\ a.block = b
  BY <1>2, <1>5, <1>6, <1>7, EntersSubblock
<1> HIDE DEF a
<1>9. Reads(a, i, x)
  <2>1. Reads(a, i, CutOf(case, b)[sb * SubblockSize + i])
    BY <1>1, <1>2, <1>5, <1>6, <1>8, ReadsRight
  <2> QED
    BY <1>5, <2>1
<1>10. a.packing \in Packings(case)
  <2>1. blocks[b + 1].packing \in Packings(case)
    BY <1>1, <1>2, <1>6, BlockFits
  <2>2. OfBlock(blocks[b + 1], v, a)
    BY <1>6, <1>8 DEF AccFits
  <2> QED
    BY <2>1, <2>2 DEF OfBlock
<1>11. (IF kind = "bool" THEN ReadValueBool(a, i) ELSE ReadValueInt(a, i)) = x
  <2>1. CASE kind = "bool"
    <3>1. a.packing \in {"CONST", "BITMAP"}
      BY <1>1, <1>10, <2>1, PackingsAre
    <3>2. ReadValueBool(a, i) = x
      BY <1>9, <3>1 DEF ReadValueBool, Reads
    <3> QED
      BY <2>1, <3>2
  <2>2. CASE kind # "bool"
    <3>1. a.packing \in {"CONST", "TABLE", "DELTA", "GENERIC", "HASH"}
      BY <1>1, <1>10, <2>2, PackingsAre
    <3>2. ReadValueInt(a, i) = x
      BY <1>9, <3>1 DEF ReadValueInt, Reads, Sized
    <3> QED
      BY <2>2, <3>2
  <2> QED
    BY <2>1, <2>2
<1>12. got'.row = row /\ got'.what = "value" /\ got'.is = x
  BY <1>4, <1>11
<1> QED
  BY <1>4, <1>6, <1>8, <1>12 DEF x

\* Nothing is read yet.
LEMMA ReaderStarts ==
    ASSUME Init, Numeric
    PROVE  ReaderFits
<1>1. acc = NoAccess /\ use = "build" /\ got = [row |-> NoBlock, what |-> "value", is |-> 0] /\ pc = "off"
      /\ blocks = << >>
  BY DEF Init, NotSetUp
<1>2. DOMAIN acc = AccFields /\ acc.block = -1
  BY <1>1 DEF NoAccess, AccFields, NoBlock
<1>3. acc.block \in -1..(Len(blocks) - 1)
  BY <1>1, <1>2
<1>4. AccFits(case, blocks, acc)
  BY <1>2, <1>3 DEF AccFits
<1>5. got.row = -1
  BY <1>1 DEF NoBlock
<1> QED
  BY <1>1, <1>2, <1>4, <1>5 DEF ReaderFits

\* The walk of an analyzer is not begun again.
LEMMA WalkOn ==
    ASSUME EnterBlock \/ ProcessSubblock \/ Walk \/ Hint
    PROVE  pc # "off" /\ pc' # "off"
<1>1. \A ok, rows : (pc # "off" /\ Resumed(ok, rows)) => pc' # "off"
  BY DEF Resumed, Delivered
<1>2. \A sb, rows : (pc # "off" /\ MoveToSubblock(sb, rows)) => pc' # "off"
  <2> SUFFICES ASSUME NEW sb, NEW rows, pc # "off", MoveToSubblock(sb, rows) PROVE pc' # "off"
    OBVIOUS
  <2>1. (\E ok : Resumed(ok, rows)) \/ pc' = "move"
    BY DEF MoveToSubblock
  <2> QED
    BY <1>1, <2>1
<1>3. CASE EnterBlock
  <2>1. pc = "move" /\ \E accepted, hopeless : MoveToBlock(accepted, hopeless)
    BY <1>3 DEF EnterBlock
  <2>2. (\E ok, rows : Resumed(ok, rows)) \/ pc' = pc
    BY <2>1 DEF MoveToBlock
  <2> QED
    BY <1>1, <2>1, <2>2
<1>4. CASE ProcessSubblock
  <2>1. pc = "scan" /\ \E rows : Scanned(rows)
    BY <1>4 DEF ProcessSubblock
  <2> QED
    BY <1>2, <2>1 DEF Scanned
<1>5. CASE Walk
  <2>1. CASE Go
    BY <1>2, <2>1 DEF Go
  <2>2. CASE GetNextRowIdBlock
    BY <2>2 DEF GetNextRowIdBlock, Delivered
  <2> QED
    BY <1>5, <2>1, <2>2 DEF Walk
<1>6. CASE Hint
  BY <1>6 DEF Hint, HintRowID
<1> QED
  BY <1>3, <1>4, <1>5, <1>6

\* No step makes the accessor differ from the block and the sub-block it has read.
LEMMA ReaderStep ==
    ASSUME Numeric, PackerFits, ReaderFits, [Next]_vars
    PROVE  ReaderFits'
<1>1. case \in IntCases /\ ~ IsVar /\ docs = case.docs
  BY CaseIs DEF Numeric, kind, IsVar, docs
<1>2. ASSUME UNCHANGED <<case, use, acc, got, scanVars>>, acc.block = -1 \/ blocks' = blocks, blocks' \in Seq(Block)
      PROVE  ReaderFits'
  <2>1. case' = case /\ use' = use /\ acc' = acc /\ got' = got /\ pc' = pc
    BY <1>2 DEF scanVars
  <2>2. docs' = docs
    BY <2>1 DEF docs
  <2>3. AccFits(case, blocks, acc) => AccFits(case, blocks', acc)
    BY <1>2 DEF AccFits
  <2> QED
    BY <2>1, <2>2, <2>3 DEF ReaderFits
<1>3. CASE AddDoc \/ Done
  <2>1. case' = case /\ acc' = acc /\ got' = got /\ pc' = pc /\ use = "build"
    BY <1>3 DEF AddDoc, Done, scanVars
  <2>2. pc = "off" /\ AccFits(case, blocks, acc) /\ acc.block = -1 /\ got.row = -1
    BY <2>1 DEF ReaderFits
  <2>3. blocks' \in Seq(Block)
    <3>1. PackerFits'
      BY <1>3, AddDocFits, DoneFits
    <3> QED
      BY <3>1 DEF PackerFits, BlocksFit
  <2>4. acc.block \in -1..(Len(blocks') - 1)
    BY <2>2, <2>3
  <2>5. AccFits(case', blocks', acc')
    BY <2>1, <2>2, <2>4 DEF AccFits
  <2> QED
    BY <2>1, <2>2, <2>5 DEF ReaderFits
<1>4. ASSUME NEW row \in 0..(Len(docs) - 1), Get(row)
      PROVE  ReaderFits'
  <2>1. /\ AccFits(case, blocks, acc') /\ acc'.block # -1
        /\ got'.row = row /\ got'.what = "value" /\ got'.is = StoredIn(case, case.docs[row + 1])
    BY <1>4, GetFits
  <2>2. case' = case /\ blocks' = blocks /\ use' = use /\ use = "iterate" /\ pc' = pc /\ docs' = docs
    BY <1>4 DEF Get, packer, scanVars, docs
  <2>3. pc = "off"
    BY <2>2 DEF ReaderFits
  <2> QED
    BY <2>1, <2>2, <2>3 DEF ReaderFits
<1>5. CASE Analyze \/ EnterBlock \/ ProcessSubblock \/ ((Walk \/ Hint) /\ UNCHANGED <<case, packer, use, acc, tab, got>>)
  <2>1. case' = case /\ use' = use /\ got' = got
    BY <1>5 DEF Analyze, EnterBlock, ProcessSubblock
  <2>2. pc' # "off" /\ use = "analyze"
    <3>1. CASE Analyze
      BY <3>1 DEF Analyze, Setup
    <3>2. CASE ~ Analyze
      <4>1. pc # "off" /\ pc' # "off"
        BY <1>5, <3>2, WalkOn
      <4> QED
        BY <4>1 DEF ReaderFits, PackerFits
    <3> QED
      BY <3>1, <3>2
  <2>3. got.row = -1
    BY <2>2 DEF ReaderFits
  <2> QED
    BY <2>1, <2>2, <2>3 DEF ReaderFits
<1>6. CASE UNCHANGED vars
  <2>1. UNCHANGED <<case, packer, use, acc, tab, got, scanVars>>
    BY <1>6 DEF vars
  <2>2. blocks' = blocks /\ blocks \in Seq(Block)
    BY <2>1 DEF packer, PackerFits, BlocksFit
  <2> QED
    BY <1>2, <2>1, <2>2
<1>7. ASSUME NEW row, GetLength(row) PROVE FALSE
  BY <1>1, <1>7 DEF GetLength
<1> QED
  BY <1>3, <1>4, <1>5, <1>6, <1>7 DEF Next

\* No step makes the blocks differ from the documents.
LEMMA PackerStep ==
    ASSUME Numeric, PackerFits, [Next]_vars
    PROVE  PackerFits'
<1>1. CASE UNCHANGED vars
  <2>1. UNCHANGED <<case, packer, use>>
    BY <1>1 DEF vars
  <2> QED
    BY <2>1, PackerRests
<1>2. ASSUME NEW row, Get(row) \/ GetLength(row)
      PROVE  PackerFits'
  <2>1. UNCHANGED <<case, packer, use>>
    BY <1>2 DEF Get, GetLength
  <2> QED
    BY <2>1, PackerRests
<1>3. CASE Analyze \/ EnterBlock \/ ProcessSubblock \/ ((Walk \/ Hint) /\ UNCHANGED <<case, packer, use, acc, tab, got>>)
  <2>1. UNCHANGED <<case, packer, use>>
    BY <1>3 DEF Analyze, EnterBlock, ProcessSubblock
  <2> QED
    BY <2>1, PackerRests
<1> QED
  BY <1>1, <1>2, <1>3, AddDocFits, DoneFits DEF Next

\* The column stays what it is.
LEMMA CaseStays ==
    ASSUME [Next]_vars
    PROVE  case' = case
BY DEF Next, vars, AddDoc, Done, Get, GetLength, Analyze, EnterBlock, ProcessSubblock

\* The inductive invariant of the packer and the accessor.
FileInv == Numeric => PackerFits /\ ReaderFits

\* The blocks in the file and what the accessor keeps of them fit the documents at all times.
LEMMA FileInvariant == Spec => []FileInv
<1>1. Init => FileInv
  BY PackerStarts, ReaderStarts DEF FileInv
<1>2. FileInv /\ [Next]_vars => FileInv'
  <2> SUFFICES ASSUME FileInv, [Next]_vars, Numeric' PROVE PackerFits' /\ ReaderFits'
    BY DEF FileInv
  <2>1. Numeric
    BY CaseStays DEF Numeric
  <2> QED
    BY <2>1, PackerStep, ReaderStep DEF FileInv
<1> QED
  BY <1>1, <1>2, PTL DEF Spec

\* Whatever the packing of its block, and in whatever order its rows are read, an
\* integer, a hash or a boolean comes out of the iterator as it went into the packer.
THEOREM NumbersReadBack == Spec => [](Numeric => GetsWhatWasAdded)
<1>1. FileInv => (Numeric => GetsWhatWasAdded)
  <2> SUFFICES ASSUME FileInv, Numeric, got.row # NoBlock
               PROVE  got.what = "value" /\ got.is = Stored(docs[got.row + 1])
    BY DEF GetsWhatWasAdded
  <2>1. got.what = "value" /\ got.is = StoredIn(case, case.docs[got.row + 1])
    BY DEF FileInv, ReaderFits, NoBlock
  <2> QED
    BY <2>1 DEF Stored, StoredIn, kind, docs
<1> QED
  BY <1>1, FileInvariant, PTL

-----------------------------------------------------------------------------
(* The filters. *)

\* The values that pass a filter, and the rows that have them.
InRangeOf(f, v) ==
    /\ f.leftUnbounded \/ (IF f.leftClosed THEN v >= f.min ELSE v > f.min)
    /\ f.rightUnbounded \/ (IF f.rightClosed THEN v <= f.max ELSE v < f.max)

Taken(c) ==
    LET f == c.filter
    IN  IF f.type = "RANGE" THEN {v \in Value : InRangeOf(f, v)}
        ELSE IF c.kind = "bool"
        THEN {v \in Value : (\E i \in DOMAIN f.values : (f.values[i] # 0) = (v # 0)) # f.exclude}
        ELSE {v \in Value : (v \in ToSet(f.values)) # f.exclude}

RowsTaken(c) == {r \in 0..(Len(c.docs) - 1) : StoredIn(c, c.docs[r + 1]) \in Taken(c)}

\* The code takes a list of two to LinearLimit excluded values wrong.
Sound == ~(kind # "bool" /\ Excludes /\ Len(filter.values) \in 2..LinearLimit)

\* The filters of integers, hashes and booleans: a range, or a list of different values.
LEMMA FilterIs ==
    ASSUME NEW c \in IntCases
    PROVE  \/ c.filter.type = "RANGE"
           \/ /\ c.filter.type # "RANGE" /\ c.filter.type = "VALUES"
              /\ c.filter.values \in Seq(Nat) /\ c.filter.values # << >> /\ IsInjective(c.filter.values)
              /\ Len(c.filter.values) \in Nat \ {0} /\ c.filter.exclude \in BOOLEAN
<1> DEFINE f == c.filter
<1>1. f \in Filter /\ (f.type = "VALUES" => IsInjective(f.values) /\ f.values # << >>)
  BY CaseIs
<1> HIDE DEF f
<1>2. CASE f \in [type : {"VALUES"}, values : Seq(Nat), exclude : BOOLEAN]
  <2>1. f.type = "VALUES" /\ f.values \in Seq(Nat) /\ f.exclude \in BOOLEAN
    BY <1>2
  <2> DEFINE u == f.values
  <2> HIDE DEF u
  <2>2. u \in Seq(Nat) /\ u # << >>
    BY <1>1, <2>1 DEF u
  <2>3. Len(u) \in Nat \ {0}
    BY <2>2
  <2> QED
    BY <1>1, <2>1, <2>3 DEF f, u
<1>3. CASE f \notin [type : {"VALUES"}, values : Seq(Nat), exclude : BOOLEAN]
  <2>1. f.type = "RANGE"
    BY <1>1, <1>3 DEF Filter
  <2> QED
    BY <2>1 DEF f
<1> QED
  BY <1>2, <1>3

\* What the code asks of a value.
LEMMA TakenIs ==
    ASSUME Numeric, NEW v \in Value
    PROVE  /\ kind = "bool" => (AcceptsBool(v) <=> v \in Taken(case))
           /\ kind # "bool" => (Accepts(v) <=> v \in Taken(case))
<1>1. filter = case.filter /\ kind = case.kind
  BY DEF filter, kind
<1> DEFINE f == case.filter
<1>2. CASE f.type = "RANGE"
  <2>1. v \in Taken(case) <=> InRangeOf(f, v)
    BY <1>2 DEF Taken
  <2>2. AcceptsBool(v) <=> InRangeOf(f, v)
    BY <1>1, <1>2 DEF AcceptsBool, IsRange, InRange, InRangeOf
  <2>3. Accepts(v) <=> InRangeOf(f, v)
    BY <1>1, <1>2 DEF Accepts, IsRange, InRange, InRangeOf
  <2> QED
    BY <2>1, <2>2, <2>3
<1>3. CASE f.type # "RANGE"
  <2>1. CASE kind = "bool"
    <3>1. v \in Taken(case) <=> (\E i \in DOMAIN f.values : (f.values[i] # 0) = (v # 0)) # f.exclude
      BY <1>1, <1>3, <2>1 DEF Taken
    <3>2. AcceptsBool(v) <=> (\E i \in DOMAIN f.values : (f.values[i] # 0) = (v # 0)) # f.exclude
      BY <1>1, <1>3 DEF AcceptsBool, IsRange
    <3> QED
      BY <2>1, <3>1, <3>2
  <2>2. CASE kind # "bool"
    <3>1. v \in Taken(case) <=> (v \in ToSet(f.values)) # f.exclude
      BY <1>1, <1>3, <2>2 DEF Taken
    <3>2. Accepts(v) <=> (v \in ToSet(f.values)) # f.exclude
      BY <1>1, <1>3 DEF Accepts, IsRange
    <3> QED
      BY <2>2, <3>1, <3>2
  <2> QED
    BY <2>1, <2>2
<1> QED
  BY <1>2, <1>3

\* The rows a caller asks for are those whose stored value passes.
LEMMA AnswerIs ==
    ASSUME Numeric
    PROVE  Answer = RowsTaken(case)
<1>1. case \in IntCases /\ docs = case.docs /\ kind = case.kind /\ kind \in {"int", "hash", "bool"}
      /\ Len(docs) \in Nat
  BY CaseIs DEF Numeric, docs, kind
<1>2. ASSUME NEW r \in 0..(Len(docs) - 1)
      PROVE  AsksFor(docs[r + 1]) <=> StoredIn(case, case.docs[r + 1]) \in Taken(case)
  <2> DEFINE v == docs[r + 1]
             x == StoredIn(case, v)
  <2>1. r + 1 \in 1..Len(case.docs)
    BY <1>1
  <2>2. x \in Value
    BY <1>1, <2>1, StoredType
  <2>3. CASE kind = "bool"
    <3>1. AsksFor(v) <=> AcceptsBool(StoredBool(v))
      BY <2>3 DEF AsksFor
    <3>2. x = StoredBool(v)
      BY <1>1, <2>3 DEF StoredIn
    <3> HIDE DEF v, x
    <3>3. AcceptsBool(x) <=> x \in Taken(case)
      BY <2>2, <2>3, TakenIs
    <3> QED
      BY <1>1, <3>1, <3>2, <3>3 DEF v, x
  <2>4. CASE kind # "bool"
    <3>1. AsksFor(v) <=> Accepts(v)
      BY <1>1, <2>4 DEF AsksFor
    <3>2. x = v
      BY <1>1, <2>4 DEF StoredIn
    <3> HIDE DEF v, x
    <3>3. Accepts(x) <=> x \in Taken(case)
      BY <2>2, <2>4, TakenIs
    <3> QED
      BY <1>1, <3>1, <3>2, <3>3 DEF v, x
  <2> QED
    BY <2>3, <2>4
<1>3. Answer = {r \in 0..(Len(docs) - 1) : AsksFor(docs[r + 1])}
  BY DEF Answer
<1>4. RowsTaken(case) = {r \in 0..(Len(docs) - 1) : StoredIn(case, case.docs[r + 1]) \in Taken(case)}
  BY <1>1 DEF RowsTaken
<1> QED
  BY <1>2, <1>3, <1>4

-----------------------------------------------------------------------------
(* The sub-blocks of a walk. *)

\* Number i of the sub-blocks, of those that match or of all.
BlockAt(pm, i) == IF pm = Everything THEN i ELSE pm[i + 1]

Listed(c, pm, sb) == IF pm = Everything THEN sb * SubblockSize < Len(c.docs) ELSE sb \in ToSet(pm)

\* They are sub-blocks of the column, in ascending order.
ListFits(c, pm, n) ==
    /\ n \in Nat
    /\ \A i \in 0..(n - 1) : BlockAt(pm, i) \in Nat /\ BlockAt(pm, i) * SubblockSize < Len(c.docs)
                             /\ Listed(c, pm, BlockAt(pm, i))
    /\ \A i, j \in 0..(n - 1) : i < j => BlockAt(pm, i) < BlockAt(pm, j)
    /\ \A sb \in Nat : Listed(c, pm, sb) => \E i \in 0..(n - 1) : BlockAt(pm, i) = sb

\* The sub-blocks an analyzer is set up with are those of the column, or those it was given.
LEMMA ListStarts ==
    ASSUME Numeric, NEW m \in Matchings, m # Everything => Inside(m)
    PROVE  ListFits(case, m, IF m = Everything THEN Ceil(Len(docs), SubblockSize) ELSE Len(m))
<1> DEFINE N == Len(docs)
           c == Ceil(N, SubblockSize)
           n == IF m = Everything THEN c ELSE Len(m)
<1>1. case \in IntCases /\ docs = case.docs /\ N \in Nat
  BY CaseIs DEF Numeric, docs
<1>2. SubblockSize \in Nat \ {0}
  BY WordIs
<1>3. c \in Nat /\ \A i \in Nat : i * SubblockSize \in Nat /\ (i < c <=> i * SubblockSize < N)
  BY <1>1, <1>2, CeilIs
<1> HIDE DEF c
<1>4. CASE m = Everything
  <2>1. n = c
    BY <1>4
  <2>2. \A i : BlockAt(m, i) = i
    BY <1>4 DEF BlockAt
  <2>3. \A sb : Listed(case, m, sb) <=> sb * SubblockSize < N
    BY <1>1, <1>4 DEF Listed
  <2>4. \A i \in 0..(c - 1) : i \in Nat /\ i < c
    BY <1>3
  <2>5. \A i \in 0..(c - 1) : i \in Nat /\ i * SubblockSize < N
    BY <1>3, <2>4
  <2>6. \A i \in 0..(n - 1) : BlockAt(m, i) \in Nat /\ BlockAt(m, i) * SubblockSize < Len(case.docs)
                              /\ Listed(case, m, BlockAt(m, i))
    BY <1>1, <2>1, <2>2, <2>3, <2>5
  <2>7. \A sb \in Nat : Listed(case, m, sb) => \E i \in 0..(n - 1) : BlockAt(m, i) = sb
    <3> SUFFICES ASSUME NEW sb \in Nat, Listed(case, m, sb) PROVE sb \in 0..(n - 1)
      BY <2>2
    <3>1. sb < c
      BY <1>3, <2>3
    <3> QED
      BY <1>3, <2>1, <3>1
  <2>8. \A i, j \in 0..(n - 1) : i < j => BlockAt(m, i) < BlockAt(m, j)
    BY <2>2
  <2> HIDE DEF n
  <2> QED
    BY <1>3, <2>1, <2>6, <2>7, <2>8 DEF ListFits, n, c, N
<1>5. CASE m # Everything
  <2>1. m \in Seq(Nat) /\ \A i, j \in DOMAIN m : i < j => m[i] < m[j]
    BY <1>5, BaseAssumption
  <2>2. n = Len(m) /\ Len(m) \in Nat /\ DOMAIN m = 1..Len(m)
    BY <1>5, <2>1
  <2>3. \A i : BlockAt(m, i) = m[i + 1]
    BY <1>5 DEF BlockAt
  <2>4. \A sb : Listed(case, m, sb) <=> sb \in ToSet(m)
    BY <1>5 DEF Listed
  <2>5. \A sb : sb \in ToSet(m) <=> \E i \in 1..Len(m) : m[i] = sb
    BY <2>1, FewValues
  <2>6. \A i \in 1..Len(m) : m[i] \in Nat /\ m[i] < c
    BY <1>5, <2>1, <2>2 DEF Inside, c, N
  <2>7. ASSUME NEW i \in 0..(n - 1)
        PROVE  /\ BlockAt(m, i) \in Nat /\ BlockAt(m, i) * SubblockSize < Len(case.docs)
               /\ Listed(case, m, BlockAt(m, i))
    <3>1. i + 1 \in 1..Len(m)
      BY <2>2
    <3>2. m[i + 1] \in Nat /\ m[i + 1] < c /\ m[i + 1] \in ToSet(m)
      BY <2>5, <2>6, <3>1
    <3>3. m[i + 1] * SubblockSize < N
      BY <1>3, <3>2
    <3> QED
      BY <1>1, <2>3, <2>4, <3>2, <3>3
  <2>8. ASSUME NEW sb \in Nat, Listed(case, m, sb)
        PROVE  \E i \in 0..(n - 1) : BlockAt(m, i) = sb
    <3>1. PICK i \in 1..Len(m) : m[i] = sb
      BY <2>4, <2>5, <2>8
    <3>2. i - 1 \in 0..(n - 1) /\ i - 1 + 1 = i
      BY <2>2
    <3>3. BlockAt(m, i - 1) = m[i - 1 + 1]
      BY <2>3
    <3> QED
      BY <3>1, <3>2, <3>3
  <2>9. ASSUME NEW i \in 0..(n - 1), NEW j \in 0..(n - 1), i < j
        PROVE  BlockAt(m, i) < BlockAt(m, j)
    <3>1. i + 1 \in DOMAIN m /\ j + 1 \in DOMAIN m /\ i + 1 < j + 1
      BY <2>2, <2>9
    <3> QED
      BY <2>1, <2>3, <3>1
  <2> HIDE DEF n
  <2>10. n \in Nat
    BY <2>2
  <2> QED
    BY <2>7, <2>8, <2>9, <2>10 DEF ListFits, n, c, N
<1> QED
  BY <1>4, <1>5

\* The sub-block of a row is where it is, and lower sub-blocks have lower rows.
LEMMA SubblockOf ==
    ASSUME NEW r \in Nat
    PROVE  /\ GetSubblockId(r) \in Nat /\ GetSubblockId(r) * SubblockSize \in Nat
           /\ GetSubblockId(r) * SubblockSize <= r /\ r < GetSubblockId(r) * SubblockSize + SubblockSize
BY WordIs, Quotient DEF GetSubblockId

\* Rows of a lower sub-block are lower.
LEMMA RowsInOrder ==
    ASSUME NEW r \in Nat, NEW s \in Nat
    PROVE  /\ GetSubblockId(r) < GetSubblockId(s) => r < s
           /\ r <= s => GetSubblockId(r) <= GetSubblockId(s)
<1> DEFINE p == GetSubblockId(r)
           q == GetSubblockId(s)
           x == p * SubblockSize
           y == q * SubblockSize
<1>1. p \in Nat /\ x \in Nat /\ x <= r /\ r < x + SubblockSize
  BY SubblockOf
<1>2. q \in Nat /\ y \in Nat /\ y <= s /\ s < y + SubblockSize
  BY SubblockOf
<1>3. SubblockSize \in Nat
  BY WordIs
<1> HIDE DEF p, q
<1>4. p < q => x + SubblockSize <= y
  BY <1>1, <1>2, <1>3, MultiplesApart
<1>5. q < p => y + SubblockSize <= x
  BY <1>1, <1>2, <1>3, MultiplesApart
<1> HIDE DEF x, y
<1>6. (p < q => r < s) /\ (r <= s => p <= q)
  BY <1>1, <1>2, <1>3, <1>4, <1>5
<1> QED
  BY <1>6 DEF p, q

\* A sub-block of the column is one of its block.
LEMMA SubblockInBlock ==
    ASSUME NEW sb \in Nat
    PROVE  /\ SubblockId2BlockId(sb) \in Nat /\ GetSubblockIdInBlock(sb) \in Nat
           /\ GetSubblockIdInBlock(sb) < SubblocksPerBlock
           /\ SubblockId2BlockId(sb) * SubblocksPerBlock \in Nat
           /\ sb = SubblockId2BlockId(sb) * SubblocksPerBlock + GetSubblockIdInBlock(sb)
           /\ SubblockId2BlockId(sb) * DocsPerBlock \in Nat
           /\ GetSubblockIdInBlock(sb) * SubblockSize \in Nat
           /\ sb * SubblockSize
                = SubblockId2BlockId(sb) * DocsPerBlock + GetSubblockIdInBlock(sb) * SubblockSize
<1> DEFINE p == SubblocksPerBlock
           s == SubblockSize
           D == DocsPerBlock
           b == SubblockId2BlockId(sb)
           m == GetSubblockIdInBlock(sb)
<1>1. p \in Nat \ {0} /\ D = p * s /\ s \in Nat \ {0}
  BY BlockIs, WordIs
<1>2. b = sb \div p /\ m = sb % p
  BY DEF SubblockId2BlockId, GetSubblockIdInBlock
<1> HIDE DEF p, s, D, b, m
<1>3. b \in Nat /\ b * p \in Nat /\ m \in 0..(p - 1) /\ sb = b * p + m
  BY <1>1, <1>2, DivMod
<1>4. m \in Nat /\ m < p
  BY <1>1, <1>3
<1>5. \A u, v, t \in Nat : (u + v) * t = u * t + v * t /\ u * t \in Nat
  OBVIOUS
<1>6. \A u, v, t \in Nat : u * (v * t) = (u * v) * t
  OBVIOUS
<1>7. sb * s = (b * p) * s + m * s /\ m * s \in Nat
  BY <1>1, <1>3, <1>4, <1>5
<1>8. (b * p) * s = b * D
  BY <1>1, <1>3, <1>6
<1>9. b * D \in Nat
  BY <1>1, <1>3, <1>5
<1> QED
  BY <1>3, <1>4, <1>7, <1>8, <1>9 DEF p, s, D, b, m

\* The rows of a sub-block are of its block.
LEMMA RowInBlock ==
    ASSUME NEW r \in Nat
    PROVE  RowId2BlockId(r) = SubblockId2BlockId(GetSubblockId(r))
<1> DEFINE sb == GetSubblockId(r)
           b == SubblockId2BlockId(sb)
           m == GetSubblockIdInBlock(sb)
           s == SubblockSize
           D == DocsPerBlock
           p == SubblocksPerBlock
           x == b * D
           y == m * s
           z == sb * s
<1>1. sb \in Nat /\ z \in Nat /\ z <= r /\ r < z + s
  BY SubblockOf
<1>2. b \in Nat /\ m \in Nat /\ m < p /\ x \in Nat /\ y \in Nat /\ z = x + y
  BY <1>1, SubblockInBlock
<1>3. s \in Nat \ {0} /\ D \in Nat \ {0} /\ p \in Nat /\ D = p * s
  BY WordIs, BlockIs
<1> HIDE DEF sb, b, m, D, p, s
<1>4. y + s <= D
  BY <1>2, <1>3, MultiplesApart
<1> HIDE DEF y, z
<1>5. b * D <= r /\ r < b * D + D
  <2>1. x <= r /\ r < x + D
    <3> HIDE DEF x
    <3> QED
      BY <1>1, <1>2, <1>3, <1>4
  <2> QED
    BY <2>1
<1>6. r \div D = b
  BY <1>2, <1>3, <1>5, QuotientIs
<1> QED
  BY <1>6 DEF RowId2BlockId, D, b, sb

-----------------------------------------------------------------------------
(* The filter in terms of the table of a block. *)

\* What an analyzer keeps of a table says of each entry whether it passes, and of the
\* table whether all entries do.
Says(f, t, j) ==
    IF f.type = "RANGE" THEN t.map[j + 1]
    ELSE IF Len(f.values) = 1 THEN (j = t.id) # f.exclude
    ELSE (j \in ToSet(t.ids)) # f.exclude

SaysAll(f, t, table) ==
    IF f.type = "RANGE" THEN FALSE \notin ToSet(t.map)
    ELSE IF Len(f.values) = 1 THEN Len(table) = 1 /\ ((t.id # -1) # f.exclude)
    ELSE Len(t.ids) = Len(table) /\ ~ f.exclude

TabFits(c, table, t) ==
    /\ \A j \in 0..(Len(table) - 1) : Says(c.filter, t, j) <=> table[j + 1] \in Taken(c)
    /\ SaysAll(c.filter, t, table) => \A j \in 0..(Len(table) - 1) : table[j + 1] \in Taken(c)

TabFields == {"id", "ids", "map"}

\* The place of a value in a table of different values.
LEMMA IndexIs ==
    ASSUME NEW a, a.table \in Seq(Value), Different(a.table), NEW x
    PROVE  /\ GetIndexInTable(a, x) \in -1..(Len(a.table) - 1)
           /\ \A j \in 0..(Len(a.table) - 1) : j = GetIndexInTable(a, x) <=> a.table[j + 1] = x
           /\ GetIndexInTable(a, x) # -1 <=> x \in ToSet(a.table)
<1> DEFINE s == a.table
           n == Len(s)
           k == CHOOSE i \in DOMAIN s : s[i] = x
           g == GetIndexInTable(a, x)
<1>1. n \in Nat /\ DOMAIN s = 1..n /\ \A i, j \in 1..n : s[i] = s[j] => i = j
  BY DEF Different
<1>2. \A y : y \in ToSet(s) <=> \E i \in 1..n : s[i] = y
  BY FewValues
<1>3. g = IF x \in ToSet(s) THEN k - 1 ELSE -1
  BY DEF GetIndexInTable
<1>4. ASSUME x \in ToSet(s)
      PROVE  k \in 1..n /\ s[k] = x
  <2>1. \E i \in DOMAIN s : s[i] = x
    BY <1>1, <1>2, <1>4
  <2> QED
    BY <1>1, <2>1
<1> HIDE DEF k, g, s, n
<1>5. CASE x \in ToSet(s)
  <2>1. k \in 1..n /\ s[k] = x /\ g = k - 1
    BY <1>3, <1>4, <1>5
  <2>2. g \in 0..(n - 1) /\ g + 1 = k
    BY <1>1, <2>1
  <2>3. ASSUME NEW j \in 0..(n - 1)
        PROVE  j = g <=> s[j + 1] = x
    <3>1. j + 1 \in 1..n
      BY <1>1
    <3>2. s[j + 1] = x => j + 1 = k
      BY <1>1, <2>1, <3>1
    <3> QED
      BY <1>1, <2>1, <2>2, <3>1, <3>2
  <2>4. g \in -1..(n - 1) /\ g # -1
    BY <1>1, <2>2
  <2> QED
    BY <1>5, <2>3, <2>4 DEF g, s, n
<1>6. CASE x \notin ToSet(s)
  <2>1. g = -1
    BY <1>3, <1>6
  <2>2. ASSUME NEW j \in 0..(n - 1)
        PROVE  j # g /\ s[j + 1] # x
    <3>1. j + 1 \in 1..n /\ j # -1
      BY <1>1
    <3> QED
      BY <1>2, <1>6, <2>1, <3>1
  <2>3. g \in -1..(n - 1)
    BY <1>1, <2>1
  <2> QED
    BY <1>6, <2>1, <2>2, <2>3 DEF g, s, n
<1> QED
  BY <1>5, <1>6

\* The places of the values of a list that are in the table, each once.
LEMMA IdsAre ==
    ASSUME Numeric, filter.type # "RANGE", NEW a, a.table \in Seq(Value), Different(a.table)
    PROVE  /\ \A j \in 0..(Len(a.table) - 1) : j \in ToSet(IdsInTable(a)) <=> a.table[j + 1] \in ToSet(filter.values)
           /\ Len(IdsInTable(a)) = Len(a.table) => \A j \in 1..Len(a.table) : a.table[j] \in ToSet(filter.values)
           /\ IdsInTable(a) = << >> => \A j \in 1..Len(a.table) : a.table[j] \notin ToSet(filter.values)
<1> DEFINE s == a.table
           n == Len(s)
           u == filter.values
           T == {i \in DOMAIN u : u[i] \in ToSet(s)}
           p == Ranked(T)
           m == Cardinality(T)
           ids == IdsInTable(a)
           g(x) == GetIndexInTable(a, x)
<1>1. /\ u \in Seq(Nat) /\ IsInjective(u)
  <2>1. case \in IntCases /\ filter = case.filter
    BY DEF Numeric, filter
  <2> QED
    BY <2>1, FilterIs
<1>2. n \in Nat /\ DOMAIN s = 1..n /\ \A y : y \in ToSet(s) <=> \E i \in 1..n : s[i] = y
  BY FewValues
<1>3. Len(u) \in Nat /\ DOMAIN u = 1..Len(u) /\ \A y : y \in ToSet(u) <=> \E i \in 1..Len(u) : u[i] = y
  BY <1>1, FewValues
<1>4. T \subseteq Nat /\ IsFiniteSet(T)
  <2> DEFINE l == Len(u)
  <2>1. l \in Nat /\ T \subseteq 1..l
    BY <1>3
  <2> HIDE DEF l, T
  <2>2. 1 \in Int /\ l \in Int /\ 1..l \subseteq Nat
    BY <2>1
  <2>3. IsFiniteSet(1..l)
    BY <2>2, FS_Interval
  <2> QED
    BY <2>1, <2>2, <2>3, FS_Subset
<1>5. /\ m \in Nat /\ DOMAIN p = 1..m /\ Rising(p) /\ \A i \in 1..m : p[i] \in T
      /\ \A i : i \in T <=> \E k \in 1..m : p[k] = i
  <2> HIDE DEF T
  <2>1. /\ m \in Nat /\ DOMAIN p = 1..m /\ Rising(p)
        /\ \A i : i \in T <=> \E k \in 1..m : p[k] = i
    BY <1>4, RankedIs
  <2> QED
    BY <2>1
<1>6. ids = [k \in 1..m |-> g(u[p[k]])]
  BY <1>5 DEF IdsInTable
<1>7. \A i : i \in T <=> i \in 1..Len(u) /\ u[i] \in ToSet(s)
  BY <1>3
<1> HIDE DEF T, p, m, ids
<1>8. \A x : /\ g(x) \in -1..(n - 1)
             /\ \A j \in 0..(n - 1) : j = g(x) <=> s[j + 1] = x
             /\ g(x) # -1 <=> x \in ToSet(s)
  BY IndexIs
<1> HIDE DEF g, s, n, u
<1>9. ASSUME NEW k \in 1..m
      PROVE  /\ ids[k] \in 0..(n - 1) /\ s[ids[k] + 1] = u[p[k]] /\ p[k] \in 1..Len(u)
  <2>1. ids[k] = g(u[p[k]]) /\ p[k] \in 1..Len(u) /\ u[p[k]] \in ToSet(s)
    BY <1>5, <1>6, <1>7
  <2>2. g(u[p[k]]) \in -1..(n - 1) /\ g(u[p[k]]) # -1
    BY <1>8, <2>1
  <2> DEFINE h == g(u[p[k]])
  <2>3. h \in -1..(n - 1) /\ h # -1 /\ ids[k] = h
    BY <2>1, <2>2
  <2> HIDE DEF h
  <2>4. h \in 0..(n - 1)
    BY <1>2, <2>3
  <2>5. s[h + 1] = u[p[k]]
    BY <1>8, <2>4 DEF h
  <2> QED
    BY <2>1, <2>3, <2>4, <2>5
<1>10. Len(ids) = m /\ DOMAIN ids = 1..m
  <2> DEFINE Z == 0..(n - 1)
  <2>1. DOMAIN ids = 1..m /\ ids \in [1..m -> Z]
    BY <1>6, <1>9
  <2> HIDE DEF Z
  <2>2. ids \in Seq(Z) /\ Len(ids) = m
    BY <1>5, <2>1
  <2> QED
    BY <2>1, <2>2
<1>11. ASSUME NEW j \in 0..(n - 1)
       PROVE  j \in ToSet(ids) <=> s[j + 1] \in ToSet(u)
  <2>1. j \in ToSet(ids) <=> \E k \in 1..m : ids[k] = j
    BY <1>10 DEF ToSet
  <2>2. ASSUME NEW k \in 1..m, ids[k] = j
        PROVE  s[j + 1] \in ToSet(u)
    BY <1>3, <1>9, <2>2
  <2>3. ASSUME s[j + 1] \in ToSet(u)
        PROVE  \E k \in 1..m : ids[k] = j
    <3>1. PICK i \in 1..Len(u) : u[i] = s[j + 1]
      BY <1>3, <2>3
    <3>2. j + 1 \in 1..n
      BY <1>2
    <3>3. i \in T
      BY <1>2, <1>7, <3>1, <3>2
    <3>4. PICK k \in 1..m : p[k] = i
      BY <1>5, <3>3
    <3>5. ids[k] = g(s[j + 1])
      BY <1>6, <3>1, <3>4
    <3>6. j = g(s[j + 1])
      BY <1>8
    <3> QED
      BY <3>5, <3>6
  <2> QED
    BY <2>1, <2>2, <2>3
<1>12. \A j \in 1..n : j - 1 \in 0..(n - 1) /\ (j - 1) + 1 = j
  BY <1>2
<1>13. ASSUME Len(ids) = n, NEW j \in 1..n
       PROVE  s[j] \in ToSet(u)
  <2>1. m = n
    BY <1>10, <1>13
  <2> DEFINE V == 0..(n - 1)
             U == 1..m
  <2>2. IsFiniteSet(V) /\ Cardinality(V) = n /\ IsFiniteSet(U) /\ Cardinality(U) = m
    <3>1. 0 \in Int /\ n - 1 \in Int /\ 1 \in Int /\ m \in Int
      BY <1>2, <1>5
    <3> DEFINE e == n - 1
    <3>2. e \in Int /\ e = n - 1
      BY <3>1
    <3> HIDE DEF e
    <3>3. IsFiniteSet(0..e) /\ Cardinality(0..e) = IF 0 > e THEN 0 ELSE e - 0 + 1
      BY <3>1, <3>2, FS_Interval
    <3>4. IsFiniteSet(1..m) /\ Cardinality(1..m) = IF 1 > m THEN 0 ELSE m - 1 + 1
      BY <3>1, FS_Interval
    <3>5. Cardinality(0..e) = n
      BY <1>2, <3>2, <3>3
    <3>6. Cardinality(1..m) = m
      BY <1>5, <3>4
    <3> QED
      BY <3>2, <3>3, <3>4, <3>5, <3>6
  <2>3. ASSUME NEW x \in U, NEW y \in U, ids[x] = ids[y]
        PROVE  x = y
    <3>1. u[p[x]] = u[p[y]] /\ p[x] \in 1..Len(u) /\ p[y] \in 1..Len(u)
      BY <1>9, <2>3
    <3>2. p[x] = p[y]
      BY <1>1, <1>3, <3>1 DEF IsInjective
    <3>3. x \in 1..m /\ y \in 1..m /\ p[x] \in Nat
      BY <1>4, <1>5
    <3>4. x < y => p[x] < p[y]
      BY <1>5, <3>3 DEF Rising
    <3>5. y < x => p[y] < p[x]
      BY <1>5, <3>3 DEF Rising
    <3> QED
      BY <1>5, <3>2, <3>3, <3>4, <3>5
  <2>4. ids \in [U -> V] /\ DOMAIN ids = U
    BY <1>6, <1>9, <1>10
  <2> HIDE DEF U, V
  <2>5. ids \in Injection(U, V)
    BY <2>3, <2>4 DEF Injection, IsInjective
  <2>6. ids \in Surjection(U, V)
    BY <2>1, <2>2, <2>5, FS_Injection
  <2>7. \A v \in V : \E x \in U : ids[x] = v
    BY <2>6 DEF Surjection
  <2>8. j - 1 \in V
    BY <1>12 DEF V
  <2>9. j - 1 \in ToSet(ids)
    BY <1>10, <2>7, <2>8 DEF ToSet, U
  <2> QED
    BY <1>11, <1>12, <2>9
<1>14. ASSUME ids = << >>, NEW j \in 1..n
       PROVE  s[j] \notin ToSet(u)
  <2>1. m = 0
    BY <1>10, <1>14
  <2>2. j - 1 \notin ToSet(ids)
    <3>1. DOMAIN ids = {}
      BY <1>14
    <3> QED
      BY <3>1 DEF ToSet
  <2> QED
    BY <1>11, <1>12, <2>2
<1> QED
  BY <1>11, <1>13, <1>14 DEF ids, s, n, u

\* What SetupTable keeps of a table is right, and a table that is not accepted has no
\* value that passes.
LEMMA TableIs ==
    ASSUME Numeric, kind # "bool", NEW a, a.packing = "TABLE", a.table \in Seq(Value), Different(a.table),
           NEW t, DOMAIN t = TabFields
    PROVE  /\ DOMAIN SetupTable(t, a) = TabFields /\ TabFits(case, a.table, SetupTable(t, a))
           /\ ~ TableAccepted(SetupTable(t, a)) => \A j \in 1..Len(a.table) : a.table[j] \notin Taken(case)
<1> DEFINE f == case.filter
           s == a.table
           n == Len(s)
           u == SetupTable(t, a)
<1>1. case \in IntCases /\ filter = f /\ kind = case.kind /\ ~ IsVar
  BY CaseIs DEF Numeric, filter, kind, IsVar
<1>2. n \in Nat /\ DOMAIN s = 1..n /\ \A j \in 1..n : s[j] \in Value
  <2>1. s \in Seq(Value)
    OBVIOUS
  <2> HIDE DEF s
  <2> QED
    BY <2>1
<1>3. \A j \in 1..n : Accepts(s[j]) <=> s[j] \in Taken(case)
  BY <1>2, TakenIs
<1>4. \A j \in 0..(n - 1) : j + 1 \in 1..n
  BY <1>2
<1>5. u = SetupTableInt(t, a)
  BY <1>1 DEF SetupTable
<1> HIDE DEF s, n, u, f
<1>6. CASE f.type = "RANGE"
  <2>1. IsRange
    BY <1>1, <1>6 DEF IsRange
  <2>2. \A v : Accepts(v) <=> InRange(v)
    BY <2>1 DEF Accepts
  <2>3. u = [t EXCEPT !.map = [i \in DOMAIN s |-> InRange(s[i])]]
    BY <1>5, <2>1 DEF SetupTableInt, s
  <2>4. DOMAIN u = TabFields /\ u.map = [i \in 1..n |-> InRange(s[i])]
    BY <1>2, <2>3 DEF TabFields
  <2> DEFINE m == u.map
  <2>5. m = [i \in 1..n |-> InRange(s[i])]
    BY <2>4
  <2> HIDE DEF m
  <2>6. DOMAIN m = 1..n /\ \A j \in 1..n : m[j] <=> s[j] \in Taken(case)
    BY <1>3, <2>2, <2>5
  <2>7. \A j \in 1..n : m[j] \in BOOLEAN
    BY <2>5 DEF InRange
  <2>8. \A x : x \in ToSet(m) <=> \E j \in 1..n : m[j] = x
    BY <2>6 DEF ToSet
  <2>9. TabFits(case, s, u)
    <3>1. \A j \in 0..(n - 1) : Says(f, u, j) <=> s[j + 1] \in Taken(case)
      BY <1>4, <1>6, <2>6 DEF Says, m
    <3>2. ASSUME SaysAll(f, u, s), NEW j \in 1..n
          PROVE  s[j] \in Taken(case)
      <4>1. FALSE \notin ToSet(m)
        BY <1>6, <3>2 DEF SaysAll, m
      <4>2. m[j] # FALSE
        BY <2>8, <4>1
      <4> QED
        BY <2>6, <2>7, <4>2
    <3> QED
      BY <1>4, <3>1, <3>2 DEF TabFits, f, n
  <2>10. ASSUME ~ TableAccepted(u), NEW j \in 1..n
         PROVE  s[j] \notin Taken(case)
    <3>1. TRUE \notin ToSet(m)
      BY <2>1, <2>10 DEF TableAccepted, m
    <3>2. m[j] # TRUE
      BY <2>8, <3>1
    <3> QED
      BY <2>6, <2>7, <3>2
  <2> QED
    BY <2>4, <2>9, <2>10 DEF u, s, n
<1>7. CASE f.type # "RANGE"
  <2> DEFINE q == f.values
             T == ToSet(q)
  <2>1. ~ IsRange /\ Excludes = f.exclude /\ (IsSingle <=> Len(q) = 1) /\ f.exclude \in BOOLEAN
        /\ q \in Seq(Nat) /\ Len(q) \in Nat \ {0}
    <3>1. ~ IsRange
      BY <1>1, <1>7 DEF IsRange
    <3>2. f.exclude \in BOOLEAN /\ q \in Seq(Nat) /\ Len(q) \in Nat \ {0}
      BY <1>1, <1>7, FilterIs DEF f
    <3> QED
      BY <1>1, <3>1, <3>2 DEF Excludes, IsSingle
  <2>2. \A v : Accepts(v) <=> (v \in T) # f.exclude
    BY <1>1, <2>1 DEF Accepts
  <2>3. \A y : y \in T <=> \E i \in 1..Len(q) : q[i] = y
    BY <2>1, FewValues
  <2> HIDE DEF T
  <2>4. \A j \in 1..n : s[j] \in Taken(case) <=> (s[j] \in T) # f.exclude
    BY <1>3, <2>2
  <2>5. CASE Len(q) = 1
    <3> DEFINE x == q[1]
               g == GetIndexInTable(a, x)
    <3>1. u = [t EXCEPT !.id = g]
      BY <1>1, <1>5, <2>1, <2>5 DEF SetupTableInt
    <3>2. DOMAIN u = TabFields /\ u.id = g
      BY <3>1 DEF TabFields
    <3>3. \A y : y \in T <=> y = x
      BY <2>3, <2>5
    <3> HIDE DEF x
    <3>4. /\ g \in -1..(n - 1)
          /\ \A j \in 0..(n - 1) : j = g <=> s[j + 1] = x
          /\ g # -1 <=> x \in ToSet(s)
      BY IndexIs DEF s, n
    <3>5. \A y : y \in ToSet(s) <=> \E i \in 1..n : s[i] = y
      BY FewValues DEF s, n
    <3> HIDE DEF g
    <3>6. TabFits(case, s, u)
      <4>1. ASSUME NEW j \in 0..(n - 1)
            PROVE  Says(f, u, j) <=> s[j + 1] \in Taken(case)
        <5>1. Says(f, u, j) <=> (j = g) # f.exclude
          BY <1>7, <2>5, <3>2 DEF Says
        <5>2. s[j + 1] \in Taken(case) <=> (s[j + 1] \in T) # f.exclude
          BY <1>4, <2>4
        <5>3. s[j + 1] \in T <=> j = g
          BY <3>3, <3>4
        <5> QED
          BY <2>1, <5>1, <5>2, <5>3
      <4>2. ASSUME SaysAll(f, u, s), NEW j \in 1..n
            PROVE  s[j] \in Taken(case)
        <5>1. n = 1 /\ ((g # -1) # f.exclude)
          BY <1>7, <2>5, <3>2, <4>2 DEF SaysAll, n
        <5>2. j = 1
          BY <5>1
        <5>3. g # -1 <=> s[j] \in T
          BY <3>3, <3>5, <3>4, <5>1, <5>2
        <5> QED
          BY <2>1, <2>4, <5>1, <5>3
      <4> QED
        BY <1>4, <4>1, <4>2 DEF TabFits, f, n
    <3>7. ASSUME ~ TableAccepted(u), NEW j \in 1..n
          PROVE  s[j] \notin Taken(case)
      <4>1. ~ f.exclude /\ g = -1
        BY <2>1, <2>5, <3>2, <3>7 DEF TableAccepted
      <4>2. x \notin ToSet(s)
        BY <3>4, <4>1
      <4>3. s[j] \notin T
        BY <3>3, <3>5, <4>2
      <4> QED
        BY <2>1, <2>4, <4>1, <4>3
    <3> QED
      BY <3>2, <3>6, <3>7 DEF u, s, n
  <2>6. CASE Len(q) # 1
    <3> DEFINE ids == IdsInTable(a)
    <3>1. u = [t EXCEPT !.ids = ids]
      BY <1>5, <2>1, <2>6 DEF SetupTableInt
    <3>2. DOMAIN u = TabFields /\ u.ids = ids
      BY <3>1 DEF TabFields
    <3>3. /\ \A j \in 0..(n - 1) : j \in ToSet(ids) <=> s[j + 1] \in T
          /\ Len(ids) = n => \A j \in 1..n : s[j] \in T
          /\ ids = << >> => \A j \in 1..n : s[j] \notin T
      <4>1. filter.type # "RANGE" /\ filter.values = q
        BY <1>1, <1>7
      <4>2. /\ \A j \in 0..(Len(a.table) - 1) : j \in ToSet(IdsInTable(a)) <=> a.table[j + 1] \in ToSet(filter.values)
            /\ Len(IdsInTable(a)) = Len(a.table) => \A j \in 1..Len(a.table) : a.table[j] \in ToSet(filter.values)
            /\ IdsInTable(a) = << >> => \A j \in 1..Len(a.table) : a.table[j] \notin ToSet(filter.values)
        BY <4>1, IdsAre
      <4> QED
        BY <4>1, <4>2 DEF s, n, T
    <3> HIDE DEF ids
    <3>4. TabFits(case, s, u)
      <4>1. ASSUME NEW j \in 0..(n - 1)
            PROVE  Says(f, u, j) <=> s[j + 1] \in Taken(case)
        <5>1. Says(f, u, j) <=> (j \in ToSet(ids)) # f.exclude
          BY <1>7, <2>6, <3>2 DEF Says
        <5>2. s[j + 1] \in Taken(case) <=> (s[j + 1] \in T) # f.exclude
          BY <1>4, <2>4
        <5> QED
          BY <2>1, <3>3, <5>1, <5>2
      <4>2. ASSUME SaysAll(f, u, s), NEW j \in 1..n
            PROVE  s[j] \in Taken(case)
        <5>1. Len(ids) = n /\ ~ f.exclude
          BY <1>7, <2>6, <3>2, <4>2 DEF SaysAll, n
        <5> QED
          BY <2>1, <2>4, <3>3, <5>1
      <4> QED
        BY <1>4, <4>1, <4>2 DEF TabFits, f, n
    <3>5. ASSUME ~ TableAccepted(u), NEW j \in 1..n
          PROVE  s[j] \notin Taken(case)
      <4>1. ~ f.exclude /\ ids = << >>
        BY <2>1, <2>6, <3>2, <3>5 DEF TableAccepted
      <4> QED
        BY <2>1, <2>4, <3>3, <4>1
    <3> QED
      BY <3>2, <3>4, <3>5 DEF u, s, n
  <2> QED
    BY <2>5, <2>6
<1> QED
  BY <1>6, <1>7

-----------------------------------------------------------------------------
(* The rows of a sub-block. *)

\* The walk may scan a block: it has been accepted.
Ready(c, a, t) ==
    /\ a.block # -1
    /\ a.packing = "CONST" => a.const \in Taken(c)
    /\ a.packing = "TABLE" => TabFits(c, a.table, t)

\* A boolean column stores two values.
LEMMA StoredBits ==
    ASSUME NEW c \in IntCases, c.kind = "bool", NEW v
    PROVE  StoredIn(c, v) \in {0, 1}
BY DEF StoredIn, StoredBool

\* Whether a value passes depends on the value alone, even if the sub-block is not read.
LEMMA PassIs ==
    ASSUME Numeric, Sound, NEW h, NEW i, NEW x \in Value, Reads(h, i, x), h.packing \in Packings(case),
           h.packing = acc.packing, h.const = acc.const, h.table = acc.table, Ready(case, acc, tab),
           kind = "bool" => x \in {0, 1}, NEW a, ~ ReadsAsConst => a = h, NEW sb, NEW g
    PROVE  Passes(a, sb, i, g) <=> x \in Taken(case)
<1> DEFINE f == case.filter
<1>1. case \in IntCases /\ filter = f /\ kind = case.kind /\ kind \in {"int", "hash", "bool"} /\ ~ IsVar
  BY CaseIs DEF Numeric, filter, kind, IsVar
<1>2. kind = "bool" => h.packing \in {"CONST", "BITMAP"}
  BY <1>1, PackingsAre
<1>3. kind # "bool" => h.packing \in {"CONST", "TABLE", "DELTA", "GENERIC", "HASH"}
  BY <1>1, PackingsAre
<1>4. kind = "bool" => (AcceptsBool(x) <=> x \in Taken(case))
  BY TakenIs
<1>5. kind # "bool" => (Accepts(x) <=> x \in Taken(case))
  BY TakenIs
<1>6. IsRange <=> f.type = "RANGE"
  BY <1>1 DEF IsRange
<1>7. ~ IsRange => /\ Excludes = f.exclude /\ (IsSingle <=> Len(f.values) = 1) /\ f.exclude \in BOOLEAN
                   /\ Len(f.values) \in Nat \ {0} /\ f.values \in Seq(Nat)
  <2> SUFFICES ASSUME ~ IsRange
               PROVE  /\ Excludes = f.exclude /\ (IsSingle <=> Len(f.values) = 1) /\ f.exclude \in BOOLEAN
                      /\ Len(f.values) \in Nat \ {0} /\ f.values \in Seq(Nat)
    OBVIOUS
  <2>1. f.exclude \in BOOLEAN /\ f.values \in Seq(Nat) /\ Len(f.values) \in Nat \ {0}
    BY <1>1, <1>6, FilterIs DEF f
  <2> QED
    BY <1>1, <2>1 DEF Excludes, IsSingle
<1>8. h.packing = "TABLE" =>
         /\ h.fixed[i] \in 0..(Len(acc.table) - 1) /\ acc.table[h.fixed[i] + 1] = x
         /\ \A j \in 0..(Len(acc.table) - 1) : Says(f, tab, j) <=> acc.table[j + 1] \in Taken(case)
         /\ SaysAll(f, tab, acc.table) => \A j \in 0..(Len(acc.table) - 1) : acc.table[j + 1] \in Taken(case)
  BY DEF Reads, Ready, TabFits
<1>9. CASE ReadsAsConst
  <2>1. Passes(a, sb, i, g)
    BY <1>9 DEF Passes
  <2>2. CASE acc.packing = "CONST"
    BY <2>1, <2>2 DEF Ready, Reads
  <2>3. CASE kind = "bool" /\ ReadsAsConstBool
    <3>1. AcceptsBool(0) /\ AcceptsBool(1)
      BY <2>3 DEF ReadsAsConstBool
    <3>2. AcceptsBool(x)
      BY <2>3, <3>1
    <3> QED
      BY <1>4, <2>1, <2>3, <3>2
  <2>4. CASE kind \in {"int", "hash"} /\ ReadsAsConstInt
    <3>1. acc.packing = "TABLE" /\ AllPass(tab, acc)
      BY <2>4 DEF ReadsAsConstInt
    <3>2. SaysAll(f, tab, acc.table)
      BY <1>6, <1>7, <3>1 DEF SaysAll, AllPass
    <3>3. x \in Taken(case)
      BY <1>8, <3>1, <3>2
    <3> QED
      BY <2>1, <3>3
  <2> QED
    BY <1>9, <2>2, <2>3, <2>4 DEF ReadsAsConst
<1>10. CASE ~ ReadsAsConst
  <2>1. a = h /\ h.packing # "CONST"
    BY <1>10 DEF ReadsAsConst
  <2>2. CASE kind = "bool"
    <3>1. Passes(a, sb, i, g) <=> AcceptsBool(a.fixed[i])
      BY <1>1, <1>10, <2>2 DEF Passes, PassesBool
    <3>2. a.fixed[i] = x
      BY <1>2, <2>1, <2>2 DEF Reads
    <3> QED
      BY <1>4, <2>2, <3>1, <3>2
  <2>3. CASE kind # "bool"
    <3>1. Passes(a, sb, i, g) <=> PassesInt(a, i)
      BY <1>1, <1>10, <2>3 DEF Passes
    <3>2. CASE h.packing = "TABLE"
      <4>1. PassesInt(a, i) <=> PassesTable(a, i)
        BY <2>1, <3>2 DEF PassesInt
      <4>2. PassesTable(a, i) <=> Says(f, tab, a.fixed[i])
        BY <1>6, <1>7 DEF PassesTable, Says
      <4> QED
        BY <1>8, <2>1, <3>1, <3>2, <4>1, <4>2
    <3>3. CASE h.packing # "TABLE"
      <4>1. PassesInt(a, i) <=> PassesValue(a, i)
        BY <2>1, <3>3 DEF PassesInt
      <4>2. a.sized[i] = x
        BY <1>3, <2>1, <2>3, <3>3 DEF Reads, Sized
      <4>3. PassesValue(a, i) <=> Accepts(x)
        <5>1. CASE IsRange
          BY <4>2, <5>1 DEF PassesValue, Accepts
        <5>2. CASE ~ IsRange
          <6> DEFINE q == filter.values
          <6>1. Accepts(x) <=> (x \in ToSet(q)) # f.exclude
            BY <1>1, <5>2 DEF Accepts
          <6>2. q \in Seq(Nat) /\ Len(q) \in Nat \ {0}
            BY <1>1, <1>7, <5>2
          <6>3. \A y : y \in ToSet(q) <=> \E j \in 1..Len(q) : q[j] = y
            BY <6>2, FewValues
          <6>4. DOMAIN q = 1..Len(q)
            BY <6>2
          <6>5. CASE Len(q) <= LinearLimit
            <7>1. PassesValue(a, i) <=> \E j \in DOMAIN q : (x = q[j]) # Excludes
              BY <4>2, <5>2, <6>5 DEF PassesValue
            <7>2. CASE Len(q) = 1
              <8>1. x \in ToSet(q) <=> x = q[1]
                BY <6>3, <7>2
              <8>2. PassesValue(a, i) <=> ((x = q[1]) # Excludes)
                BY <6>4, <7>1, <7>2
              <8> QED
                BY <1>7, <5>2, <6>1, <8>1, <8>2
            <7>3. CASE Len(q) # 1
              <8>1. Len(q) \in 2..LinearLimit
                <9> DEFINE l == Len(q)
                <9>1. l \in Nat /\ l # 0 /\ l # 1 /\ l <= LinearLimit /\ LinearLimit \in Nat
                  BY <6>2, <6>5, <7>3, BaseAssumption
                <9> HIDE DEF l
                <9>2. l \in 2..LinearLimit
                  BY <9>1
                <9> QED
                  BY <9>2 DEF l
              <8>2. ~ Excludes
                BY <2>3, <8>1 DEF Sound
              <8>5. Excludes = FALSE
                BY <1>7, <5>2, <8>2
              <8>6. \A j : ((x = q[j]) # Excludes) <=> x = q[j]
                BY <8>5
              <8>3. PassesValue(a, i) <=> \E j \in 1..Len(q) : x = q[j]
                BY <6>4, <7>1, <8>6, Zenon
              <8>4. ~ f.exclude
                BY <1>7, <5>2, <8>2
              <8> QED
                BY <1>7, <5>2, <6>1, <6>3, <8>3, <8>4
            <7> QED
              BY <7>2, <7>3
          <6>6. CASE ~ (Len(q) <= LinearLimit)
            <7>1. PassesValue(a, i) <=> (x \in ToSet(q)) # Excludes
              BY <4>2, <5>2, <6>6 DEF PassesValue
            <7> QED
              BY <1>7, <5>2, <6>1, <7>1
          <6> QED
            BY <6>5, <6>6
        <5> QED
          BY <5>1, <5>2
      <4> QED
        BY <1>5, <2>3, <3>1, <4>1, <4>3
    <3> QED
      BY <3>2, <3>3
  <2> QED
    BY <2>2, <2>3
<1> QED
  BY <1>9, <1>10

\* Every value of the block a reader is at can be read.
LEMMA HoldsIs ==
    ASSUME Numeric, BlocksFit(case, blocks), NEW a, AccFits(case, blocks, a), NEW b, b # -1, a.block = b,
           NEW sb \in PartsOf(CutOf(case, b)), NEW i \in 1..CountIn(Len(CutOf(case, b)), sb)
    PROVE  /\ Reads(ReadSubblock(a, sb), i, CutOf(case, b)[sb * SubblockSize + i])
           /\ ReadSubblock(a, sb).packing = a.packing /\ ReadSubblock(a, sb).const = a.const
           /\ ReadSubblock(a, sb).table = a.table
<1> DEFINE h == ReadSubblock(a, sb)
<1>1. case \in IntCases
  BY DEF Numeric
<1>2. /\ AccFits(case, blocks, h) /\ HasRead(h, sb) /\ h.block = b /\ h.packing = a.packing
      /\ h.table = a.table /\ h.const = a.const
  BY EntersSubblock
<1> HIDE DEF h
<1>3. Reads(h, i, CutOf(case, b)[sb * SubblockSize + i])
  BY <1>1, <1>2, ReadsRight
<1> QED
  BY <1>2, <1>3 DEF h

\* The header of the block a reader is at.
LEMMA HeaderIs ==
    ASSUME Numeric, BlocksFit(case, blocks), NEW a, AccFits(case, blocks, a), a.block # -1
    PROVE  /\ a.block \in Nat /\ a.block * DocsPerBlock < Len(docs)
           /\ a.packing \in Packings(case)
           /\ a.packing = "CONST" => a.const \in Value
           /\ a.packing = "TABLE" => a.table \in Seq(Value) /\ Different(a.table)
<1> DEFINE b == a.block
           w == blocks[b + 1]
           v == CutOf(case, b)
<1>1. case \in IntCases /\ docs = case.docs
  BY DEF Numeric, docs
<1>2. b \in 0..(Len(blocks) - 1) /\ OfBlock(w, v, a)
  BY DEF AccFits
<1>3. b \in Nat /\ b * DocsPerBlock < Len(docs) /\ w.packing \in Packings(case) /\ WellWritten(w, v)
  BY <1>1, <1>2, BlockFits
<1>4. v \in Seq(Value) /\ v # << >>
  BY <1>1, <1>3, CutIs
<1> HIDE DEF b, w, v
<1>5. 1 \in 1..Len(v) /\ v[1] \in Value
  BY <1>4
<1>6. a.packing = w.packing
  BY <1>2 DEF OfBlock
<1>7. a.packing = "CONST" => a.const \in Value
  BY <1>2, <1>3, <1>5, <1>6 DEF OfBlock, WellWritten
<1>8. a.packing = "TABLE" => a.table \in Seq(Value) /\ Different(a.table)
  BY <1>2, <1>3, <1>6 DEF OfBlock, WellWritten
<1> QED
  BY <1>3, <1>6, <1>7, <1>8 DEF b

\* The value of a row that passes.
LEMMA TakenRow ==
    ASSUME Numeric, NEW r \in RowsTaken(case)
    PROVE  /\ r \in 0..(Len(case.docs) - 1) /\ r \in Nat /\ r < Len(docs)
           /\ StoredIn(case, case.docs[r + 1]) \in Taken(case)
           /\ StoredIn(case, case.docs[r + 1]) \in Value
           /\ kind = "bool" => StoredIn(case, case.docs[r + 1]) \in {0, 1}
<1>1. case \in IntCases /\ docs = case.docs /\ kind = case.kind /\ Len(case.docs) \in Nat
  BY CaseIs DEF Numeric, docs, kind
<1>2. r \in 0..(Len(case.docs) - 1) /\ StoredIn(case, case.docs[r + 1]) \in Taken(case)
  BY DEF RowsTaken
<1>3. r \in Nat /\ r < Len(docs) /\ r + 1 \in 1..Len(case.docs)
  BY <1>1, <1>2
<1>4. StoredIn(case, case.docs[r + 1]) \in Value
  BY <1>1, <1>3, StoredType
<1>5. kind = "bool" => StoredIn(case, case.docs[r + 1]) \in {0, 1}
  BY <1>1, StoredBits
<1> QED
  BY <1>2, <1>3, <1>4, <1>5

\* A block that is accepted can be scanned.
LEMMA AcceptedIs ==
    ASSUME Numeric, BlocksFit(case, blocks), NEW a, AccFits(case, blocks, a), a.block # -1,
           NEW t, DOMAIN t = TabFields
    PROVE  /\ DOMAIN SetupTable(t, a) = TabFields
           /\ BlockAccepted(a, SetupTable(t, a)) => Ready(case, a, SetupTable(t, a))
<1> DEFINE u == SetupTable(t, a)
<1>1. case \in IntCases /\ kind = case.kind /\ kind \in {"int", "hash", "bool"} /\ ~ IsVar
  BY CaseIs DEF Numeric, kind, IsVar
<1>2. /\ a.packing \in Packings(case)
      /\ a.packing = "CONST" => a.const \in Value
      /\ a.packing = "TABLE" => a.table \in Seq(Value) /\ Different(a.table)
  BY HeaderIs
<1>3. CASE a.packing = "TABLE"
  <2>1. kind # "bool"
    BY <1>1, <1>2, <1>3, PackingsAre
  <2>2. DOMAIN u = TabFields /\ TabFits(case, a.table, u)
    BY <1>2, <1>3, <2>1, TableIs
  <2> QED
    BY <1>3, <2>2 DEF Ready
<1>4. CASE a.packing # "TABLE"
  <2>1. u = t
    BY <1>4 DEF SetupTable
  <2>2. CASE a.packing # "CONST"
    BY <1>4, <2>1, <2>2 DEF Ready
  <2>3. CASE a.packing = "CONST"
    <3>1. kind = "bool" => (BlockAccepted(a, u) <=> AcceptsBool(a.const))
      BY <1>1, <2>3 DEF BlockAccepted, BlockAcceptedBool
    <3>2. kind # "bool" => (BlockAccepted(a, u) <=> Accepts(a.const))
      BY <1>1, <2>3 DEF BlockAccepted, BlockAcceptedInt
    <3>3. BlockAccepted(a, u) => a.const \in Taken(case)
      BY <1>2, <2>3, <3>1, <3>2, TakenIs
    <3> QED
      BY <1>4, <2>1, <3>3 DEF Ready
  <2> QED
    BY <2>2, <2>3
<1> QED
  BY <1>3, <1>4

\* A block that is not accepted has no row that passes.
LEMMA RejectedIs ==
    ASSUME Numeric, BlocksFit(case, blocks), NEW a, AccFits(case, blocks, a), NEW b, b # -1, a.block = b,
           NEW t, DOMAIN t = TabFields, ~ BlockAccepted(a, SetupTable(t, a)), NEW r \in RowsTaken(case)
    PROVE  RowId2BlockId(r) # b
<1> SUFFICES ASSUME RowId2BlockId(r) = b PROVE FALSE
  OBVIOUS
<1> DEFINE u == SetupTable(t, a)
           sb == GetSubblockId(r - BlockId2RowId(b))
           i == GetValueIdInSubblock(r - BlockId2RowId(b)) + 1
           x == StoredIn(case, case.docs[r + 1])
           h == ReadSubblock(a, sb)
<1>1. case \in IntCases /\ kind = case.kind /\ kind \in {"int", "hash", "bool"} /\ ~ IsVar
  BY CaseIs DEF Numeric, kind, IsVar
<1>2. /\ a.packing \in Packings(case)
      /\ a.packing = "CONST" => a.const \in Value
      /\ a.packing = "TABLE" => a.table \in Seq(Value) /\ Different(a.table)
  BY HeaderIs
<1>3. r \in 0..(Len(case.docs) - 1) /\ x \in Taken(case) /\ x \in Value /\ (kind = "bool" => x \in {0, 1})
  BY TakenRow
<1>4. Finds(r, b, sb, i)
  BY DEF Finds
<1> HIDE DEF sb, i, x
<1>5. /\ sb \in PartsOf(CutOf(case, b)) /\ i \in 1..CountIn(Len(CutOf(case, b)), sb)
      /\ CutOf(case, b)[sb * SubblockSize + i] = x
  BY <1>1, <1>3, <1>4, RowIs DEF x
<1>6. Reads(h, i, x) /\ h.packing = a.packing /\ h.const = a.const /\ h.table = a.table
  <2>1. /\ Reads(h, i, CutOf(case, b)[sb * SubblockSize + i])
        /\ h.packing = a.packing /\ h.const = a.const /\ h.table = a.table
    BY <1>5, HoldsIs
  <2> QED
    BY <1>5, <2>1
<1> HIDE DEF h, u
<1>7. ~ BlockAccepted(a, u)
  BY DEF u
<1>8. CASE kind = "bool"
  <2>1. a.packing \in {"CONST", "BITMAP"} /\ (AcceptsBool(x) <=> x \in Taken(case))
    BY <1>1, <1>2, <1>3, <1>8, PackingsAre, TakenIs
  <2>2. BlockAccepted(a, u) <=> BlockAcceptedBool(a)
    BY <1>1, <1>8 DEF BlockAccepted
  <2>3. a.packing = "CONST" => a.const = x
    BY <1>6 DEF Reads
  <2> QED
    BY <1>3, <1>7, <1>8, <2>1, <2>2, <2>3 DEF BlockAcceptedBool
<1>9. CASE kind # "bool"
  <2>1. Accepts(x) <=> x \in Taken(case)
    BY <1>3, <1>9, TakenIs
  <2>2. BlockAccepted(a, u) <=> BlockAcceptedInt(a, u)
    BY <1>1, <1>9 DEF BlockAccepted
  <2>3. CASE a.packing = "CONST"
    <3>1. a.const = x
      BY <1>6, <2>3 DEF Reads
    <3> QED
      BY <1>3, <1>7, <2>1, <2>2, <2>3, <3>1 DEF BlockAcceptedInt
  <2>4. CASE a.packing = "TABLE"
    <3>1. ~ TableAccepted(u)
      BY <1>7, <2>2, <2>4 DEF BlockAcceptedInt
    <3>2. \A j \in 1..Len(a.table) : a.table[j] \notin Taken(case)
      BY <1>2, <1>9, <2>4, <3>1, TableIs DEF u
    <3>3. h.fixed[i] \in 0..(Len(a.table) - 1) /\ a.table[h.fixed[i] + 1] = x
      BY <1>6, <2>4 DEF Reads
    <3> DEFINE n == Len(a.table)
               k == h.fixed[i]
    <3>4. n \in Nat
      BY <1>2, <2>4
    <3> HIDE DEF n, k
    <3>5. k + 1 \in 1..n
      BY <3>3, <3>4 DEF n, k
    <3> QED
      BY <1>3, <3>2, <3>3, <3>5 DEF n, k
  <2>5. CASE a.packing \notin {"CONST", "TABLE"}
    BY <1>7, <2>2, <2>5 DEF BlockAcceptedInt
  <2> QED
    BY <2>3, <2>4, <2>5
<1> QED
  BY <1>8, <1>9

\* A filter that takes neither value of a boolean column takes no row.
LEMMA HopelessIs ==
    ASSUME Numeric, Hopeless
    PROVE  RowsTaken(case) = {}
<1> SUFFICES ASSUME NEW r \in RowsTaken(case) PROVE FALSE
  OBVIOUS
<1> DEFINE x == StoredIn(case, case.docs[r + 1])
<1>1. kind = "bool" /\ ~ AcceptsBool(0) /\ ~ AcceptsBool(1)
  BY DEF Hopeless
<1>2. x \in Taken(case) /\ x \in Value /\ x \in {0, 1}
  BY <1>1, TakenRow
<1> HIDE DEF x
<1>3. AcceptsBool(x)
  BY <1>1, <1>2, TakenIs
<1> QED
  BY <1>1, <1>2, <1>3

\* The accessor after a sub-block is scanned, and the rows that are found in it.
Looked(sb) == IF ReadsAsConst THEN acc ELSE ReadSubblock(acc, sb)

RowsFound(row, a, sb, g) == {row + i - 1 : i \in {k \in 1..Tested(a, sb) : Passes(a, sb, k, g)}}

\* The rows of a sub-block that pass.
RowsOf(c, s) == {r \in RowsTaken(c) : GetSubblockId(r) = s}

\* A sub-block of the column begins with this row.
Begins(c, s, row) == row = s * SubblockSize /\ row < Len(c.docs)

\* A sub-block that is scanned gives the rows of it that pass.
LEMMA ScanIs ==
    ASSUME Numeric, Sound, BlocksFit(case, blocks), AccFits(case, blocks, acc), Ready(case, acc, tab),
           NEW s \in Nat, acc.block = SubblockId2BlockId(s),
           NEW sb, sb \in {GetSubblockIdInBlock(s)}, NEW row, Begins(case, s, row), NEW g
    PROVE  /\ AccFits(case, blocks, Looked(sb)) /\ Looked(sb).block = acc.block
           /\ Ready(case, Looked(sb), tab)
           /\ Tested(Looked(sb), sb) = NumValues(Looked(sb), sb)
           /\ RowsFound(row, Looked(sb), sb, g) = RowsOf(case, s)
<1> DEFINE b == acc.block
           v == CutOf(case, b)
           m == CountIn(Len(v), sb)
           h == ReadSubblock(acc, sb)
           a == Looked(sb)
           N == Len(docs)
           x(i) == StoredIn(case, case.docs[row + i])
           X == b * DocsPerBlock
           Y == sb * SubblockSize
<1>1. case \in IntCases /\ docs = case.docs /\ N \in Nat /\ kind = case.kind /\ ~ IsVar
  BY CaseIs DEF Numeric, docs, kind, IsVar
<1>2. /\ b \in Nat /\ b # -1 /\ sb \in Nat /\ sb < SubblocksPerBlock
      /\ b * DocsPerBlock \in Nat /\ sb * SubblockSize \in Nat
      /\ row = b * DocsPerBlock + sb * SubblockSize /\ row \in Nat /\ row < N
  <2>1. b \in Nat
    BY SubblockInBlock
  <2>2. b # -1
    BY <2>1
  <2>3. /\ sb \in Nat /\ sb < SubblocksPerBlock
        /\ b * DocsPerBlock \in Nat /\ sb * SubblockSize \in Nat
        /\ row = b * DocsPerBlock + sb * SubblockSize
    BY SubblockInBlock DEF Begins
  <2>4. row \in Nat /\ row < N
    BY <1>1, <2>3 DEF Begins
  <2> QED
    BY <2>1, <2>2, <2>3, <2>4
<1>3. /\ b * DocsPerBlock < N /\ sb \in PartsOf(v) /\ m \in 1..SubblockSize
      /\ \A i \in Nat : i \in 1..m <=> i \in 1..SubblockSize /\ row + i <= N
      /\ \A i \in 1..m : v[sb * SubblockSize + i] = x(i)
  <2>1. b * DocsPerBlock + sb * SubblockSize < Len(case.docs)
    BY <1>1, <1>2
  <2>4. case \in IntCases /\ b \in Nat /\ sb \in Nat /\ sb < SubblocksPerBlock
    BY <1>1, <1>2
  <2>2. /\ b * DocsPerBlock < Len(case.docs)
        /\ sb \in PartsOf(CutOf(case, b))
        /\ CountIn(Len(CutOf(case, b)), sb) \in 1..SubblockSize
        /\ \A i \in Nat : i \in 1..CountIn(Len(CutOf(case, b)), sb) <=>
               i \in 1..SubblockSize /\ b * DocsPerBlock + sb * SubblockSize + i <= Len(case.docs)
        /\ \A i \in 1..CountIn(Len(CutOf(case, b)), sb) :
               CutOf(case, b)[sb * SubblockSize + i]
                 = StoredIn(case, case.docs[b * DocsPerBlock + sb * SubblockSize + i])
    <3> HIDE DEF b
    <3> QED
      BY <2>1, <2>4, InBlock, Zenon
  <2>3. row = X + Y
    BY <1>2
  <2> HIDE DEF X, Y
  <2> QED
    BY <1>1, <2>2, <2>3 DEF X, Y
<1> HIDE DEF v, m, x
<1>16. row \in Nat /\ row < N /\ N \in Nat
  BY <1>1, <1>2
<1>4. /\ AccFits(case, blocks, h) /\ h.block = b /\ h.packing = acc.packing /\ h.table = acc.table
      /\ h.const = acc.const
  BY <1>2, <1>3, EntersSubblock DEF v
<1>5. a = IF ReadsAsConst THEN acc ELSE h
  BY DEF Looked
<1> HIDE DEF h, a
<1>6. AccFits(case, blocks, a) /\ a.block = b /\ Ready(case, a, tab)
  <2>1. CASE ReadsAsConst
    BY <1>5, <2>1
  <2>2. CASE ~ ReadsAsConst
    BY <1>4, <1>5, <2>2 DEF Ready
  <2> QED
    BY <2>1, <2>2
<1>7. NumValues(a, sb) = m
  BY <1>2, <1>3, <1>6, NumValuesIs DEF v, m
<1>8. Tested(a, sb) = m
  BY <1>1, <1>7 DEF Tested
<1>9. ASSUME NEW i \in 1..m
      PROVE  Passes(a, sb, i, g) <=> x(i) \in Taken(case)
  <2>1. Reads(h, i, x(i))
    <3>1. Reads(h, i, v[sb * SubblockSize + i])
      BY <1>2, <1>3, HoldsIs DEF v, m, h
    <3> QED
      BY <1>3, <3>1
  <2>2. h.packing \in Packings(case)
    BY <1>2, <1>4, HeaderIs
  <2>3. i \in Nat /\ row + i \in 1..N
    BY <1>3, <1>16, WordIs
  <2>4. x(i) \in Value
    BY <1>1, <2>3, StoredType DEF x
  <2>5. kind = "bool" => x(i) \in {0, 1}
    BY <1>1, StoredBits DEF x
  <2>6. ~ ReadsAsConst => a = h
    BY <1>5
  <2> HIDE DEF x
  <2> DEFINE y == x(i)
  <2> HIDE DEF y
  <2>7. y \in Value /\ Reads(h, i, y) /\ (kind = "bool" => y \in {0, 1})
    BY <2>1, <2>4, <2>5 DEF y
  <2>8. Passes(a, sb, i, g) <=> y \in Taken(case)
    BY <1>4, <2>2, <2>6, <2>7, PassIs
  <2> QED
    BY <2>8 DEF y
<1>10. SubblockSize \in Nat /\ m \in Nat
  BY <1>3, WordIs
<1>11. \A i \in 1..m : i \in Nat /\ row + i - 1 \in Nat /\ (row + i - 1) + 1 = row + i
  BY <1>10, <1>16
<1>12. ASSUME NEW i \in 1..m
       PROVE  /\ row + i - 1 \in RowsTaken(case) <=> x(i) \in Taken(case)
              /\ GetSubblockId(row + i - 1) = s
  <2> DEFINE r == row + i - 1
  <2>1. i \in Nat /\ i \in 1..SubblockSize /\ row + i <= N /\ r \in Nat /\ r + 1 = row + i
    BY <1>3, <1>11
  <2>2. r \in 0..(Len(case.docs) - 1)
    BY <1>1, <1>16, <2>1
  <2>3. r \in RowsTaken(case) <=> StoredIn(case, case.docs[r + 1]) \in Taken(case)
    BY <2>2 DEF RowsTaken
  <2>4. GetSubblockId(r) = s
    <3>4. r \in Nat /\ row <= r /\ r < row + SubblockSize
      BY <1>10, <1>16, <2>1
    <3>1. row = s * SubblockSize /\ r \in Nat /\ row <= r /\ r < row + SubblockSize
      BY <3>4 DEF Begins
    <3>2. s * SubblockSize <= r /\ r < s * SubblockSize + SubblockSize
      BY <3>1
    <3> HIDE DEF r
    <3>3. r \div SubblockSize = s
      BY <3>1, <3>2, QuotientIs, WordIs
    <3> QED
      BY <3>3 DEF GetSubblockId
  <2> HIDE DEF r
  <2>5. StoredIn(case, case.docs[r + 1]) = x(i)
    BY <2>1 DEF x
  <2> QED
    BY <2>3, <2>4, <2>5 DEF r
<1>13. ASSUME NEW r, r \in RowsFound(row, a, sb, g)
       PROVE  r \in RowsOf(case, s)
  <2>1. PICK i \in 1..m : Passes(a, sb, i, g) /\ r = row + i - 1
    BY <1>8, <1>13 DEF RowsFound
  <2> QED
    BY <1>9, <1>12, <2>1 DEF RowsOf
<1>14. ASSUME NEW r, r \in RowsOf(case, s)
       PROVE  r \in RowsFound(row, a, sb, g)
  <2>1. r \in RowsTaken(case) /\ GetSubblockId(r) = s
    BY <1>14 DEF RowsOf
  <2>2. r \in Nat /\ r < N
    BY <2>1, TakenRow
  <2>3. row <= r /\ r < row + SubblockSize
    <3>1. s * SubblockSize <= r /\ r < s * SubblockSize + SubblockSize
      BY <2>1, <2>2, SubblockOf
    <3> QED
      BY <3>1 DEF Begins
  <2> DEFINE i == r - row + 1
  <2>4. i \in Nat /\ i \in 1..SubblockSize /\ row + i <= N /\ r = row + i - 1
    BY <1>10, <1>16, <2>2, <2>3
  <2> HIDE DEF i
  <2>5. i \in 1..m
    BY <1>3, <2>4
  <2>6. Passes(a, sb, i, g)
    BY <1>9, <1>12, <2>1, <2>4, <2>5
  <2> QED
    BY <1>8, <2>4, <2>5, <2>6 DEF RowsFound
<1>15. RowsFound(row, a, sb, g) = RowsOf(case, s)
  BY <1>13, <1>14
<1> QED
  BY <1>6, <1>7, <1>8, <1>15 DEF a

-----------------------------------------------------------------------------
(* What is found, owed and given. *)

\* The rows of an analyzer, those of sub-blocks from number k on, and those before them.
Matched(c, pm) == {r \in RowsTaken(c) : Listed(c, pm, GetSubblockId(r))}
LeftIn(pm, n, r, k) == \E i \in k..(n - 1) : BlockAt(pm, i) = GetSubblockId(r)
Behind(pm, n, r, k) == \A i \in k..(n - 1) : GetSubblockId(r) < BlockAt(pm, i)
Holds(F, r) == \E i \in 1..Len(F) : F[i] = r

\* With sub-blocks from number k on to come and these rows found: what is owed is found or
\* to come, what was given and what is found is past.
RowsFit(c, pm, n, F, k, ow, gi, fr) ==
    /\ F \in Seq(Nat) /\ Rising(F)
    /\ \A i \in 1..Len(F) : F[i] \in Matched(c, pm) /\ fr <= F[i] /\ Behind(pm, n, F[i], k)
    /\ ow \subseteq Matched(c, pm) /\ gi \subseteq Matched(c, pm)
    /\ \A r \in ow : Holds(F, r) \/ LeftIn(pm, n, r, k)
    /\ \A r \in gi : r < fr /\ Behind(pm, n, r, k)
    /\ fr \in Nat /\ (fr = 0 \/ fr - 1 \in gi)

\* A row of an analyzer is one of the column.
LEMMA MatchedIs ==
    ASSUME Numeric, NEW pm, NEW r \in Matched(case, pm)
    PROVE  r \in Nat /\ r < Len(docs) /\ r \in RowsTaken(case) /\ GetSubblockId(r) \in Nat
BY TakenRow, SubblockOf DEF Matched

\* At first all the rows are to come.
LEMMA RowsStart ==
    ASSUME Numeric, NEW pm, NEW n, ListFits(case, pm, n)
    PROVE  RowsFit(case, pm, n, << >>, 0, Matched(case, pm), {}, 0)
<1> DEFINE e == << >>
<1>1. e \in Seq(Nat) /\ Len(e) = 0 /\ DOMAIN e = {} /\ Rising(e)
  BY DEF Rising
<1>2. ASSUME NEW r \in Matched(case, pm)
      PROVE  LeftIn(pm, n, r, 0)
  <2>1. GetSubblockId(r) \in Nat /\ Listed(case, pm, GetSubblockId(r))
    BY MatchedIs DEF Matched
  <2> QED
    BY <2>1 DEF ListFits, LeftIn
<1> HIDE DEF e
<1>3. 1..Len(e) = {}
  BY <1>1
<1> QED
  BY <1>1, <1>2, <1>3 DEF RowsFit, e

\* Sub-blocks that have no row that is owed can be left out.
LEMMA RowsSkip ==
    ASSUME Numeric, NEW pm, NEW n, ListFits(case, pm, n), NEW F, NEW k \in Nat, NEW ow, NEW gi, NEW fr,
           RowsFit(case, pm, n, F, k, ow, gi, fr), NEW q \in Nat, k <= q, NEW less, less \subseteq ow,
           \A r \in less : \A i \in k..(n - 1) : BlockAt(pm, i) = GetSubblockId(r) => q <= i
    PROVE  RowsFit(case, pm, n, F, q, less, gi, fr)
<1>1. n \in Nat
  BY DEF ListFits
<1>2. \A i \in q..(n - 1) : i \in k..(n - 1)
  BY <1>1
<1>3. \A r : Behind(pm, n, r, k) => Behind(pm, n, r, q)
  BY <1>2 DEF Behind
<1>4. ASSUME NEW r \in less
      PROVE  Holds(F, r) \/ LeftIn(pm, n, r, q)
  <2>1. Holds(F, r) \/ LeftIn(pm, n, r, k)
    BY DEF RowsFit
  <2>2. ASSUME LeftIn(pm, n, r, k)
        PROVE  LeftIn(pm, n, r, q)
    <3>1. PICK i \in k..(n - 1) : BlockAt(pm, i) = GetSubblockId(r)
      BY <2>2 DEF LeftIn
    <3>2. q <= i
      BY <3>1
    <3>3. i \in q..(n - 1)
      BY <1>1, <3>2
    <3> QED
      BY <3>1, <3>3 DEF LeftIn
  <2> QED
    BY <2>1, <2>2
<1> QED
  BY <1>3, <1>4 DEF RowsFit

\* The rows of the next sub-block are added.
LEMMA RowsMore ==
    ASSUME Numeric, NEW pm, NEW n, ListFits(case, pm, n), NEW F, NEW k \in 0..(n - 1), NEW ow, NEW gi, NEW fr,
           RowsFit(case, pm, n, F, k, ow, gi, fr), NEW G \in Seq(Nat), Rising(G),
           \A r : r \in RowsOf(case, BlockAt(pm, k)) <=> Holds(G, r)
    PROVE  /\ RowsFit(case, pm, n, F \o G, k + 1, ow, gi, fr)
           /\ Len(F \o G) = Len(F) + Len(G)
<1> DEFINE H == F \o G
           f == Len(F)
           g == Len(G)
           s == BlockAt(pm, k)
<1>1. n \in Nat /\ k \in Nat /\ s \in Nat /\ Listed(case, pm, s)
      /\ \A i \in (k + 1)..(n - 1) : s < BlockAt(pm, i) /\ BlockAt(pm, i) \in Nat
  <2>1. n \in Nat
    BY DEF ListFits
  <2>2. s \in Nat /\ Listed(case, pm, s)
    BY DEF ListFits
  <2>3. \A i \in (k + 1)..(n - 1) : i \in 0..(n - 1) /\ k < i
    BY <2>1
  <2> QED
    BY <2>1, <2>2, <2>3 DEF ListFits
<1>2. F \in Seq(Nat) /\ f \in Nat /\ g \in Nat /\ DOMAIN F = 1..f /\ DOMAIN G = 1..g
  BY DEF RowsFit
<1>3. /\ H \in Seq(Nat) /\ Len(H) = f + g /\ DOMAIN H = 1..(f + g)
      /\ \A i \in 1..(f + g) : H[i] = IF i <= f THEN F[i] ELSE G[i - f]
  BY <1>2
<1> HIDE DEF H, f, g, s
<1>4. \A r \in RowsOf(case, s) : r \in Matched(case, pm) /\ GetSubblockId(r) = s
  BY <1>1 DEF RowsOf, Matched
<1>5. \A i \in 1..g : G[i] \in RowsOf(case, s)
  BY DEF Holds, s, g
<1>6. \A r : Behind(pm, n, r, k) => Behind(pm, n, r, k + 1) /\ GetSubblockId(r) < s
  <2>1. \A i \in (k + 1)..(n - 1) : i \in k..(n - 1)
    BY <1>1
  <2>2. k \in k..(n - 1)
    BY <1>1
  <2> QED
    BY <2>1, <2>2 DEF Behind, s
<1>7. \A r : GetSubblockId(r) = s => Behind(pm, n, r, k + 1)
  BY <1>1 DEF Behind
<1>8. ASSUME NEW r, r \in Nat, Behind(pm, n, r, k), NEW t \in RowsOf(case, s)
      PROVE  r < t
  <2>1. t \in Nat /\ GetSubblockId(t) = s
    BY <1>4, MatchedIs
  <2>2. GetSubblockId(r) < GetSubblockId(t)
    BY <1>6, <1>8, <2>1
  <2> QED
    BY <1>8, <2>1, <2>2, RowsInOrder
<1>9. /\ \A i \in 1..f : F[i] \in Matched(case, pm) /\ fr <= F[i] /\ Behind(pm, n, F[i], k)
      /\ ow \subseteq Matched(case, pm) /\ gi \subseteq Matched(case, pm)
      /\ \A r \in ow : Holds(F, r) \/ LeftIn(pm, n, r, k)
      /\ \A r \in gi : r < fr /\ Behind(pm, n, r, k)
      /\ fr \in Nat /\ (fr = 0 \/ fr - 1 \in gi) /\ Rising(F)
  BY DEF RowsFit, f
<1>10. ASSUME NEW t \in RowsOf(case, s)
       PROVE  t \in Nat /\ fr <= t
  <2>1. t \in Nat
    BY <1>4, MatchedIs
  <2>2. CASE fr = 0
    BY <2>1, <2>2
  <2>3. CASE fr - 1 \in gi
    <3>1. Behind(pm, n, fr - 1, k) /\ fr - 1 \in Nat
      BY <1>9, <2>3, MatchedIs
    <3>2. fr - 1 < t
      BY <1>8, <3>1
    <3> QED
      BY <1>9, <2>1, <3>2
  <2> QED
    BY <1>9, <2>2, <2>3
<1>11. ASSUME NEW i \in 1..(f + g)
       PROVE  (i \in 1..f /\ H[i] = F[i]) \/ (i - f \in 1..g /\ f < i /\ H[i] = G[i - f])
  <2>1. i <= f => i \in 1..f
    BY <1>2
  <2>2. ~ (i <= f) => i - f \in 1..g /\ f < i
    BY <1>2
  <2>3. H[i] = IF i <= f THEN F[i] ELSE G[i - f]
    BY <1>3
  <2> QED
    BY <2>1, <2>2, <2>3, Zenon
<1>12. ASSUME NEW i \in 1..(f + g)
       PROVE  H[i] \in Matched(case, pm) /\ fr <= H[i] /\ Behind(pm, n, H[i], k + 1)
  <2>1. CASE i \in 1..f /\ H[i] = F[i]
    BY <1>6, <1>9, <2>1
  <2>2. CASE i - f \in 1..g /\ H[i] = G[i - f]
    BY <1>4, <1>5, <1>7, <1>10, <2>2
  <2> QED
    BY <1>11, <2>1, <2>2
<1>13. ASSUME NEW i \in 1..(f + g), NEW j \in 1..(f + g), i < j
       PROVE  H[i] < H[j]
  <2>1. CASE i \in 1..f /\ j \in 1..f /\ H[i] = F[i] /\ H[j] = F[j]
    BY <1>2, <1>9, <1>13, <2>1 DEF Rising
  <2>2. CASE i \in 1..f /\ H[i] = F[i] /\ j - f \in 1..g /\ H[j] = G[j - f]
    <3>1. G[j - f] \in RowsOf(case, s)
      BY <1>5, <2>2
    <3>2. Behind(pm, n, F[i], k) /\ F[i] \in Nat
      BY <1>9, <2>2, MatchedIs
    <3> QED
      BY <1>8, <2>2, <3>1, <3>2
  <2>3. CASE i - f \in 1..g /\ H[i] = G[i - f] /\ j - f \in 1..g /\ H[j] = G[j - f]
    <3>1. i - f < j - f
      BY <1>2, <1>13
    <3> QED
      BY <1>2, <2>3, <3>1 DEF Rising
  <2>4. ~ (f < i /\ j \in 1..f)
    BY <1>2, <1>13
  <2> QED
    BY <1>11, <2>1, <2>2, <2>3, <2>4
<1>14. ASSUME NEW r \in ow
       PROVE  Holds(H, r) \/ LeftIn(pm, n, r, k + 1)
  <2>1. CASE Holds(F, r)
    <3>1. PICK i \in 1..f : F[i] = r
      BY <2>1 DEF Holds, f
    <3>2. i \in 1..(f + g) /\ H[i] = F[i]
      BY <1>2, <1>3
    <3> QED
      BY <1>3, <3>1, <3>2 DEF Holds
  <2>2. CASE LeftIn(pm, n, r, k)
    <3>1. PICK i \in k..(n - 1) : BlockAt(pm, i) = GetSubblockId(r)
      BY <2>2 DEF LeftIn
    <3>2. CASE i = k
      <4>1. r \in RowsOf(case, s)
        BY <1>9, <3>1, <3>2, MatchedIs DEF RowsOf, s
      <4>2. PICK j \in 1..g : G[j] = r
        BY <4>1 DEF Holds, s, g
      <4>3. f + j \in 1..(f + g) /\ H[f + j] = G[j]
        <5>1. f + j \in 1..(f + g) /\ ~ (f + j <= f) /\ (f + j) - f = j
          BY <1>2
        <5> QED
          BY <1>3, <5>1
      <4> QED
        BY <1>3, <4>2, <4>3 DEF Holds
    <3>3. CASE i # k
      <4>1. i \in (k + 1)..(n - 1)
        BY <1>1, <3>3
      <4> QED
        BY <3>1, <4>1 DEF LeftIn
    <3> QED
      BY <3>2, <3>3
  <2> QED
    BY <1>9, <2>1, <2>2
<1>15. Rising(H)
  BY <1>3, <1>13 DEF Rising
<1>16. RowsFit(case, pm, n, H, k + 1, ow, gi, fr)
  BY <1>3, <1>6, <1>9, <1>12, <1>14, <1>15 DEF RowsFit
<1> QED
  BY <1>3, <1>16 DEF H, f, g

\* What is known of the rows that are given.
GivenFits(c, pm, n, F, k, ow, gi, fr) ==
    /\ RowsFit(c, pm, n, << >>, k, ow \ ToSet(F), gi \cup ToSet(F), Last(F) + 1)
    /\ Head(F) >= fr /\ \A i \in 2..Len(F) : F[i - 1] < F[i]
    /\ Last(F) \in Matched(c, pm) /\ fr <= Last(F)
    /\ \A r \in ow : fr <= r /\ (r \in ToSet(F) <=> r <= Last(F))
    /\ IsFiniteSet(gi) => /\ IsFiniteSet(gi \cup ToSet(F))
                          /\ Cardinality(gi \cup ToSet(F)) = Cardinality(gi) + Len(F)

\* The rows that are found are given.
LEMMA RowsGiven ==
    ASSUME Numeric, NEW pm, NEW n, ListFits(case, pm, n), NEW F, NEW k \in Nat, NEW ow, NEW gi, NEW fr,
           RowsFit(case, pm, n, F, k, ow, gi, fr), F # << >>
    PROVE  GivenFits(case, pm, n, F, k, ow, gi, fr)
<1> DEFINE f == Len(F)
           l == Last(F)
           T == ToSet(F)
           M == Matched(case, pm)
<1>1. /\ F \in Seq(Nat) /\ Rising(F)
      /\ \A i \in 1..f : F[i] \in M /\ fr <= F[i] /\ Behind(pm, n, F[i], k)
      /\ ow \subseteq M /\ gi \subseteq M
      /\ \A r \in ow : Holds(F, r) \/ LeftIn(pm, n, r, k)
      /\ \A r \in gi : r < fr /\ Behind(pm, n, r, k)
      /\ fr \in Nat /\ (fr = 0 \/ fr - 1 \in gi)
  BY DEF RowsFit
<1>2. f \in Nat \ {0} /\ DOMAIN F = 1..f /\ l = F[f] /\ Head(F) = F[1] /\ \A i \in 1..f : F[i] \in Nat
  BY <1>1 DEF Last
<1>3. \A i, j \in 1..f : i < j => F[i] < F[j]
  BY <1>1, <1>2 DEF Rising
<1>4. \A r : r \in T <=> Holds(F, r)
  BY <1>1, FewValues DEF Holds
<1> HIDE DEF f, l, T, M
<1>5. 1 \in 1..f /\ f \in 1..f /\ \A i \in 1..f : F[i] <= l
  <2>1. 1 \in 1..f /\ f \in 1..f
    BY <1>2
  <2>2. \A i \in 1..f : i = f \/ i < f
    BY <1>2
  <2> QED
    BY <1>2, <1>3, <2>1, <2>2
<1>6. Head(F) >= fr /\ l \in M /\ fr <= l /\ l \in Nat
  BY <1>1, <1>2, <1>5
<1>7. \A i \in 2..f : F[i - 1] < F[i]
  <2>1. \A i \in 2..f : i - 1 \in 1..f /\ i \in 1..f /\ i - 1 < i
    BY <1>2
  <2> QED
    BY <1>3, <2>1
<1>8. \A r \in M : r \in Nat
  BY MatchedIs DEF M
<1>9. ASSUME NEW r \in M, LeftIn(pm, n, r, k), NEW t \in M, Behind(pm, n, t, k)
      PROVE  t < r
  <2>1. PICK i \in k..(n - 1) : BlockAt(pm, i) = GetSubblockId(r)
    BY <1>9 DEF LeftIn
  <2>2. GetSubblockId(t) < GetSubblockId(r)
    BY <1>9, <2>1 DEF Behind
  <2> QED
    BY <1>8, <2>2, RowsInOrder
<1>10. Behind(pm, n, l, k)
  BY <1>1, <1>2, <1>5
<1>11. ASSUME NEW r \in ow
       PROVE  fr <= r /\ (r \in T <=> r <= l) /\ (r \notin T => LeftIn(pm, n, r, k))
  <2>1. r \in M /\ r \in Nat
    BY <1>1, <1>8
  <2>2. CASE Holds(F, r)
    <3>1. PICK i \in 1..f : F[i] = r
      BY <2>2 DEF Holds, f
    <3> QED
      BY <1>1, <1>4, <1>5, <2>2, <3>1
  <2>3. CASE ~ Holds(F, r)
    <3>1. LeftIn(pm, n, r, k)
      BY <1>1, <2>3
    <3>2. l < r
      BY <1>6, <1>9, <1>10, <2>1, <3>1
    <3> QED
      BY <1>1, <1>4, <1>6, <2>1, <2>3, <3>1, <3>2
  <2> QED
    BY <2>2, <2>3
<1>12. ASSUME NEW r \in gi \cup T
       PROVE  r \in M /\ r < l + 1 /\ Behind(pm, n, r, k)
  <2>1. CASE r \in gi
    <3>1. r \in M /\ r \in Nat /\ r < fr /\ Behind(pm, n, r, k)
      BY <1>1, <1>8, <2>1
    <3> QED
      BY <1>1, <1>6, <3>1
  <2>2. CASE r \in T
    <3>1. PICK i \in 1..f : F[i] = r
      BY <1>4, <2>2 DEF Holds, f
    <3>2. r <= l /\ r \in Nat
      BY <1>2, <1>5, <3>1
    <3> QED
      BY <1>1, <1>6, <3>1, <3>2
  <2> QED
    BY <2>1, <2>2
<1>13. l \in T
  BY <1>2, <1>4, <1>5 DEF Holds, f
<1>14. RowsFit(case, pm, n, << >>, k, ow \ T, gi \cup T, l + 1)
  <2> DEFINE e == << >>
  <2>1. e \in Seq(Nat) /\ Len(e) = 0 /\ DOMAIN e = {} /\ Rising(e)
    BY DEF Rising
  <2> HIDE DEF e
  <2>2. 1..Len(e) = {}
    BY <2>1
  <2>3. l + 1 \in Nat /\ (l + 1) - 1 \in gi \cup T
    BY <1>6, <1>13
  <2>4. ow \ T \subseteq M /\ gi \cup T \subseteq M
    BY <1>1, <1>12
  <2> QED
    BY <1>11, <1>12, <2>1, <2>2, <2>3, <2>4 DEF RowsFit, M, e
<1>15. ASSUME IsFiniteSet(gi)
       PROVE  IsFiniteSet(gi \cup T) /\ Cardinality(gi \cup T) = Cardinality(gi) + f
  <2>1. IsFiniteSet(T) /\ Cardinality(T) = f
    <3> DEFINE U == 1..f
    <3>1. IsFiniteSet(U) /\ Cardinality(U) = f
      <4>1. 1 \in Int /\ f \in Int
        BY <1>2
      <4>2. IsFiniteSet(1..f) /\ Cardinality(1..f) = IF 1 > f THEN 0 ELSE f - 1 + 1
        BY <4>1, FS_Interval
      <4> QED
        BY <1>2, <4>2
    <3>2. F \in [U -> T] /\ DOMAIN F = U
      <4>1. \A i \in 1..f : F[i] \in T
        BY <1>4 DEF Holds, f
      <4>2. F = [i \in 1..f |-> F[i]]
        BY <1>1, <1>2
      <4> QED
        BY <1>2, <4>1, <4>2
    <3>3. \A t \in T : \E u \in U : F[u] = t
      BY <1>4 DEF Holds, f
    <3>4. ASSUME NEW i \in U, NEW j \in U, F[i] = F[j]
          PROVE  i = j
      <4>1. i \in 1..f /\ j \in 1..f /\ F[i] \in Nat
        BY <1>2
      <4>2. ~ (F[i] < F[j]) /\ ~ (F[j] < F[i])
        BY <3>4, <4>1
      <4>3. ~ (i < j) /\ ~ (j < i)
        BY <1>3, <4>1, <4>2
      <4> QED
        BY <1>2, <4>1, <4>3
    <3> HIDE DEF U
    <3>5. F \in Surjection(U, T)
      BY <3>2, <3>3 DEF Surjection
    <3>6. F \in Injection(U, T)
      BY <3>2, <3>4 DEF Injection, IsInjective
    <3> QED
      BY <3>1, <3>5, <3>6, FS_Surjection
  <2>2. gi \cap T = {}
    <3> SUFFICES ASSUME NEW r \in gi, r \in T PROVE FALSE
      OBVIOUS
    <3>1. PICK i \in 1..f : F[i] = r
      BY <1>4 DEF Holds, f
    <3>2. r \in Nat /\ r < fr /\ fr <= r
      BY <1>1, <1>2, <3>1
    <3> QED
      BY <1>1, <3>2
  <2>3. Cardinality(gi) \in Nat
    BY <1>15, FS_CardinalityType
  <2>4. IsFiniteSet(gi \cup T) /\ Cardinality(gi \cup T) = Cardinality(gi) + Cardinality(T) - Cardinality(gi \cap T)
    BY <1>15, <2>1, FS_Union
  <2>5. Cardinality(gi \cap T) = 0
    BY <2>2, FS_EmptySet
  <2> QED
    BY <1>2, <2>1, <2>3, <2>4, <2>5
<1> QED
  BY <1>6, <1>7, <1>11, <1>14, <1>15 DEF GivenFits, f, l, T, M

-----------------------------------------------------------------------------
(* The walk. *)

\* A cutoff, less what was given.
CountFits(gi, cut, left) ==
    /\ IsFiniteSet(gi) /\ cut \in Nat /\ left \in Nat
    /\ left > 0 => Cardinality(gi) + left = cut
    /\ left = 0 => Cardinality(gi) >= cut /\ Cardinality(gi) < cut + SubblockSize

\* What holds wherever the walk is.
Standing ==
    /\ AccFits(case, blocks, acc) /\ DOMAIN tab = TabFields
    /\ ListFits(case, pMatching, total)
    /\ curSubblock \in Nat /\ target \in Nat /\ curBlockId = acc.block
    /\ pc \in {"idle", "scan", "go", "move"} /\ caller \in {"Setup", "Hint", "Next"} /\ ended \in BOOLEAN
    /\ CountFits(given, cutoff, rowsLeft)

\* The accessor is at the block of the sub-block the walk has come to.
OnBlock ==
    /\ curSubblock < total /\ Ready(case, acc, tab)
    /\ acc.block = SubblockId2BlockId(BlockAt(pMatching, curSubblock))
    /\ tRowID = SubblockId2RowId(BlockAt(pMatching, curSubblock))

\* The walk of an analyzer, between any two of its steps.
WalkFits ==
    /\ Standing
    /\ RowsFit(case, pMatching, total, found, IF pc = "go" THEN target ELSE curSubblock, owed, given, front)
    /\ pc = "scan" \/ (pc = "idle" /\ ~ ended /\ curSubblock < total) => OnBlock
    /\ pc = "go" => caller # "Next" /\ (acc.block # -1 => Ready(case, acc, tab))
    /\ pc = "move" => /\ curSubblock < total
                      /\ nextBlock = SubblockId2BlockId(BlockAt(pMatching, curSubblock))
    /\ ended => pc = "idle" /\ (owed = {} \/ rowsLeft = 0)
    /\ pc = "scan" => caller = "Next" /\ Len(found) < SubblockSize /\ Len(found) < rowsLeft
    /\ pc = "move" /\ caller = "Next" => rowsLeft > 0 /\ Len(found) < rowsLeft + SubblockSize
    /\ pc = "idle" \/ caller # "Next" => found = << >>

\* What the caller sees of a step.
StreamMoves ==
    \/ UNCHANGED <<owed, front, ended>>
    \/ \E last \in Matched(case, pMatching) :
          /\ ~ ended /\ ended' = ended
          /\ last >= front /\ \A r \in owed : r >= front
          /\ front' = last + 1 /\ owed' = {r \in owed : r > last}
    \/ (owed = {} \/ rowsLeft = 0) /\ ended' = TRUE /\ UNCHANGED <<owed, front>>

\* Rows that are owed are to come if none is found.
LEMMA NoneOwed ==
    ASSUME Numeric, NEW pm, NEW n, ListFits(case, pm, n), NEW k \in Nat, NEW ow, NEW gi, NEW fr,
           RowsFit(case, pm, n, << >>, k, ow, gi, fr), k >= n \/ RowsTaken(case) = {}
    PROVE  ow = {}
<1> SUFFICES ASSUME NEW r \in ow PROVE FALSE
  OBVIOUS
<1>1. r \in Matched(case, pm) /\ (Holds(<< >>, r) \/ LeftIn(pm, n, r, k))
  BY DEF RowsFit
<1>2. n \in Nat
  BY DEF ListFits
<1>3. ~ Holds(<< >>, r)
  <2>1. 1..Len(<< >>) = {}
    OBVIOUS
  <2> QED
    BY <2>1 DEF Holds
<1>4. r \in RowsTaken(case)
  BY <1>1 DEF Matched
<1>5. k >= n
  BY <1>4
<1>6. k..(n - 1) = {}
  BY <1>2, <1>5
<1> QED
  BY <1>1, <1>3, <1>6 DEF LeftIn

\* After MoveToSubblock has answered.
LEMMA ResumedFits ==
    ASSUME Numeric, NEW ok \in BOOLEAN, NEW F, Resumed(ok, F),
           case' = case, blocks' = blocks, pMatching' = pMatching, total' = total, cutoff' = cutoff,
           caller' = caller, target' = target,
           AccFits(case, blocks, acc'), DOMAIN tab' = TabFields, ListFits(case, pMatching, total),
           target \in Nat, curSubblock' \in Nat, curBlockId' = acc'.block,
           caller \in {"Setup", "Hint", "Next"}, ended = FALSE, CountFits(given, cutoff, rowsLeft),
           ok => OnBlock',
           ~ ok => curSubblock' >= total \/ (RowsTaken(case) = {} /\ caller # "Setup"),
           RowsFit(case, pMatching, total, F, curSubblock', owed, given, front),
           caller = "Next" => rowsLeft > 0 /\ Len(F) < rowsLeft + SubblockSize,
           caller # "Next" => found = << >> /\ F = << >>
    PROVE  WalkFits' /\ StreamMoves
<1> DEFINE S == SubblockSize
<1>1. S \in Nat \ {0} /\ rowsLeft \in Nat /\ F \in Seq(Nat) /\ Len(F) \in Nat /\ total \in Nat
  <2>1. F \in Seq(Nat)
    BY DEF RowsFit
  <2> QED
    BY <2>1, WordIs DEF CountFits, ListFits
<1>2. /\ AccFits(case', blocks', acc') /\ DOMAIN tab' = TabFields /\ ListFits(case', pMatching', total')
      /\ curSubblock' \in Nat /\ target' \in Nat /\ curBlockId' = acc'.block
      /\ caller' \in {"Setup", "Hint", "Next"}
  OBVIOUS
<1> DEFINE e == << >>
<1>3. e \in Seq(Nat) /\ Len(e) = 0
  OBVIOUS
<1>4. EnoughRows(F) <=> Len(F) >= (IF rowsLeft < S THEN rowsLeft ELSE S)
  BY DEF EnoughRows
<1> HIDE DEF S, e
<1>5. CASE caller = "Next" /\ ok /\ ~ EnoughRows(F) /\ pc' = "scan" /\ found' = F /\ UNCHANGED <<rowsLeft, seen>>
  <2>1. owed' = owed /\ given' = given /\ front' = front /\ ended' = FALSE /\ rowsLeft' = rowsLeft
    BY <1>5 DEF seen
  <2>2. Len(F) < S /\ Len(F) < rowsLeft
    BY <1>1, <1>4, <1>5
  <2>3. Standing'
    BY <1>2, <1>5, <2>1 DEF Standing
  <2>4. RowsFit(case', pMatching', total', found', curSubblock', owed', given', front')
    BY <1>5, <2>1
  <2>5. OnBlock' /\ pc' = "scan" /\ caller' = "Next" /\ Len(found') < S /\ Len(found') < rowsLeft'
    BY <1>5, <2>1, <2>2
  <2>6. WalkFits'
    BY <2>1, <2>3, <2>4, <2>5 DEF WalkFits, S
  <2> QED
    BY <2>1, <2>6 DEF StreamMoves
<1>6. CASE caller = "Next" /\ (~ ok \/ EnoughRows(F)) /\ Delivered(F)
  <2>1. pc' = "idle" /\ found' = e /\ rowsLeft' = Spent(F)
    BY <1>6 DEF Delivered, e
  <2>2. rowsLeft > 0 /\ Len(F) < rowsLeft + S
    BY <1>6 DEF S
  <2>3. CASE F = e
    <3>1. ended' = TRUE /\ owed' = owed /\ front' = front /\ given' = given
      BY <1>6, <2>3 DEF Delivered, e
    <3>2. ~ ok
      BY <1>1, <1>3, <1>4, <1>6, <2>2, <2>3
    <3>3. owed = {}
      BY <2>3, <3>2, NoneOwed DEF e
    <3>4. rowsLeft' = rowsLeft
      BY <1>1, <1>3, <2>1, <2>2, <2>3 DEF Spent
    <3>5. Standing'
      BY <1>2, <2>1, <3>1, <3>4 DEF Standing
    <3>6. RowsFit(case', pMatching', total', found', curSubblock', owed', given', front')
      BY <2>1, <2>3, <3>1
    <3>7. WalkFits'
      BY <2>1, <3>1, <3>3, <3>5, <3>6 DEF WalkFits, e
    <3> QED
      BY <3>1, <3>3, <3>7 DEF StreamMoves
  <2>4. CASE F # e
    <3>1. owed' = owed \ ToSet(F) /\ front' = FrontAfter(F) /\ given' = given \cup ToSet(F) /\ ended' = FALSE
      BY <1>6, <2>4 DEF Delivered, e
    <3>2. /\ RowsFit(case, pMatching, total, e, curSubblock', owed \ ToSet(F), given \cup ToSet(F), Last(F) + 1)
          /\ Head(F) >= front /\ \A i \in 2..Len(F) : F[i - 1] < F[i]
          /\ Last(F) \in Matched(case, pMatching) /\ front <= Last(F)
          /\ \A r \in owed : front <= r /\ (r \in ToSet(F) <=> r <= Last(F))
          /\ IsFiniteSet(given) => /\ IsFiniteSet(given \cup ToSet(F))
                                   /\ Cardinality(given \cup ToSet(F)) = Cardinality(given) + Len(F)
      <4> DEFINE q == curSubblock'
      <4>1. F # << >> /\ q \in Nat /\ e = << >>
        BY <2>4 DEF e
      <4>2. ListFits(case, pMatching, total) /\ RowsFit(case, pMatching, total, F, q, owed, given, front)
        OBVIOUS
      <4> HIDE DEF q
      <4>3. GivenFits(case, pMatching, total, F, q, owed, given, front)
        BY <4>1, <4>2, RowsGiven
      <4> QED
        BY <4>1, <4>3 DEF q, GivenFits
    <3>3. front' = Last(F) + 1
      BY <3>1, <3>2 DEF FrontAfter
    <3>4. RowsFit(case', pMatching', total', found', curSubblock', owed', given', front')
      BY <2>1, <3>1, <3>2, <3>3
    <3>5. CountFits(given', cutoff', rowsLeft')
      <4> DEFINE c == Cardinality(given)
                 d == Cardinality(given')
                 l == rowsLeft'
                 f == Len(F)
      <4>1. IsFiniteSet(given) /\ cutoff \in Nat /\ c + rowsLeft = cutoff
        BY <2>2 DEF CountFits
      <4>2. c \in Nat /\ IsFiniteSet(given') /\ d = c + f
        BY <3>1, <3>2, <4>1, FS_CardinalityType
      <4>3. l = IF rowsLeft > f THEN rowsLeft - f ELSE 0
        BY <2>1 DEF Spent
      <4> HIDE DEF c, d, l, f
      <4>4. f \in Nat
        BY <1>1 DEF f
      <4>5. /\ l \in Nat /\ (l > 0 => d + l = cutoff)
            /\ l = 0 => d >= cutoff /\ d < cutoff + S
        BY <1>1, <2>2, <4>1, <4>2, <4>3, <4>4 DEF f
      <4> QED
        BY <4>1, <4>2, <4>5 DEF CountFits, d, l, S
    <3>6. Standing'
      BY <1>2, <2>1, <3>1, <3>5 DEF Standing
    <3>7. curSubblock' < total' => OnBlock'
      <4> SUFFICES ASSUME curSubblock' < total', ~ ok PROVE FALSE
        OBVIOUS
      <4>1. RowsTaken(case) = {}
        BY <1>1
      <4> QED
        BY <3>2, <4>1 DEF Matched
    <3>8. WalkFits'
      BY <2>1, <3>1, <3>4, <3>6, <3>7 DEF WalkFits, e
    <3>9. owed' = {r \in owed : r > Last(F)}
      <4>1. Last(F) \in Nat /\ \A r \in owed : r \in Nat
        <5>1. owed \subseteq Matched(case, pMatching)
          BY DEF RowsFit
        <5> QED
          BY <3>2, <5>1, MatchedIs
      <4>2. \A r \in owed : r \notin ToSet(F) <=> r > Last(F)
        BY <3>2, <4>1
      <4> QED
        BY <3>1, <4>2
    <3>10. front \in Nat /\ Last(F) \in Nat /\ \A r \in owed : r \in Nat
      <4>1. owed \subseteq Matched(case, pMatching) /\ front \in Nat
        BY DEF RowsFit
      <4> QED
        BY <3>2, <4>1, MatchedIs
    <3>11. Last(F) >= front /\ \A r \in owed : r >= front
      BY <3>2, <3>10
    <3> QED
      BY <3>1, <3>2, <3>3, <3>8, <3>9, <3>11 DEF StreamMoves
  <2> QED
    BY <2>3, <2>4
<1>7. CASE caller # "Next" /\ pc' = "idle" /\ ended' = (caller = "Hint" /\ ~ ok)
           /\ UNCHANGED <<rowsLeft, found, owed, front, given>>
  <2>1. /\ pc' = "idle" /\ found' = e /\ F = e /\ owed' = owed /\ given' = given /\ front' = front
        /\ rowsLeft' = rowsLeft /\ ended' \in BOOLEAN
    BY <1>7 DEF e
  <2>2. ~ ok => owed = {} \/ (curSubblock' < total /\ RowsTaken(case) # {})
    <3> SUFFICES ASSUME ~ ok, curSubblock' >= total \/ RowsTaken(case) = {} PROVE owed = {}
      BY <1>1, <1>2
    <3> QED
      BY <2>1, NoneOwed DEF e
  <2>3. ended' => owed = {}
    <3> SUFFICES ASSUME ~ ok PROVE owed = {}
      BY <1>7
    <3>1. ~ (curSubblock' < total /\ RowsTaken(case) # {})
      BY <1>1, <1>2
    <3> QED
      BY <2>2, <3>1
  <2>4. Standing'
    BY <1>2, <2>1 DEF Standing
  <2>5. RowsFit(case', pMatching', total', found', curSubblock', owed', given', front')
    BY <2>1
  <2>6. ~ ended' /\ curSubblock' < total' => OnBlock'
    <3> SUFFICES ASSUME ~ ended', curSubblock' < total', ~ ok PROVE FALSE
      OBVIOUS
    <3>1. caller = "Setup"
      BY <1>7
    <3>2. curSubblock' >= total
      BY <3>1
    <3> QED
      BY <1>1, <1>2, <3>2
  <2>7. WalkFits'
    BY <2>1, <2>3, <2>4, <2>5, <2>6 DEF WalkFits, e
  <2>8. StreamMoves
    <3>1. CASE ended'
      BY <2>1, <2>3, <3>1 DEF StreamMoves
    <3>2. CASE ~ ended'
      <4>1. ended' = FALSE
        BY <2>1, <3>2
      <4> QED
        BY <2>1, <4>1 DEF StreamMoves
    <3> QED
      BY <3>1, <3>2
  <2> QED
    BY <2>7, <2>8
<1> QED
  BY <1>5, <1>6, <1>7 DEF Resumed

\* The sub-block a walk comes to.
LEMMA BlockNext ==
    ASSUME NEW pm, NEW n, ListFits(case, pm, n), NEW k \in Nat, k < n
    PROVE  /\ n \in Nat /\ k \in 0..(n - 1) /\ BlockAt(pm, k) \in Nat
           /\ SubblockId2BlockId(BlockAt(pm, k)) \in Nat
           /\ Begins(case, BlockAt(pm, k), SubblockId2RowId(BlockAt(pm, k)))
<1>1. n \in Nat /\ k \in 0..(n - 1)
  BY DEF ListFits
<1>2. BlockAt(pm, k) \in Nat /\ BlockAt(pm, k) * SubblockSize < Len(case.docs)
  BY <1>1 DEF ListFits
<1>3. SubblockId2BlockId(BlockAt(pm, k)) \in Nat
  BY <1>2, SubblockInBlock
<1> QED
  BY <1>1, <1>2, <1>3 DEF Begins, SubblockId2RowId

\* What is the same before and after a step of the walk.
SameWalk ==
    /\ case' = case /\ blocks' = blocks /\ pMatching' = pMatching /\ total' = total /\ cutoff' = cutoff
    /\ caller' = caller /\ target' = target

\* The walk goes to a sub-block of its block, of another, or past the last.
LEMMA MovedFits ==
    ASSUME Numeric, NEW sb \in Nat, NEW F, MoveToSubblock(sb, F), case' = case, blocks' = blocks,
           AccFits(case, blocks, acc'), DOMAIN tab' = TabFields, ListFits(case, pMatching, total),
           target \in Nat, curBlockId = acc'.block, acc'.block # -1 => Ready(case, acc', tab'),
           caller \in {"Setup", "Hint", "Next"}, ended = FALSE, CountFits(given, cutoff, rowsLeft),
           RowsFit(case, pMatching, total, F, sb, owed, given, front),
           caller = "Next" => rowsLeft > 0 /\ Len(F) < rowsLeft + SubblockSize,
           caller # "Next" => found = << >> /\ F = << >>
    PROVE  WalkFits' /\ StreamMoves
<1> DEFINE k == BlockAt(pMatching, sb)
<1>1. /\ pMatching' = pMatching /\ total' = total /\ cutoff' = cutoff /\ caller' = caller /\ target' = target
      /\ curSubblock' = sb
  BY DEF MoveToSubblock
<1>2. GetBlock(sb) = k
  BY DEF GetBlock, BlockAt
<1>3. curSubblock' \in Nat /\ total \in Nat
  BY <1>1 DEF ListFits
<1>4. RowsFit(case, pMatching, total, F, curSubblock', owed, given, front)
  BY <1>1
<1>5. CASE sb >= total /\ UNCHANGED <<curBlockId, tRowID, nextBlock>> /\ Resumed(FALSE, F)
  <2>1. Resumed(FALSE, F) /\ curSubblock' >= total /\ curBlockId' = acc'.block /\ FALSE \in BOOLEAN
    BY <1>1, <1>5
  <2> HIDE DEF k
  <2> QED
    BY <1>1, <1>3, <1>4, <2>1, ResumedFits
<1>6. CASE /\ sb < total /\ SubblockId2BlockId(GetBlock(sb)) = curBlockId
           /\ tRowID' = SubblockId2RowId(GetBlock(sb))
           /\ UNCHANGED <<curBlockId, nextBlock>> /\ Resumed(TRUE, F)
  <2>1. Resumed(TRUE, F) /\ curBlockId' = acc'.block /\ TRUE \in BOOLEAN
    BY <1>6
  <2>2. SubblockId2BlockId(k) \in Nat
    BY <1>6, BlockNext
  <2>3. acc'.block # -1 /\ Ready(case, acc', tab')
    BY <1>2, <1>6, <2>2
  <2>4. OnBlock'
    BY <1>1, <1>2, <1>6, <2>3 DEF OnBlock
  <2> HIDE DEF k
  <2> QED
    BY <1>1, <1>3, <1>4, <2>1, <2>4, ResumedFits
<1>7. CASE /\ sb < total /\ SubblockId2BlockId(GetBlock(sb)) # curBlockId
           /\ nextBlock' = SubblockId2BlockId(GetBlock(sb)) /\ pc' = "move" /\ found' = F
           /\ UNCHANGED <<curBlockId, tRowID, rowsLeft, seen>>
  <2>1. /\ owed' = owed /\ given' = given /\ front' = front /\ ended' = FALSE /\ rowsLeft' = rowsLeft
        /\ curBlockId' = acc'.block /\ found' = F /\ pc' = "move" /\ ended' = ended
    BY <1>7 DEF seen
  <2>2. Standing'
    BY <1>1, <1>3, <2>1 DEF Standing
  <2>3. RowsFit(case', pMatching', total', found', curSubblock', owed', given', front')
    BY <1>1, <1>4, <2>1
  <2>4. curSubblock' < total' /\ nextBlock' = SubblockId2BlockId(BlockAt(pMatching', curSubblock'))
    BY <1>1, <1>2, <1>7
  <2>5. /\ caller' = "Next" => rowsLeft' > 0 /\ Len(found') < rowsLeft' + SubblockSize
        /\ caller' # "Next" => found' = << >>
    BY <1>1, <2>1
  <2>6. WalkFits'
    BY <2>1, <2>2, <2>3, <2>4, <2>5 DEF WalkFits
  <2> QED
    BY <2>1, <2>6 DEF StreamMoves
<1> QED
  BY <1>5, <1>6, <1>7 DEF MoveToSubblock

\* MoveToSubblock is called from Setup or HintRowID.
LEMMA GoFits ==
    ASSUME Numeric, WalkFits, Go, UNCHANGED <<case, packer, use, acc, tab, got>>
    PROVE  WalkFits' /\ StreamMoves
<1>1. pc = "go" /\ MoveToSubblock(target, << >>)
  BY DEF Go
<1>2. case' = case /\ blocks' = blocks /\ acc' = acc /\ tab' = tab
  BY DEF packer
<1>3. /\ Standing /\ caller # "Next" /\ (acc.block # -1 => Ready(case, acc, tab)) /\ ended = FALSE
      /\ found = << >> /\ RowsFit(case, pMatching, total, << >>, target, owed, given, front)
  BY <1>1 DEF WalkFits, Standing
<1>4. /\ AccFits(case, blocks, acc') /\ DOMAIN tab' = TabFields /\ ListFits(case, pMatching, total)
      /\ target \in Nat /\ curBlockId = acc'.block /\ caller \in {"Setup", "Hint", "Next"}
      /\ CountFits(given, cutoff, rowsLeft) /\ (acc'.block # -1 => Ready(case, acc', tab'))
  BY <1>2, <1>3 DEF Standing
<1> QED
  BY <1>1, <1>2, <1>3, <1>4, MovedFits

\* The rows of a sub-block are no more than it has values.
LEMMA RowsOfFew ==
    ASSUME Numeric, NEW s \in Nat, NEW T, T \in {RowsOf(case, s)}
    PROVE  /\ T \subseteq Nat /\ IsFiniteSet(T) /\ Cardinality(T) \in Nat /\ Cardinality(T) <= SubblockSize
<1> DEFINE S == SubblockSize
           x == s * S
           y == x + (S - 1)
<1>1. S \in Nat \ {0} /\ x \in Nat
  BY WordIs
<1>2. ASSUME NEW r \in RowsOf(case, s)
      PROVE  r \in Nat /\ x <= r /\ r < x + S
  <2>1. r \in Nat /\ GetSubblockId(r) = s
    BY TakenRow DEF RowsOf
  <2> QED
    BY <2>1, SubblockOf
<1> HIDE DEF S, x
<1>3. x \in Int /\ y \in Int /\ ~ (x > y) /\ y - x + 1 = S
  BY <1>1
<1>4. RowsOf(case, s) \subseteq x..y /\ RowsOf(case, s) \subseteq Nat
  BY <1>1, <1>2
<1> HIDE DEF y
<1>5. IsFiniteSet(x..y) /\ Cardinality(x..y) = S
  BY <1>3, FS_Interval
<1> DEFINE I == x..y
<1>6. IsFiniteSet(I) /\ Cardinality(I) = S /\ T \in SUBSET I
  BY <1>4, <1>5
<1> HIDE DEF I
<1>7. IsFiniteSet(T) /\ Cardinality(T) <= Cardinality(I)
  BY <1>6, FS_Subset
<1>8. Cardinality(T) \in Nat
  BY <1>7, FS_CardinalityType
<1> QED
  BY <1>4, <1>6, <1>7, <1>8 DEF S

\* A sub-block is scanned and the walk goes to the next one.
LEMMA ScanFits ==
    ASSUME Numeric, Sound, BlocksFit(case, blocks), WalkFits, ProcessSubblock
    PROVE  WalkFits' /\ StreamMoves
<1> DEFINE s == BlockAt(pMatching, curSubblock)
           sb == GetSubblockIdInBlock(s)
           a == Looked(sb)
           T == RowsOf(case, s)
           G == Ranked(T)
<1>1. /\ pc = "scan" /\ OnBlock /\ caller = "Next" /\ Len(found) < SubblockSize /\ Len(found) < rowsLeft
      /\ Standing /\ RowsFit(case, pMatching, total, found, curSubblock, owed, given, front) /\ ended = FALSE
  BY DEF WalkFits, ProcessSubblock, Standing
<1>2. /\ AccFits(case, blocks, acc) /\ DOMAIN tab = TabFields /\ ListFits(case, pMatching, total)
      /\ curSubblock \in Nat /\ target \in Nat /\ curBlockId = acc.block
      /\ CountFits(given, cutoff, rowsLeft) /\ curSubblock < total /\ Ready(case, acc, tab)
      /\ acc.block = SubblockId2BlockId(s) /\ tRowID = SubblockId2RowId(s)
  BY <1>1 DEF Standing, OnBlock
<1>3. /\ total \in Nat /\ curSubblock \in 0..(total - 1) /\ s \in Nat /\ Begins(case, s, tRowID)
      /\ curSubblock + 1 \in Nat
  BY <1>2, BlockNext
<1>4. GetBlock(curSubblock) = s
  BY DEF GetBlock, BlockAt
<1>5. /\ case' = case /\ blocks' = blocks /\ tab' = tab /\ acc' = a
      /\ \E g \in (IF Tested(a, sb) > NumValues(a, sb) THEN BOOLEAN ELSE {FALSE}) :
            Scanned(Ranked(RowsFound(tRowID, a, sb, g)))
  BY <1>4 DEF ProcessSubblock, packer, Looked, RowsFound
<1>6. sb \in {GetSubblockIdInBlock(s)}
  OBVIOUS
<1> HIDE DEF s, sb
<1>7. ASSUME NEW g
      PROVE  /\ AccFits(case, blocks, a) /\ a.block = acc.block /\ Ready(case, a, tab)
             /\ Tested(a, sb) = NumValues(a, sb) /\ RowsFound(tRowID, a, sb, g) = T
  BY <1>2, <1>3, <1>6, ScanIs
<1> HIDE DEF a
<1>8. Scanned(G)
  <2>1. PICK g : Scanned(Ranked(RowsFound(tRowID, a, sb, g)))
    BY <1>5
  <2>2. RowsFound(tRowID, a, sb, g) = T
    BY <1>7
  <2> QED
    BY <2>1, <2>2
<1>9. T \subseteq Nat /\ IsFiniteSet(T) /\ Cardinality(T) \in Nat /\ Cardinality(T) <= SubblockSize
  BY <1>3, RowsOfFew
<1> HIDE DEF T
<1>10. /\ G \in Seq(Nat) /\ Rising(G) /\ Len(G) = Cardinality(T)
       /\ \A r : r \in T <=> \E i \in 1..Cardinality(T) : G[i] = r
  BY <1>9, RankedIs
<1> HIDE DEF G
<1>11. \A r : r \in RowsOf(case, s) <=> Holds(G, r)
  BY <1>10 DEF T, Holds
<1>12. /\ RowsFit(case, pMatching, total, found \o G, curSubblock + 1, owed, given, front)
       /\ Len(found \o G) = Len(found) + Len(G)
  BY <1>1, <1>2, <1>3, <1>10, <1>11, RowsMore DEF s
<1>13. rowsLeft > 0 /\ Len(found \o G) < rowsLeft + SubblockSize
  <2> DEFINE f == Len(found)
             g == Len(G)
             e == Len(found \o G)
             S == SubblockSize
  <2>1. f \in Nat /\ found \in Seq(Nat)
    <3>1. found \in Seq(Nat)
      BY <1>1 DEF RowsFit
    <3> QED
      BY <3>1
  <2>2. rowsLeft \in Nat /\ S \in Nat /\ g \in Nat /\ g <= S /\ f < rowsLeft /\ e = f + g
    BY <1>1, <1>2, <1>9, <1>10, <1>12, WordIs DEF CountFits
  <2> HIDE DEF f, g, e, S
  <2>3. rowsLeft > 0 /\ e < rowsLeft + S
    BY <2>1, <2>2
  <2> QED
    BY <2>3 DEF e, S
<1>14. MoveToSubblock(curSubblock + 1, found \o G)
  BY <1>8 DEF Scanned
<1>15. /\ AccFits(case, blocks, acc') /\ DOMAIN tab' = TabFields /\ curBlockId = acc'.block
       /\ (acc'.block # -1 => Ready(case, acc', tab'))
  BY <1>2, <1>5, <1>7
<1> DEFINE q == curSubblock + 1
           F == found \o G
<1>16. /\ q \in Nat /\ MoveToSubblock(q, F) /\ RowsFit(case, pMatching, total, F, q, owed, given, front)
       /\ rowsLeft > 0 /\ Len(F) < rowsLeft + SubblockSize
  BY <1>3, <1>12, <1>13, <1>14
<1> HIDE DEF q, F
<1> QED
  BY <1>1, <1>2, <1>5, <1>15, <1>16, MovedFits

\* The first sub-block of the next block: the ones before it are of this block.
LEMMA RewoundIs ==
    ASSUME ListFits(case, pMatching, total), curSubblock \in Nat, curSubblock < total,
           nextBlock = SubblockId2BlockId(BlockAt(pMatching, curSubblock))
    PROVE  /\ Rewound \in Nat /\ curSubblock <= Rewound
           /\ \A i \in curSubblock..(total - 1) :
                  i < Rewound => SubblockId2BlockId(BlockAt(pMatching, i)) = nextBlock
<1>1. total \in Nat /\ nextBlock \in Nat
  BY BlockNext
<1>2. CASE pMatching = Everything
  <2> DEFINE P == SubblocksPerBlock
             S == SubblockSize
             D == DocsPerBlock
             b == nextBlock
             z == (b + 1) * P
             x == b * P
             u == z * S
  <2>1. P \in Nat \ {0} /\ S \in Nat \ {0} /\ D = P * S
    BY BlockIs, WordIs
  <2>2. \A i : BlockAt(pMatching, i) = i
    BY <1>2 DEF BlockAt
  <2>3. b = curSubblock \div P
    BY <2>2 DEF SubblockId2BlockId
  <2>4. Rewound = ((b + 1) * D) \div S
    BY <1>2 DEF Rewound, GetSubblockId, BlockId2RowId
  <2> HIDE DEF P, S, D
  <2>5. \A k, m, n \in Nat : k * (m * n) = (k * m) * n /\ k * m \in Nat /\ (k + 1) * m = k * m + m
    OBVIOUS
  <2>6. z \in Nat /\ x \in Nat /\ z = x + P /\ u \in Nat
    BY <1>1, <2>1, <2>5
  <2>7. x <= curSubblock /\ curSubblock < x + P
    BY <2>1, <2>3, Quotient
  <2>8. (b + 1) * D = z * S
    <3>1. b + 1 \in Nat
      BY <1>1
    <3> QED
      BY <2>1, <2>5, <3>1
  <2> DEFINE r == Rewound
  <2>9. r = z
    <3>1. r = u \div S
      BY <2>4, <2>8
    <3> HIDE DEF z, r
    <3>2. u <= z * S /\ z * S <= u /\ u < z * S + S
      BY <2>1, <2>6
    <3>3. u \div S = z
      BY <2>1, <2>6, <3>2, QuotientIs
    <3> QED
      BY <3>1, <3>3
  <2> HIDE DEF r, x, z
  <2>10. r \in Nat /\ curSubblock <= r
    BY <2>1, <2>6, <2>7, <2>9
  <2>11. ASSUME NEW i \in curSubblock..(total - 1), i < r
         PROVE  SubblockId2BlockId(BlockAt(pMatching, i)) = nextBlock
    <3>1. i \in Nat /\ x <= i /\ i < x + P
      BY <1>1, <2>1, <2>6, <2>7, <2>9, <2>11
    <3>2. b * P <= i /\ i < b * P + P
      BY <3>1 DEF x
    <3>3. i \div P = b
      BY <1>1, <2>1, <3>1, <3>2, QuotientIs
    <3> QED
      BY <2>2, <3>3 DEF SubblockId2BlockId, P
  <2> QED
    BY <2>10, <2>11 DEF r
<1>3. CASE pMatching # Everything
  <2> DEFINE other == {i \in curSubblock..(total - 1) : SubblockId2BlockId(GetBlock(i)) # nextBlock}
  <2>1. \A i : GetBlock(i) = BlockAt(pMatching, i)
    BY DEF GetBlock, BlockAt
  <2>2. Rewound = IF other = {} THEN total ELSE CHOOSE i \in other : \A j \in other : i <= j
    BY <1>3 DEF Rewound
  <2>3. \A i \in curSubblock..(total - 1) : i \in other <=> SubblockId2BlockId(BlockAt(pMatching, i)) # nextBlock
    BY <2>1
  <2>4. \A i \in other : i \in Nat /\ curSubblock <= i /\ i < total
    BY <1>1
  <2> HIDE DEF other
  <2>5. CASE other = {}
    BY <1>1, <2>2, <2>3, <2>5
  <2>6. CASE other # {}
    <3>1. other \subseteq Nat
      BY <2>4
    <3>2. \E i \in other : \A j \in other : i <= j
      BY <2>6, <3>1, LeastNatural
    <3>3. Rewound \in other /\ \A j \in other : Rewound <= j
      BY <2>2, <2>6, <3>2
    <3>4. ASSUME NEW i \in curSubblock..(total - 1), i < Rewound
          PROVE  SubblockId2BlockId(BlockAt(pMatching, i)) = nextBlock
      <4> SUFFICES ASSUME i \in other PROVE FALSE
        BY <2>3
      <4>1. Rewound <= i /\ i \in Nat /\ Rewound \in Nat
        BY <2>4, <3>3
      <4> QED
        BY <3>4, <4>1
    <3> QED
      BY <2>4, <3>3, <3>4
  <2> QED
    BY <2>5, <2>6
<1> QED
  BY <1>2, <1>3

\* A block is entered, passed over or found to be the last.
LEMMA EnterFits ==
    ASSUME Numeric, PackerFits, use # "build", WalkFits, EnterBlock
    PROVE  WalkFits' /\ StreamMoves
<1> DEFINE s == BlockAt(pMatching, curSubblock)
           b == nextBlock
           a == SetCurBlock(acc, b)
           t == SetupTable(tab, a)
           k == Rewound
           q == IF caller = "Setup" THEN total ELSE k
<1>1. /\ pc = "move" /\ curSubblock < total /\ b = SubblockId2BlockId(s) /\ Standing /\ ended = FALSE
      /\ RowsFit(case, pMatching, total, found, curSubblock, owed, given, front)
      /\ caller = "Next" => rowsLeft > 0 /\ Len(found) < rowsLeft + SubblockSize
      /\ caller # "Next" => found = << >>
  BY DEF WalkFits, EnterBlock, Standing
<1>2. /\ AccFits(case, blocks, acc) /\ DOMAIN tab = TabFields /\ ListFits(case, pMatching, total)
      /\ curSubblock \in Nat /\ target \in Nat /\ CountFits(given, cutoff, rowsLeft)
      /\ caller \in {"Setup", "Hint", "Next"}
  BY <1>1 DEF Standing
<1>3. total \in Nat /\ s \in Nat /\ b \in Nat /\ Begins(case, s, SubblockId2RowId(s))
  BY <1>1, <1>2, BlockNext
<1>4. /\ acc' = a /\ tab' = t /\ case' = case /\ blocks' = blocks
      /\ MoveToBlock(BlockAccepted(a, t), Hopeless)
  BY DEF EnterBlock, packer
<1>5. BlocksFit(case, blocks)
  BY DEF PackerFits
<1>6. b \in 0..(Len(blocks) - 1)
  <2> DEFINE x == b * DocsPerBlock
             y == GetSubblockIdInBlock(s) * SubblockSize
             z == SubblockId2RowId(s)
             N == Len(docs)
  <2>1. x \in Nat /\ y \in Nat /\ z = x + y
    BY <1>1, <1>3, SubblockInBlock DEF SubblockId2RowId
  <2>2. N \in Nat /\ z < N
    BY <1>3, CaseIs DEF Begins, Numeric, docs
  <2> HIDE DEF x, y, z, N
  <2>3. x < N
    BY <2>1, <2>2
  <2> QED
    BY <1>3, <2>3, AllBlocks DEF x, N
<1> HIDE DEF s, b
<1>7. AccFits(case, blocks, a) /\ a.block = b
  BY <1>2, <1>5, <1>6, EntersBlock DEF AccFits
<1>8. a.block # -1
  BY <1>3, <1>7
<1> HIDE DEF a
<1>9. /\ DOMAIN t = TabFields
      /\ BlockAccepted(a, t) => Ready(case, a, t)
  BY <1>2, <1>5, <1>7, <1>8, AcceptedIs
<1>10. ~ BlockAccepted(a, t) => \A r \in RowsTaken(case) : RowId2BlockId(r) # b
  <2> SUFFICES ASSUME ~ BlockAccepted(a, t), NEW r \in RowsTaken(case) PROVE RowId2BlockId(r) # b
    OBVIOUS
  <2>1. b # -1
    BY <1>3
  <2> QED
    BY <1>2, <1>5, <1>7, <2>1, RejectedIs
<1> HIDE DEF t
<1>11. /\ k \in Nat /\ curSubblock <= k
       /\ \A i \in curSubblock..(total - 1) : i < k => SubblockId2BlockId(BlockAt(pMatching, i)) = b
  BY <1>1, <1>2, RewoundIs DEF s, b
<1> HIDE DEF k
<1>12. /\ pMatching' = pMatching /\ total' = total /\ cutoff' = cutoff /\ caller' = caller /\ target' = target
       /\ curBlockId' = acc'.block
  BY <1>4, <1>7 DEF MoveToBlock, b
<1>13. AccFits(case, blocks, acc') /\ DOMAIN tab' = TabFields
  BY <1>4, <1>7, <1>9
<1>14. CASE /\ BlockAccepted(a, t) /\ tRowID' = SubblockId2RowId(GetBlock(curSubblock))
            /\ UNCHANGED <<curSubblock, nextBlock>> /\ Resumed(TRUE, found)
  <2>1. GetBlock(curSubblock) = s
    BY DEF GetBlock, BlockAt, s
  <2>2. /\ curSubblock' < total' /\ Ready(case', acc', tab') /\ acc'.block = SubblockId2BlockId(s)
        /\ tRowID' = SubblockId2RowId(s) /\ BlockAt(pMatching', curSubblock') = s
    BY <1>1, <1>4, <1>7, <1>9, <1>12, <1>14, <2>1 DEF s
  <2>3. OnBlock'
    BY <2>2 DEF OnBlock
  <2>4. /\ Resumed(TRUE, found) /\ TRUE \in BOOLEAN /\ curSubblock' \in Nat
        /\ RowsFit(case, pMatching, total, found, curSubblock', owed, given, front)
    BY <1>1, <1>2, <1>14
  <2> QED
    BY <1>1, <1>2, <1>4, <1>12, <1>13, <2>3, <2>4, ResumedFits
<1>15. ASSUME ~ BlockAccepted(a, t), NEW n \in Nat, curSubblock <= n,
              \/ n = k
              \/ k >= total
              \/ RowsTaken(case) = {}
       PROVE  RowsFit(case, pMatching, total, found, n, owed, given, front)
  <2>1. ASSUME NEW r \in owed, NEW i \in curSubblock..(total - 1), BlockAt(pMatching, i) = GetSubblockId(r)
        PROVE  n <= i
    <3>1. r \in RowsTaken(case) /\ r \in Nat
      <4>1. r \in Matched(case, pMatching)
        BY <1>1 DEF RowsFit
      <4> QED
        BY <4>1, MatchedIs
    <3>2. SubblockId2BlockId(BlockAt(pMatching, i)) # b
      BY <1>10, <1>15, <2>1, <3>1, RowInBlock
    <3>3. ~ (i < k) /\ i \in Nat /\ i < total
      BY <1>2, <1>3, <1>11, <3>2
    <3>4. n = k
      BY <1>3, <1>11, <1>15, <3>1, <3>3
    <3> QED
      BY <1>11, <3>3, <3>4
  <2>2. owed \subseteq owed
    OBVIOUS
  <2> QED
    BY <1>1, <1>2, <1>15, <2>1, <2>2, RowsSkip
<1>16. CASE /\ ~ BlockAccepted(a, t) /\ ~ Hopeless /\ Rewound < total /\ curSubblock' = Rewound
            /\ nextBlock' = SubblockId2BlockId(GetBlock(Rewound))
            /\ UNCHANGED <<tRowID, rowsLeft, found, pc, seen>>
  <2>1. /\ owed' = owed /\ given' = given /\ front' = front /\ ended' = FALSE /\ rowsLeft' = rowsLeft
        /\ found' = found /\ pc' = "move" /\ ended' = ended /\ curSubblock' = k
    BY <1>1, <1>16 DEF seen, k
  <2>2. Standing'
    BY <1>2, <1>4, <1>11, <1>12, <1>13, <2>1 DEF Standing
  <2>3. RowsFit(case', pMatching', total', found', curSubblock', owed', given', front')
    <3>1. RowsFit(case, pMatching, total, found, k, owed, given, front)
      BY <1>11, <1>15, <1>16
    <3> QED
      BY <1>4, <1>12, <2>1, <3>1
  <2>4. curSubblock' < total' /\ nextBlock' = SubblockId2BlockId(BlockAt(pMatching', curSubblock'))
    BY <1>12, <1>16 DEF GetBlock, BlockAt
  <2>5. /\ caller' = "Next" => rowsLeft' > 0 /\ Len(found') < rowsLeft' + SubblockSize
        /\ caller' # "Next" => found' = << >>
    BY <1>1, <1>12, <2>1
  <2>6. WalkFits'
    BY <2>1, <2>2, <2>3, <2>4, <2>5 DEF WalkFits
  <2> QED
    BY <2>1, <2>6 DEF StreamMoves
<1>17. CASE /\ ~ BlockAccepted(a, t) /\ (Hopeless \/ Rewound >= total)
            /\ curSubblock' = (IF caller = "Setup" THEN total ELSE Rewound)
            /\ UNCHANGED <<tRowID, nextBlock>> /\ Resumed(FALSE, found)
  <2>1. curSubblock' = q /\ q \in Nat /\ curSubblock <= q
    BY <1>1, <1>2, <1>3, <1>11, <1>17 DEF k
  <2>2. q = k \/ k >= total \/ RowsTaken(case) = {}
    BY <1>17, HopelessIs DEF k
  <2>3. q >= total \/ (RowsTaken(case) = {} /\ caller # "Setup")
    BY <1>3, <1>11, <1>17, HopelessIs DEF k
  <2> HIDE DEF q
  <2>4. RowsFit(case, pMatching, total, found, q, owed, given, front)
    BY <1>15, <1>17, <2>1, <2>2
  <2>5. /\ Resumed(FALSE, found) /\ FALSE \in BOOLEAN /\ curSubblock' \in Nat
        /\ curSubblock' >= total \/ (RowsTaken(case) = {} /\ caller # "Setup")
        /\ RowsFit(case, pMatching, total, found, curSubblock', owed, given, front)
    BY <1>17, <2>1, <2>3, <2>4
  <2> QED
    BY <1>1, <1>2, <1>4, <1>12, <1>13, <2>5, ResumedFits
<1> QED
  BY <1>4, <1>14, <1>16, <1>17 DEF MoveToBlock

\* A call of GetNextRowIdBlock begins, or ends at once.
LEMMA CallFits ==
    ASSUME Numeric, WalkFits, GetNextRowIdBlock, UNCHANGED <<case, packer, use, acc, tab, got>>
    PROVE  WalkFits' /\ StreamMoves
<1> DEFINE e == << >>
           S == SubblockSize
<1>1. /\ pc = "idle" /\ ~ ended /\ found = e /\ Standing
      /\ RowsFit(case, pMatching, total, e, curSubblock, owed, given, front)
      /\ curSubblock < total => OnBlock
  BY DEF WalkFits, GetNextRowIdBlock
<1>2. /\ case' = case /\ blocks' = blocks /\ acc' = acc /\ tab' = tab /\ pMatching' = pMatching /\ total' = total
      /\ cutoff' = cutoff /\ curSubblock' = curSubblock /\ curBlockId' = curBlockId /\ tRowID' = tRowID
      /\ target' = target /\ nextBlock' = nextBlock
  BY DEF GetNextRowIdBlock, packer, position
<1>3. /\ rowsLeft \in Nat /\ S \in Nat \ {0} /\ Len(e) = 0 /\ ListFits(case, pMatching, total)
      /\ total \in Nat /\ curSubblock \in Nat /\ ended = FALSE
  BY <1>1, WordIs DEF Standing, CountFits, ListFits
<1>4. EnoughRows(e) <=> rowsLeft = 0
  <2>1. EnoughRows(e) <=> Len(e) >= (IF rowsLeft < S THEN rowsLeft ELSE S)
    BY DEF EnoughRows
  <2> HIDE DEF S, e
  <2> QED
    BY <1>3, <2>1
<1>5. CASE (curSubblock >= total \/ EnoughRows(e)) /\ Delivered(e) /\ UNCHANGED caller
  <2>1. /\ pc' = "idle" /\ found' = e /\ ended' = TRUE /\ owed' = owed /\ front' = front /\ given' = given
        /\ caller' = caller
    BY <1>5 DEF Delivered
  <2>2. rowsLeft' = rowsLeft
    <3>1. rowsLeft' = IF rowsLeft > Len(e) THEN rowsLeft - Len(e) ELSE 0
      BY <1>5 DEF Delivered, Spent
    <3> HIDE DEF e
    <3> QED
      BY <1>3, <3>1
  <2>3. owed = {} \/ rowsLeft = 0
    <3> SUFFICES ASSUME curSubblock >= total PROVE owed = {}
      BY <1>4, <1>5
    <3> QED
      BY <1>1, <1>3, NoneOwed
  <2>4. Standing'
    BY <1>1, <1>2, <2>1, <2>2 DEF Standing
  <2>5. RowsFit(case', pMatching', total', found', curSubblock', owed', given', front')
    BY <1>1, <1>2, <2>1
  <2>6. WalkFits'
    BY <2>1, <2>2, <2>3, <2>4, <2>5 DEF WalkFits
  <2> QED
    BY <2>1, <2>3, <2>6 DEF StreamMoves
<1>6. CASE /\ curSubblock < total /\ ~ EnoughRows(e) /\ pc' = "scan" /\ caller' = "Next"
           /\ UNCHANGED <<rowsLeft, found, seen>>
  <2>1. /\ owed' = owed /\ given' = given /\ front' = front /\ ended' = FALSE /\ ended' = ended
        /\ rowsLeft' = rowsLeft /\ found' = e /\ pc' = "scan" /\ caller' = "Next"
    BY <1>1, <1>3, <1>6 DEF seen
  <2>2. Standing'
    BY <1>1, <1>2, <2>1 DEF Standing
  <2>3. RowsFit(case', pMatching', total', found', curSubblock', owed', given', front')
    BY <1>1, <1>2, <2>1
  <2>4. OnBlock'
    BY <1>1, <1>2, <1>6 DEF OnBlock
  <2>5. Len(found') < SubblockSize /\ Len(found') < rowsLeft'
    <3>1. rowsLeft # 0
      BY <1>4, <1>6
    <3> HIDE DEF e
    <3> QED
      BY <1>3, <2>1, <3>1 DEF S
  <2>6. WalkFits'
    BY <2>1, <2>2, <2>3, <2>4, <2>5 DEF WalkFits
  <2> QED
    BY <2>1, <2>6 DEF StreamMoves
<1> QED
  BY <1>5, <1>6 DEF GetNextRowIdBlock

\* A hint leads to no sub-block behind a row that is not below it.
LEMMA HintedIs ==
    ASSUME ListFits(case, pMatching, total), curSubblock \in Nat, NEW row \in Nat
    PROVE  /\ Hinted(row) \in Nat
           /\ \A r \in Nat : r >= row => \A i \in curSubblock..(total - 1) :
                  BlockAt(pMatching, i) = GetSubblockId(r) => Hinted(row) <= i
<1> DEFINE p == GetSubblockId(row)
           h == Hinted(row)
<1>1. total \in Nat
  BY DEF ListFits
<1>2. p \in Nat /\ \A r \in Nat : r >= row => p <= GetSubblockId(r) /\ GetSubblockId(r) \in Nat
  BY SubblockOf, RowsInOrder
<1>3. CASE pMatching = Everything
  <2>1. h = p /\ \A i : BlockAt(pMatching, i) = i
    BY <1>3 DEF Hinted, BlockAt
  <2> HIDE DEF p, h
  <2> QED
    BY <1>2, <2>1 DEF h
<1>4. CASE pMatching # Everything
  <2> DEFINE at == {i \in curSubblock..(total - 1) : GetBlock(i) >= p}
  <2>1. h = IF at = {} THEN total ELSE CHOOSE i \in at : \A j \in at : i <= j
    BY <1>4 DEF Hinted, Find
  <2>2. \A i : GetBlock(i) = BlockAt(pMatching, i)
    BY DEF GetBlock, BlockAt
  <2>3. \A i \in curSubblock..(total - 1) : i \in at <=> BlockAt(pMatching, i) >= p
    BY <2>2
  <2>4. at \subseteq Nat
    BY <1>1
  <2> HIDE DEF at, p, h
  <2>5. at = {} \/ (h \in at /\ \A j \in at : h <= j)
    <3> SUFFICES ASSUME at # {} PROVE h \in at /\ \A j \in at : h <= j
      OBVIOUS
    <3>1. \E i \in at : \A j \in at : i <= j
      BY <2>4, LeastNatural
    <3> QED
      BY <2>1, <3>1
  <2>6. h \in Nat
    BY <1>1, <2>1, <2>4, <2>5
  <2>7. ASSUME NEW r \in Nat, r >= row, NEW i \in curSubblock..(total - 1), BlockAt(pMatching, i) = GetSubblockId(r)
        PROVE  h <= i
    <3>1. BlockAt(pMatching, i) >= p
      BY <1>2, <2>7
    <3>2. i \in at
      BY <2>3, <3>1
    <3> QED
      BY <2>5, <3>2
  <2> QED
    BY <2>6, <2>7 DEF h
<1> QED
  BY <1>3, <1>4

\* What the caller sees of a hint.
HintSeen(row) ==
    /\ owed' = {r \in owed : r >= row} /\ front' = front
    /\ ended' = ended \/ (owed' = {} /\ ended' = TRUE)

\* A hint leaves out no row that is owed.
LEMMA HintFits ==
    ASSUME Numeric, WalkFits, NEW row \in Nat, HintRowID(row), UNCHANGED <<case, packer, use, acc, tab, got>>
    PROVE  WalkFits' /\ HintSeen(row)
<1> DEFINE e == << >>
           less == {r \in owed : r >= row}
           h == Hinted(row)
<1>1. /\ pc = "idle" /\ ~ ended /\ found = e /\ Standing
      /\ RowsFit(case, pMatching, total, e, curSubblock, owed, given, front)
      /\ curSubblock < total => OnBlock
  BY DEF WalkFits, HintRowID
<1>2. /\ case' = case /\ blocks' = blocks /\ acc' = acc /\ tab' = tab /\ pMatching' = pMatching /\ total' = total
      /\ cutoff' = cutoff /\ curSubblock' = curSubblock /\ curBlockId' = curBlockId /\ tRowID' = tRowID
      /\ nextBlock' = nextBlock /\ rowsLeft' = rowsLeft /\ found' = found /\ front' = front /\ given' = given
      /\ owed' = less
  BY DEF HintRowID, packer, position
<1>3. ListFits(case, pMatching, total) /\ total \in Nat /\ curSubblock \in Nat /\ ended = FALSE
  BY <1>1 DEF Standing, ListFits
<1>4. /\ h \in Nat
      /\ \A r \in Nat : r >= row => \A i \in curSubblock..(total - 1) :
             BlockAt(pMatching, i) = GetSubblockId(r) => h <= i
  BY <1>3, HintedIs
<1>5. \A r \in less : r \in owed /\ r >= row /\ r \in Nat
  <2>1. owed \subseteq Matched(case, pMatching)
    BY <1>1 DEF RowsFit
  <2> QED
    BY <2>1, MatchedIs
<1>6. less \subseteq owed
  OBVIOUS
<1> HIDE DEF less, h, e
<1>7. RowsFit(case, pMatching, total, e, curSubblock, less, given, front)
  <2>1. \A r \in less : \A i \in curSubblock..(total - 1) :
            BlockAt(pMatching, i) = GetSubblockId(r) => curSubblock <= i
    BY <1>3
  <2> QED
    BY <1>1, <1>3, <1>6, <2>1, RowsSkip
<1>8. \A r \in less : \A i \in curSubblock..(total - 1) : BlockAt(pMatching, i) = GetSubblockId(r) => h <= i
  BY <1>4, <1>5
<1>9. CASE h >= total /\ ended' = TRUE /\ UNCHANGED <<pc, caller, target>>
  <2>1. less = {}
    <3> SUFFICES ASSUME NEW r \in less PROVE FALSE
      OBVIOUS
    <3>1. Holds(e, r) \/ LeftIn(pMatching, total, r, curSubblock)
      BY <1>7 DEF RowsFit
    <3>2. ~ Holds(e, r)
      <4>1. 1..Len(e) = {}
        BY DEF e
      <4> QED
        BY <4>1 DEF Holds
    <3>3. PICK i \in curSubblock..(total - 1) : BlockAt(pMatching, i) = GetSubblockId(r)
      BY <3>1, <3>2 DEF LeftIn
    <3>4. h <= i /\ i < total /\ i \in Nat
      BY <1>3, <1>8, <3>3
    <3> QED
      BY <1>3, <1>4, <1>9, <3>4
  <2>2. Standing'
    BY <1>1, <1>2, <1>9 DEF Standing
  <2>3. RowsFit(case', pMatching', total', found', curSubblock', owed', given', front')
    BY <1>1, <1>2, <1>7
  <2>4. pc' = "idle" /\ caller' = caller /\ found' = e /\ ended' = TRUE /\ owed' = {}
    BY <1>1, <1>2, <1>9, <2>1
  <2>5. WalkFits'
    BY <2>2, <2>3, <2>4 DEF WalkFits, e
  <2> QED
    BY <1>2, <2>4, <2>5 DEF HintSeen, less
<1>10. CASE h < total /\ UNCHANGED <<pc, caller, target, ended>>
  <2>2. Standing'
    BY <1>1, <1>2, <1>10 DEF Standing
  <2>3. RowsFit(case', pMatching', total', found', curSubblock', owed', given', front')
    BY <1>1, <1>2, <1>7
  <2>4. pc' = "idle" /\ caller' = caller /\ found' = e /\ ended' = FALSE /\ ended' = ended
    BY <1>1, <1>2, <1>3, <1>10
  <2>5. curSubblock' < total' => OnBlock'
    BY <1>1, <1>2 DEF OnBlock
  <2>6. WalkFits'
    BY <2>2, <2>3, <2>4, <2>5 DEF WalkFits, e
  <2> QED
    BY <1>2, <2>4, <2>6 DEF HintSeen, less
<1>11. CASE h \in (curSubblock + 1)..(total - 1) /\ pc' = "go" /\ caller' = "Hint" /\ target' = h /\ UNCHANGED ended
  <2>1. h \in Nat /\ curSubblock <= h /\ curSubblock < total
    BY <1>3, <1>4, <1>11
  <2>2. Standing'
    BY <1>1, <1>2, <1>11, <2>1 DEF Standing
  <2>3. RowsFit(case, pMatching, total, e, h, less, given, front)
    BY <1>1, <1>3, <1>6, <1>8, <2>1, RowsSkip
  <2>4. RowsFit(case', pMatching', total', found', target', owed', given', front')
    BY <1>1, <1>2, <1>11, <2>3
  <2>5. pc' = "go" /\ caller' = "Hint" /\ found' = e /\ ended' = FALSE /\ ended' = ended
    BY <1>1, <1>2, <1>3, <1>11
  <2>6. Ready(case', acc', tab')
    BY <1>1, <1>2, <2>1 DEF OnBlock
  <2>7. WalkFits'
    BY <2>2, <2>4, <2>5, <2>6 DEF WalkFits, e
  <2> QED
    BY <1>2, <2>5, <2>7 DEF HintSeen, less
<1> QED
  BY <1>9, <1>10, <1>11 DEF HintRowID, h

\* No analyzer is set up yet.
Before ==
    /\ owed = {} /\ given = {} /\ front = 0 /\ ended = FALSE /\ found = << >>
    /\ curSubblock = 0 /\ curBlockId = -1 /\ cutoff = Unlimited /\ tab = NoTable

\* What the caller sees of Setup.
Begun ==
    /\ owed' \subseteq RowsTaken(case) /\ front' = 0 /\ ended' = FALSE

\* Setup finds the first sub-block to come, and owes the rows that pass.
LEMMA AnalyzeFits ==
    ASSUME Numeric, ReaderFits, Before, Analyze
    PROVE  WalkFits' /\ Begun
<1>1. PICK m \in Matchings, limit \in Cutoffs :
          (m # Everything => Inside(m)) /\ Setup(Len(docs), m, limit, Answer)
  BY DEF Analyze
<1> DEFINE e == << >>
           n == IF m = Everything THEN Ceil(Len(docs), SubblockSize) ELSE Len(m)
           M == Matched(case, m)
<1>2. /\ pMatching' = m /\ total' = n /\ cutoff' = limit /\ rowsLeft' = limit /\ pc' = "go"
      /\ caller' = "Setup" /\ target' = 0 /\ curSubblock' = 0 /\ curBlockId' = -1 /\ found' = e
      /\ front' = 0 /\ ended' = FALSE /\ given' = {} /\ pc = "off"
      /\ owed' = {r \in Answer : m = Everything \/ GetSubblockId(r) \in ToSet(m)}
  BY <1>1 DEF Setup, Before, position
<1>3. /\ case' = case /\ blocks' = blocks /\ acc' = acc /\ tab' = NoTable /\ use = "analyze"
  BY DEF Analyze, packer, Before
<1>4. ListFits(case, m, n)
  BY <1>1, ListStarts
<1> HIDE DEF n
<1>5. owed' = M
  <2>1. Answer = RowsTaken(case)
    BY AnswerIs
  <2>2. ASSUME NEW r \in RowsTaken(case)
        PROVE  (m = Everything \/ GetSubblockId(r) \in ToSet(m)) <=> Listed(case, m, GetSubblockId(r))
    <3> DEFINE x == GetSubblockId(r) * SubblockSize
               N == Len(docs)
    <3>1. r \in Nat /\ r < N /\ docs = case.docs /\ N \in Nat
      BY TakenRow, CaseIs DEF Numeric, docs
    <3>2. x \in Nat /\ x <= r
      BY <3>1, SubblockOf
    <3> HIDE DEF x, N
    <3>3. x < N
      BY <3>1, <3>2
    <3> QED
      BY <3>1, <3>3 DEF Listed, x, N
  <2> QED
    BY <1>2, <2>1, <2>2 DEF Matched
<1>6. RowsFit(case, m, n, e, 0, M, {}, 0)
  BY <1>4, RowsStart
<1>7. CountFits({}, limit, limit)
  <2>1. limit \in Nat /\ SubblockSize \in Nat \ {0}
    BY BaseAssumption, WordIs
  <2> DEFINE c == Cardinality({})
             S == SubblockSize
  <2>2. IsFiniteSet({}) /\ c = 0
    BY FS_EmptySet
  <2> HIDE DEF c, S
  <2>3. (limit > 0 => c + limit = limit) /\ (limit = 0 => c >= limit /\ c < limit + S)
    BY <2>1, <2>2 DEF S
  <2> QED
    BY <2>1, <2>2, <2>3 DEF CountFits, c, S
<1>8. AccFits(case, blocks, acc) /\ acc.block = -1
  BY <1>2, <1>3 DEF ReaderFits
<1>9. DOMAIN tab' = TabFields
  BY <1>3 DEF NoTable, TabFields
<1>10. Standing'
  BY <1>2, <1>3, <1>4, <1>7, <1>8, <1>9 DEF Standing
<1>11. RowsFit(case', pMatching', total', found', target', owed', given', front')
  BY <1>2, <1>3, <1>5, <1>6
<1>12. WalkFits'
  BY <1>2, <1>3, <1>8, <1>10, <1>11 DEF WalkFits, e
<1>13. Begun
  BY <1>2, <1>5 DEF Begun, Matched
<1> QED
  BY <1>12, <1>13

\* What an analyzer keeps to, from the first step to the last.
WalkInv == Numeric /\ Sound => IF pc = "off" THEN Before ELSE WalkFits

\* The steps of the walk.
WalkStep ==
    \/ UNCHANGED <<owed, front, ended>> /\ cutoff' = cutoff
    \/ cutoff' = cutoff /\ WalkFits /\ StreamMoves
    \/ cutoff' = cutoff /\ \E row \in Hints : HintSeen(row)
    \/ Begun

\* They do not change the cutoff.
LEMMA CutoffStays ==
    ASSUME EnterBlock \/ ProcessSubblock \/ Walk \/ Hint
    PROVE  cutoff' = cutoff
BY DEF EnterBlock, MoveToBlock, ProcessSubblock, Scanned, MoveToSubblock, Walk, Go, GetNextRowIdBlock, Hint, HintRowID

\* Each step of the column leaves the walk as it is or takes it on.
LEMMA WalkGoesOn ==
    ASSUME Numeric, Sound, PackerFits, ReaderFits, WalkInv, [Next]_vars
    PROVE  (IF pc' = "off" THEN Before' ELSE WalkFits') /\ WalkStep
<1>1. case \in IntCases /\ ~ IsVar
  BY CaseIs DEF Numeric, kind, IsVar
<1>2. CASE UNCHANGED <<case, tab, scanVars>> /\ pc = "off"
  <2>1. /\ tab' = tab /\ pc' = pc /\ owed' = owed /\ given' = given /\ front' = front /\ ended' = ended
        /\ found' = found /\ curSubblock' = curSubblock /\ curBlockId' = curBlockId /\ cutoff' = cutoff
    BY <1>2 DEF scanVars, position, seen
  <2>2. Before
    BY <1>2 DEF WalkInv
  <2> QED
    BY <1>2, <2>1, <2>2 DEF Before, WalkStep
<1>3. CASE UNCHANGED vars /\ pc # "off"
  <2>1. UNCHANGED <<case, packer, use, acc, tab, got, scanVars>>
    BY <1>3 DEF vars
  <2>2. /\ case' = case /\ blocks' = blocks /\ acc' = acc /\ tab' = tab /\ pc' = pc
        /\ pMatching' = pMatching /\ total' = total /\ cutoff' = cutoff /\ curSubblock' = curSubblock
        /\ curBlockId' = curBlockId /\ tRowID' = tRowID /\ rowsLeft' = rowsLeft /\ found' = found
        /\ caller' = caller /\ target' = target /\ nextBlock' = nextBlock
        /\ owed' = owed /\ front' = front /\ ended' = ended /\ given' = given
    BY <2>1 DEF packer, scanVars, position, moves, seen
  <2>3. WalkFits
    BY <1>3 DEF WalkInv
  <2>4. Standing' /\ (OnBlock => OnBlock')
    BY <2>2, <2>3 DEF WalkFits, Standing, OnBlock
  <2>5. WalkFits'
    BY <2>2, <2>3, <2>4 DEF WalkFits
  <2> QED
    BY <1>3, <2>2, <2>5 DEF WalkStep
<1>4. CASE AddDoc \/ Done \/ \E row \in 0..(Len(docs) - 1) : Get(row)
  <2>1. UNCHANGED <<case, tab, scanVars>> /\ use # "analyze"
    BY <1>4 DEF AddDoc, Done, Get
  <2>2. pc = "off"
    BY <2>1 DEF ReaderFits
  <2> QED
    BY <1>2, <2>1, <2>2
<1>5. CASE Analyze
  <2>1. Before /\ pc' # "off"
    BY <1>5 DEF WalkInv, Analyze, Setup
  <2> QED
    BY <1>5, <2>1, AnalyzeFits DEF WalkStep
<1>6. CASE \/ EnterBlock \/ ProcessSubblock
           \/ (Walk \/ Hint) /\ UNCHANGED <<case, packer, use, acc, tab, got>>
  <2>1. pc # "off" /\ pc' # "off" /\ cutoff' = cutoff
    BY <1>6, WalkOn, CutoffStays
  <2>2. WalkFits /\ use # "build" /\ BlocksFit(case, blocks)
    BY <2>1 DEF WalkInv, ReaderFits, PackerFits
  <2>3. CASE EnterBlock
    <3>1. WalkFits' /\ StreamMoves
      BY <2>2, <2>3, EnterFits
    <3> QED
      BY <2>1, <2>2, <3>1 DEF WalkStep
  <2>4. CASE ProcessSubblock
    <3>1. WalkFits' /\ StreamMoves
      BY <2>2, <2>4, ScanFits
    <3> QED
      BY <2>1, <2>2, <3>1 DEF WalkStep
  <2>5. CASE Walk /\ UNCHANGED <<case, packer, use, acc, tab, got>>
    <3>1. WalkFits' /\ StreamMoves
      BY <2>2, <2>5, GoFits, CallFits DEF Walk
    <3> QED
      BY <2>1, <2>2, <3>1 DEF WalkStep
  <2>6. CASE Hint /\ UNCHANGED <<case, packer, use, acc, tab, got>>
    <3>1. PICK row \in Hints : HintRowID(row)
      BY <2>6 DEF Hint
    <3>2. row \in Nat
      BY BaseAssumption
    <3>3. WalkFits' /\ HintSeen(row)
      BY <2>2, <2>6, <3>1, <3>2, HintFits
    <3> QED
      BY <2>1, <3>3 DEF WalkStep
  <2> QED
    BY <1>6, <2>3, <2>4, <2>5, <2>6
<1>7. ASSUME NEW row, GetLength(row) PROVE FALSE
  BY <1>1, <1>7 DEF GetLength
<1>8. CASE UNCHANGED vars /\ pc = "off"
  BY <1>2, <1>8 DEF vars
<1> QED
  BY <1>3, <1>4, <1>5, <1>6, <1>7, <1>8 DEF Next

\* Whether the code takes a filter right does not change.
LEMMA SoundStays ==
    ASSUME case' = case
    PROVE  (Numeric' <=> Numeric) /\ (Sound' <=> Sound)
BY DEF Numeric, Sound, Excludes, IsRange, kind, filter

\* The walk fits the file and the rows that are owed at all times.
LEMMA WalkInvariant == Spec => [](FileInv /\ WalkInv)
<1>1. Init => WalkInv
  BY DEF Init, NotSetUp, WalkInv, Before, NoBlock
<1>2. FileInv /\ WalkInv /\ [Next]_vars => WalkInv'
  <2> SUFFICES ASSUME FileInv, WalkInv, [Next]_vars, Numeric', Sound'
               PROVE  IF pc' = "off" THEN Before' ELSE WalkFits'
    BY DEF WalkInv
  <2>1. Numeric /\ Sound
    BY CaseStays, SoundStays
  <2> QED
    BY <2>1, WalkGoesOn DEF FileInv
<1> QED
  BY <1>1, <1>2, FileInvariant, PTL DEF Spec

\* Of the rows of an integer, hash or boolean column an analyzer returns only those that
\* pass its filter, and only from the sub-blocks it was given.
THEOREM NumbersFound == Spec => [](Numeric /\ Sound => NoForeignRow)
<1>1. FileInv /\ WalkInv => (Numeric /\ Sound => NoForeignRow)
  <2> SUFFICES ASSUME WalkInv, Numeric, Sound, NEW r \in given
               PROVE  r \in Answer /\ (pMatching = Everything \/ GetSubblockId(r) \in ToSet(pMatching))
    BY DEF NoForeignRow
  <2>1. r \in Matched(case, pMatching)
    <3>1. pc # "off" /\ WalkFits
      BY DEF WalkInv, Before
    <3> QED
      BY <3>1 DEF WalkFits, RowsFit
  <2> QED
    BY <2>1, AnswerIs DEF Matched, Listed
<1> QED
  BY <1>1, WalkInvariant, PTL

\* A sub-block of such a column is scanned only when all its rows still fit in the buffer.
THEOREM NumbersFitBuffer == Spec => [](Numeric /\ Sound => BufferHolds)
<1>1. FileInv /\ WalkInv => (Numeric /\ Sound => BufferHolds)
  <2> SUFFICES ASSUME WalkInv, Numeric, Sound, pc = "scan" PROVE Len(found) + SubblockSize <= 2 * SubblockSize
    BY DEF BufferHolds
  <2>1. WalkFits
    BY DEF WalkInv
  <2>2. Len(found) < SubblockSize /\ found \in Seq(Nat) /\ SubblockSize \in Nat
    BY <2>1, WordIs DEF WalkFits, RowsFit
  <2>3. Len(found) \in Nat
    BY <2>2
  <2> QED
    BY <2>2, <2>3
<1> QED
  BY <1>1, WalkInvariant, PTL

\* Under a cutoff the analyzer of such a column ends short of it only when no row is left,
\* and overshoots it by less than a sub-block.
THEOREM NumbersKeepCutoff == Spec => [](Numeric /\ Sound => CutoffRespected)
<1>1. FileInv /\ WalkInv => (Numeric /\ Sound => CutoffRespected)
  <2> SUFFICES ASSUME WalkInv, Numeric, Sound PROVE CutoffRespected
    OBVIOUS
  <2> DEFINE c == Cardinality(given)
             S == SubblockSize
  <2>1. S \in Nat \ {0} /\ Unlimited \in Nat
    BY WordIs, BaseAssumption
  <2>2. CASE pc = "off"
    <3>1. given = {} /\ owed = {} /\ cutoff = Unlimited
      BY <2>2 DEF WalkInv, Before
    <3>2. c = 0
      BY <3>1, FS_EmptySet
    <3> HIDE DEF c, S
    <3>3. c < cutoff + S
      BY <2>1, <3>1, <3>2
    <3> QED
      BY <3>1, <3>3 DEF CutoffRespected, c, S
  <2>3. CASE pc # "off"
    <3>1. CountFits(given, cutoff, rowsLeft) /\ (ended => owed = {} \/ rowsLeft = 0)
      BY <2>3 DEF WalkInv, WalkFits, Standing
    <3>2. /\ IsFiniteSet(given) /\ cutoff \in Nat /\ rowsLeft \in Nat
          /\ rowsLeft > 0 => c + rowsLeft = cutoff
          /\ rowsLeft = 0 => c >= cutoff /\ c < cutoff + S
      BY <3>1 DEF CountFits
    <3>3. c \in Nat
      BY <3>2, FS_CardinalityType
    <3> HIDE DEF c, S
    <3>4. (rowsLeft = 0 => ~ (c < cutoff)) /\ c < cutoff + S
      BY <2>1, <3>2, <3>3
    <3> QED
      BY <3>1, <3>4 DEF CutoffRespected, c, S
  <2> QED
    BY <2>2, <2>3
<1> QED
  BY <1>1, WalkInvariant, PTL

-----------------------------------------------------------------------------
(* The stream of rows. *)

\* A column has fewer rows than INT_MAX, what is left of no cutoff.
Short == Len(docs) < Unlimited

\* A column of numbers whose filter the code takes right.
Plain == Numeric /\ Sound /\ Short

\* Its rows are row ids.
LEMMA RowsAre ==
    ASSUME Numeric
    PROVE  RowsTaken(case) \subseteq Row
<1> SUFFICES ASSUME NEW r \in RowsTaken(case) PROVE r \in Row
  OBVIOUS
<1> DEFINE n == Len(case.docs)
           L == LengthsOf(IntCases) \cup LengthsOf(MvaCases) \cup LengthsOf(StrCases)
<1>1. r \in 0..(n - 1)
  BY TakenRow
<1>2. n \in L
  BY DEF Numeric, LengthsOf
<1>3. Row = UNION {0..(k - 1) : k \in L}
  BY DEF Row
<1> HIDE DEF n, L
<1> QED
  BY <1>1, <1>2, <1>3

\* Without a cutoff there are always rows left.
LEMMA RowsAreLeft ==
    ASSUME Numeric, Short, WalkFits, cutoff = Unlimited
    PROVE  rowsLeft # 0
<1> SUFFICES ASSUME rowsLeft = 0 PROVE FALSE
  OBVIOUS
<1> DEFINE N == Len(docs)
           y == N - 1
           I == 0..y
           c == Cardinality(given)
           d == Cardinality(I)
<1>1. N \in Nat /\ docs = case.docs /\ N < Unlimited /\ Unlimited \in Nat
  BY CaseIs, BaseAssumption DEF Numeric, docs, Short
<1>2. IsFiniteSet(given) /\ c >= Unlimited
  BY DEF WalkFits, Standing, CountFits
<1>3. given \in SUBSET I
  <2>1. given \subseteq RowsTaken(case)
    BY DEF WalkFits, RowsFit, Matched
  <2> QED
    BY <1>1, <2>1 DEF RowsTaken
<1>4. 0 \in Int /\ y \in Int /\ (IF 0 > y THEN 0 ELSE y - 0 + 1) = N
  BY <1>1
<1> HIDE DEF y, N
<1>5. IsFiniteSet(I) /\ d = N
  BY <1>4, FS_Interval
<1> HIDE DEF I
<1>6. c <= d /\ c \in Nat
  BY <1>2, <1>3, <1>5, FS_Subset, FS_CardinalityType
<1> HIDE DEF c, d
<1> QED
  BY <1>1, <1>2, <1>5, <1>6

\* A step of the walk is one of the stream.
LEMMA StreamStep ==
    ASSUME Numeric, Sound, Short, PackerFits, ReaderFits, WalkInv, [Next]_vars
    PROVE  [Stream!Next]_(Stream!streamVars)
<1>1. case' = case /\ WalkStep
  BY CaseStays, WalkGoesOn
<1>2. CASE UNCHANGED <<owed, front, ended>> /\ cutoff' = cutoff
  BY <1>2 DEF Stream!streamVars, Promised
<1>3. CASE cutoff' = cutoff /\ WalkFits /\ StreamMoves
  <2>1. CASE UNCHANGED <<owed, front, ended>>
    BY <1>2, <1>3, <2>1
  <2>2. ASSUME NEW last \in Matched(case, pMatching), ~ ended, ended' = ended, last >= front,
               \A r \in owed : r >= front, front' = last + 1, owed' = {r \in owed : r > last}
        PROVE  Stream!Next
    <3>1. last \in Row
      BY RowsAre DEF Matched
    <3>2. Promised' = {r \in Promised : r > last} /\ \A r \in Promised : r >= front
      BY <1>3, <2>2 DEF Promised
    <3>3. Stream!Deliver
      BY <2>2, <3>1, <3>2 DEF Stream!Deliver
    <3> QED
      BY <3>3 DEF Stream!Next
  <2>3. CASE (owed = {} \/ rowsLeft = 0) /\ ended' = TRUE /\ UNCHANGED <<owed, front>>
    <3>1. Promised = {} /\ Promised' = Promised
      BY <1>3, <2>3, RowsAreLeft DEF Promised
    <3> QED
      BY <2>3, <3>1 DEF Stream!Next, Stream!Exhaust
  <2> QED
    BY <1>3, <2>1, <2>2, <2>3 DEF StreamMoves
<1>4. ASSUME cutoff' = cutoff, NEW row \in Hints, HintSeen(row)
      PROVE  Stream!Next
  <2>1. Promised' = {r \in Promised : r >= row}
    BY <1>4 DEF Promised, HintSeen
  <2>2. front' = front /\ (ended' = ended \/ (Promised' = {} /\ ended' = TRUE))
    BY <1>4 DEF Promised, HintSeen
  <2>3. Stream!Hint
    BY <2>1, <2>2 DEF Stream!Hint
  <2> QED
    BY <2>3 DEF Stream!Next
<1>5. CASE Begun
  <2>1. Promised' \in SUBSET Row
    BY <1>5, RowsAre DEF Begun, Promised
  <2> QED
    BY <1>5, <2>1 DEF Begun, Stream!Next, Stream!Restart
<1> QED
  BY <1>1, <1>2, <1>3, <1>4, <1>5 DEF WalkStep

\* The column stays one of those.
LEMMA PlainStays == Spec /\ Plain => []Plain
<1>1. Plain /\ [Next]_vars => Plain'
  <2> SUFFICES ASSUME Plain, [Next]_vars PROVE Plain'
    OBVIOUS
  <2>1. case' = case
    BY CaseStays
  <2> QED
    BY <2>1, SoundStays DEF Plain, Short, docs
<1> QED
  BY <1>1, PTL DEF Spec

\* The analyzer of an integer, hash or boolean column is a stream of the rows that pass:
\* in order, once, and none left behind in a block or sub-block it skips.
THEOREM NumbersStream == Spec /\ Plain => ImplementsStream
<1>1. Init => Stream!Init
  BY DEF Init, NotSetUp, Stream!Init, Promised
<1>2. FileInv /\ WalkInv /\ Plain /\ [Next]_vars => [Stream!Next]_(Stream!streamVars)
  BY StreamStep DEF FileInv, Plain
<1>3. Spec /\ Plain => [](FileInv /\ WalkInv) /\ []Plain
  BY WalkInvariant, PlainStays
<1> QED
  BY <1>1, <1>2, <1>3, PTL DEF Spec, ImplementsStream, Stream!Spec
=============================================================================
