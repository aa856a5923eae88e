---------------------------- MODULE SIFileProofs ----------------------------
(***************************************************************************)
(* TLAPS proofs about SIFile, for any schema, any numbers of values and    *)
(* any sizes of blocks and buffers: what Setup takes is a whole file, no    *)
(* update is lost, and the file and the open index implement IndexLife.     *)
(***************************************************************************)
EXTENDS SIFile, SequenceTheorems, WellFoundedInduction, TLAPS

Kinds == {"version", "metaOff", "block", "offset", "pgmLen", "pgm", "nextMeta", "attrsCount",
          "bits", "settings", "perBlock", "attr", "blocksOff", "blocksCount"}
Items == [kind : Kinds, data : Seq(Int)]
Writers == [file : Seq(Items), used : Seq(Items), at : Nat, append : BOOLEAN]

\* The buffer is not over-full.
WriterOK(w) == w \in Writers /\ Len(w.used) <= BufferSize

\* What the writer holds goes behind the file.
AtEnd(w) == w.at = Len(w.file)

\* The file as it is to be, with what the writer still holds.
Content(w) == w.file \o w.used

N == Len(Schema)
Count(a) == BlocksFor(distinct[a])
Total == blocksOffStart[N] + Count(N)

\* The first k offset tables follow one another.
StartsOK(k) ==
    /\ Len(blocksOffStart) = k
    /\ blocksOffStart[1] = 0
    /\ \A a \in 1..k : a # 1 => blocksOffStart[a] = blocksOffStart[a - 1] + Count(a - 1)
    /\ \A a, b \in 1..k : a < b => blocksOffStart[a] + Count(a) <= blocksOffStart[b]

\* The builder is past this block; it is where the table of its attribute says.
Out(a, b) == b \in 1..Count(a) /\ (a < attr \/ (a = attr /\ b < block))
BlockIn(f, a, b) == f[2 + blocksOffStart[a] + b] = Item("block", <<a, b>>)
OffsetIn(f, a, b) == f[blocksOffStart[a] + b] = Item("offset", <<1 + blocksOffStart[a] + b>>)

Written == IF attr \in Attr THEN blocksOffStart[attr] + block - 1 ELSE Total

\* While the blocks are written nothing of the meta is known to the file.
InBlocks ==
    phase = "blocks" =>
        /\ done = 0
        /\ AtEnd(dst) /\ AtEnd(tmpBlocks) /\ AtEnd(tmpPgm)
        /\ StartsOK(IF attr \in Attr THEN attr ELSE N)
        /\ attr \in Attr => block <= Count(attr) + 1
        /\ Len(Content(tmpBlocks)) = Written
        /\ Len(Content(dst)) = 2 + Written
        /\ Len(Content(tmpPgm)) = 2 * (attr - 1)
        /\ Content(dst)[2] = Item("metaOff", <<0>>)
        /\ \A a \in Attr : \A b \in 1..Count(a) :
               Out(a, b) => BlockIn(Content(dst), a, b) /\ OffsetIn(Content(tmpBlocks), a, b)
        /\ \A a \in 1..attr - 1 : Content(tmpPgm)[2 * a] = Item("pgm", <<a>>)

\* What the builder holds once the blocks are out, until it starts again.
Tables ==
    /\ StartsOK(N)
    /\ metaOff = 2 + Total
    /\ GetPos(tmpBlocks) = Total /\ Len(tmpBlocks.file) = Total
    /\ \A a \in Attr : \A b \in 1..Count(a) : OffsetIn(tmpBlocks.file, a, b)
    /\ Len(tmpPgm.file) = 2 * N
    /\ \A a \in Attr : tmpPgm.file[2 * a] = Item("pgm", <<a>>)

NoOffset(f) == f[2] = Item("metaOff", <<0>>)

BlocksIn(f, off) ==
    /\ f[2] = Item("metaOff", <<off>>)
    /\ \A a \in Attr : \A b \in 1..Count(a) : BlockIn(f, a, b)

FamilyClosed(set) == \A a \in Attr : \A b \in Siblings(a) : a \in set <=> b \in set

PgmAt == metaOff + MetaSize
TablesAt == PgmAt + 2 * N

\* The file up to its meta, and behind it as much of the temporary files as there is.
Laid(f) ==
    /\ f \in Seq(Items)
    /\ PgmAt <= Len(f) /\ Len(f) <= TablesAt + Total
    /\ BlocksIn(f, metaOff)
    /\ \A i \in 1..MetaSize : i # 3 => f[metaOff + i] = Meta[i]
    /\ FamilyClosed(StoredEnabled(f))
    /\ \A i \in 1..2 * N : PgmAt + i <= Len(f) => f[PgmAt + i] = tmpPgm.file[i]
    /\ \A i \in 1..Total : TablesAt + i <= Len(f) => f[TablesAt + i] = tmpBlocks.file[i]

InClosed ==
    phase = "closed" =>
        /\ Tables /\ done = 0
        /\ AtEnd(dst) /\ dst.used = << >>
        /\ Len(dst.file) = metaOff /\ BlocksIn(dst.file, 0)

InPatch ==
    phase = "patch" =>
        /\ Tables /\ done = 0
        /\ dst.at = 1 /\ dst.used = <<Item("metaOff", <<metaOff>>)>> /\ ~dst.append
        /\ Len(dst.file) = metaOff /\ BlocksIn(dst.file, 0)

InMeta ==
    phase = "meta" =>
        /\ Tables /\ done <= MetaSize
        /\ AtEnd(dst)
        /\ metaOff <= Len(dst.file) /\ BlocksIn(dst.file, metaOff)
        /\ Len(Content(dst)) = metaOff + done
        /\ \A i \in 1..done : Content(dst)[metaOff + i] = Meta[i]

InCopy ==
    phase \in {"copyPgm", "copyBlocks"} =>
        /\ Tables /\ Laid(dst.file) /\ StoredEnabled(dst.file) = Attr
        /\ dst.used = << >> /\ dst.at <= Len(dst.file)
        /\ phase = "copyPgm" => done <= 2 * N /\ Len(dst.file) = PgmAt + done
        /\ phase = "copyBlocks" => done <= Total /\ Len(dst.file) = TablesAt + done

\* Whatever the builder left behind, what Setup takes is laid out to the end.
AtRest ==
    phase \in Idle \cup {"serving"} /\ Accepts(dst.file) => Tables /\ Laid(dst.file)

IsBuilt == phase = "built" => Accepts(dst.file) /\ StoredEnabled(dst.file) = Attr

IsServing ==
    phase = "serving" =>
        /\ Accepts(dst.file)
        /\ FamilyClosed(enabled)
        /\ ~updated => StoredEnabled(dst.file) = enabled

Types ==
    /\ phase \in Building \cup Idle \cup {"serving"}
    /\ builds \in 0..MaxBuilds
    /\ distinct \in [Attr -> Nat]
    /\ WriterOK(dst) /\ WriterOK(tmpBlocks) /\ WriterOK(tmpPgm)
    /\ attr \in 1..N + 1 /\ block \in Nat \ {0}
    /\ blocksOffStart \in Seq(Nat) /\ metaOff \in Nat /\ done \in Nat
    /\ enabled \subseteq Attr /\ updated \in BOOLEAN

IInv ==
    /\ Types
    /\ InBlocks /\ InClosed /\ InPatch /\ InMeta /\ InCopy
    /\ AtRest /\ IsBuilt /\ IsServing
-----------------------------------------------------------------------------
(* Numbers. *)

\* Any set of natural numbers that is not empty has a least one.
LEMMA LeastNatural ==
    ASSUME NEW T, T \subseteq Nat, T # {}
    PROVE  \E m \in T : \A k \in T : m <= k
<1>1. IsWellFoundedOn(OpToRel(<, Nat), Nat)
  BY NatLessThanWellFounded
<1>2. PICK m \in T : \A k \in T : ~ (<<k, m>> \in OpToRel(<, Nat))
  BY <1>1, WFMin
<1>3. \A k \in T : ~ (k < m)
  BY <1>2 DEF OpToRel
<1> QED
  BY <1>3

\* What Setup takes as the starts of the tables are the ones that were stored.
LEMMA DeltasInverted ==
    ASSUME NEW s \in Seq(Int)
    PROVE  InverseDeltas(Deltas(s)) = s
<1> DEFINE d == Deltas(s)
           IsSum(f) == f = [i \in DOMAIN d |-> IF i = 1 THEN d[1] ELSE f[i - 1] + d[i]]
<1>1. DOMAIN d = DOMAIN s /\ DOMAIN s = 1..Len(s) /\ Len(s) \in Nat
  BY DEF Deltas
<1>2. IsSum(s)
  <2>1. \A i \in DOMAIN s : s[i] = IF i = 1 THEN d[1] ELSE s[i - 1] + d[i]
    BY <1>1 DEF Deltas
  <2> QED
    BY <1>1, <2>1
<1>3. ASSUME NEW f, IsSum(f)
      PROVE  f = s
  <2> DEFINE T == {i \in DOMAIN s : f[i] # s[i]}
  <2>1. SUFFICES ASSUME T # {} PROVE FALSE
    BY <1>1, <1>3
  <2>2. T \subseteq Nat
    BY <1>1
  <2>3. PICK m \in T : \A k \in T : m <= k
    <3> HIDE DEF T
    <3> QED BY <2>1, <2>2, LeastNatural
  <2>4. m # 1 => f[m - 1] = s[m - 1]
    BY <1>1, <2>3
  <2>5. f[m] = s[m]
    BY <1>1, <1>2, <1>3, <2>4
  <2> QED
    BY <2>5
<1>4. InverseDeltas(d) = CHOOSE f : IsSum(f)
  BY DEF InverseDeltas
<1>5. IsSum(InverseDeltas(d))
  BY <1>2, <1>4
<1> QED
  BY <1>3, <1>5

LEMMA BlocksForType == \A c \in Nat : BlocksFor(c) \in Nat
BY FileAssumption DEF BlocksFor

LEMMA Join ==
    ASSUME NEW s \in Seq(Items), NEW t \in Seq(Items)
    PROVE  /\ s \o t \in Seq(Items) /\ Len(s \o t) = Len(s) + Len(t)
           /\ \A i \in 1..Len(s) + Len(t) :
                  (s \o t)[i] = IF i <= Len(s) THEN s[i] ELSE t[i - Len(s)]
BY ConcatProperties

LEMMA SchemaFacts ==
    /\ Attr = 1..Len(Schema)
    /\ Len(Schema) \in Nat \ {0}
    /\ BufferSize \in Nat \ {0} /\ CopySize \in Nat \ {0}
BY FileAssumption DEF Attr
-----------------------------------------------------------------------------
(* Writers. *)

LEMMA WriterIs ==
    ASSUME NEW f \in Seq(Items), NEW u \in Seq(Items), NEW p \in Nat, NEW ap \in BOOLEAN
    PROVE  [file |-> f, used |-> u, at |-> p, append |-> ap] \in Writers
BY DEF Writers

LEMMA FlushAtEnd ==
    ASSUME NEW w, WriterOK(w), AtEnd(w)
    PROVE  /\ WriterOK(Flush(w)) /\ AtEnd(Flush(w))
           /\ Flush(w).file = Content(w) /\ Flush(w).used = << >>
           /\ Content(Flush(w)) = Content(w)
           /\ Flush(w).append = w.append
<1>1. w.file \in Seq(Items) /\ w.used \in Seq(Items) /\ w.at = Len(w.file) /\ w.at \in Nat
      /\ w.append \in BOOLEAN
  BY DEF WriterOK, AtEnd, Writers
<1>2. Overwritten(w.file, w.at, w.used) = Content(w)
  <2>1. SubSeq(w.file, 1, w.at) = w.file
    BY <1>1, SubSeqFull
  <2>2. SubSeq(w.file, w.at + Len(w.used) + 1, Len(w.file)) = << >>
    BY <1>1, SubSeqEmpty
  <2>3. w.file \o w.used \in Seq(Items)
    BY <1>1, ConcatProperties
  <2> QED
    BY <2>1, <2>2, <2>3, ConcatEmptySeq DEF Overwritten, Content
<1>3. Flush(w) = [file |-> Content(w), used |-> << >>, at |-> w.at + Len(w.used), append |-> w.append]
  <2>1. (IF w.append THEN w.file \o w.used ELSE Overwritten(w.file, w.at, w.used)) = Content(w)
    BY <1>2 DEF Content
  <2>2. Flush(w) = [w EXCEPT !.file = Content(w), !.at = w.at + Len(w.used), !.used = << >>]
    BY <2>1 DEF Flush, GetPos
  <2> QED
    BY <2>2 DEF WriterOK, Writers
<1>4. /\ Content(w) \in Seq(Items)
      /\ Len(Content(w)) = Len(w.file) + Len(w.used)
      /\ Content(w) \o << >> = Content(w)
  BY <1>1, ConcatProperties, ConcatEmptySeq DEF Content
<1>5. Flush(w).file = Content(w) /\ Flush(w).used = << >> /\ Flush(w).append = w.append
      /\ Flush(w).at = w.at + Len(w.used)
  BY <1>3
<1>6. Flush(w) \in Writers
  <2>3. w.at \in Nat /\ Len(w.used) \in Nat
    BY <1>1, LenProperties
  <2>1. w.at + Len(w.used) \in Nat
    BY <2>3
  <2>2. << >> \in Seq(Items)
    BY EmptySeq
  <2> QED
    BY <1>1, <1>3, <1>4, <2>1, <2>2, WriterIs
<1> QED
  <2>1. WriterOK(Flush(w))
    BY <1>5, <1>6, SchemaFacts DEF WriterOK
  <2>2. AtEnd(Flush(w))
    BY <1>1, <1>4, <1>5 DEF AtEnd
  <2>3. Content(Flush(w)) = Content(w)
    BY <1>4, <1>5 DEF Content
  <2> QED
    BY <1>5, <2>1, <2>2, <2>3

LEMMA WriteAtEnd ==
    ASSUME NEW w, WriterOK(w), AtEnd(w), NEW item \in Items
    PROVE  /\ WriterOK(Write(w, item)) /\ AtEnd(Write(w, item))
           /\ Content(Write(w, item)) = Append(Content(w), item)
<1> DEFINE room == IF Len(w.used) = BufferSize THEN Flush(w) ELSE w
<1>1. /\ WriterOK(room) /\ AtEnd(room) /\ Content(room) = Content(w)
      /\ Len(room.used) < BufferSize
  BY FlushAtEnd, SchemaFacts DEF WriterOK, Writers
<1>2. /\ room.file \in Seq(Items) /\ room.used \in Seq(Items) /\ room.at \in Nat
      /\ room.append \in BOOLEAN
  BY <1>1 DEF WriterOK, Writers
<1>3. Write(w, item) = [file |-> room.file, used |-> Append(room.used, item),
                        at |-> room.at, append |-> room.append]
  <2> HIDE DEF room
  <2>1. Write(w, item) = [room EXCEPT !.used = Append(@, item)]
    BY DEF Write, room
  <2> QED
    BY <1>1, <2>1 DEF WriterOK, Writers
<1> HIDE DEF room
<1>4. /\ Append(room.used, item) \in Seq(Items)
      /\ Len(Append(room.used, item)) = Len(room.used) + 1
  BY <1>2, AppendProperties
<1>5. room.file \o Append(room.used, item) = Append(room.file \o room.used, item)
  <2>1. Append(room.used, item) = room.used \o <<item>>
    BY <1>2, AppendIsConcat
  <2>4. <<item>> \in Seq(Items)
    OBVIOUS
  <2>2. room.file \o room.used \in Seq(Items)
    BY <1>2, ConcatProperties
  <2>3. Append(room.file \o room.used, item) = (room.file \o room.used) \o <<item>>
    BY <2>2, AppendIsConcat
  <2>5. (room.file \o room.used) \o <<item>> = room.file \o (room.used \o <<item>>)
    <3>1. ASSUME NEW f \in Seq(Items), NEW u \in Seq(Items), NEW v \in Seq(Items)
          PROVE  (f \o u) \o v = f \o (u \o v)
      BY ConcatAssociative
    <3> QED
      BY <1>2, <2>4, <3>1
  <2> QED
    BY <2>1, <2>3, <2>5
<1>6. Write(w, item) \in Writers
  BY <1>2, <1>3, <1>4 DEF Writers
<1>7. /\ Write(w, item).file = room.file /\ Write(w, item).used = Append(room.used, item)
      /\ Write(w, item).at = room.at
  BY <1>3
<1>8. WriterOK(Write(w, item))
  <2>1. Len(room.used) \in Nat
    BY <1>2, LenProperties
  <2>2. Len(room.used) + 1 <= BufferSize
    BY <1>1, <2>1, SchemaFacts
  <2> QED
    BY <1>4, <1>6, <1>7, <2>2 DEF WriterOK
<1>9. AtEnd(Write(w, item))
  BY <1>1, <1>7 DEF AtEnd
<1>10. Content(Write(w, item)) = Append(Content(w), item)
  BY <1>1, <1>5, <1>7 DEF Content
<1> QED
  BY <1>8, <1>9, <1>10
-----------------------------------------------------------------------------
(* The layout. *)

LEMMA CountType ==
    ASSUME Types, NEW a \in Attr
    PROVE  Count(a) \in Nat
BY BlocksForType DEF Types, Count

LEMMA TotalType ==
    ASSUME Types, StartsOK(N)
    PROVE  /\ Total \in Nat
           /\ \A a \in Attr : blocksOffStart[a] \in Nat /\ blocksOffStart[a] + Count(a) <= Total
<1>1. N \in Nat \ {0} /\ Attr = 1..N
  BY SchemaFacts DEF N
<1>2. blocksOffStart \in Seq(Nat) /\ Len(blocksOffStart) = N
  BY DEF Types, StartsOK
<1>3. \A a \in Attr : blocksOffStart[a] \in Nat
  BY <1>1, <1>2, ElementOfSeq
<1>4. \A a \in Attr : Count(a) \in Nat
  BY CountType
<1>5. ASSUME NEW a \in Attr
      PROVE  blocksOffStart[a] + Count(a) <= Total
  <2>1. CASE a = N
    BY <1>1, <1>3, <1>4, <2>1 DEF Total
  <2>2. CASE a < N
    <3>1. blocksOffStart[a] + Count(a) <= blocksOffStart[N]
      BY <1>1, <2>2 DEF StartsOK
    <3> QED
      BY <1>1, <1>3, <1>4, <3>1 DEF Total
  <2> QED
    BY <1>1, <2>1, <2>2
<1> QED
  BY <1>1, <1>3, <1>4, <1>5 DEF Total

LEMMA ItemType ==
    /\ \A k \in Kinds : \A d \in Seq(Int) : Item(k, d) \in Items
    /\ \A k, d : Item(k, d).data = d /\ Item(k, d).kind = k
BY DEF Item, Items

LEMMA ItemsWritten ==
    /\ Item("version", << >>) \in Items
    /\ \A x \in Int : /\ Item("metaOff", <<x>>) \in Items /\ Item("offset", <<x>>) \in Items
                      /\ Item("pgmLen", <<x>>) \in Items /\ Item("pgm", <<x>>) \in Items
    /\ \A x, y \in Int : Item("block", <<x, y>>) \in Items
<1>1. << >> \in Seq(Int) /\ \A x \in Int : <<x>> \in Seq(Int)
  OBVIOUS
<1>2. \A x, y \in Int : <<x, y>> \in Seq(Int)
  OBVIOUS
<1> QED
  BY <1>1, <1>2, ItemType DEF Kinds

\* The meta, item by item.
LEMMA MetaFacts ==
    ASSUME Types, Tables
    PROVE  /\ Meta \in Seq(Items) /\ Len(Meta) = MetaSize
           /\ Meta[3] = Item("bits", Bits(Attr))
           /\ \A a \in Attr : Meta[5 + a].data = <<a, distinct[a]>>
           /\ Meta[MetaSize - 1].data = Deltas(blocksOffStart)
           /\ \A a \in Attr : Meta[MetaSize].data[a] = Count(a)
<1> DEFINE head == <<Item("nextMeta", <<0>>), Item("attrsCount", <<Len(Schema)>>),
                     Item("bits", Bits(Attr)), Item("settings", << >>),
                     Item("perBlock", <<ValuesPerBlock>>)>>
           attrs == [a \in Attr |-> Item("attr", <<a, distinct[a]>>)]
           tail == <<Item("blocksOff", Deltas(blocksOffStart)), Item("blocksCount", BlocksCount)>>
<1>1. N \in Nat \ {0} /\ Attr = 1..N /\ N = Len(Schema)
  BY SchemaFacts DEF N
<1>2. blocksOffStart \in Seq(Nat) /\ Len(blocksOffStart) = N
      /\ \A a \in Attr : blocksOffStart[a] \in Nat
  BY <1>1, ElementOfSeq DEF Types, Tables, StartsOK
<1>3. \A a \in Attr : Count(a) \in Nat
  BY CountType
<1>4. Total \in Nat
  BY TotalType DEF Tables
<1>5. Bits(Attr) \in Seq(Int)
  BY <1>1 DEF Bits
<1>6. Deltas(blocksOffStart) \in Seq(Int)
  <2>1. DOMAIN blocksOffStart = 1..N
    BY <1>2
  <2>2. \A i \in 1..N : (IF i = 1 THEN blocksOffStart[1] ELSE blocksOffStart[i] - blocksOffStart[i - 1]) \in Int
    BY <1>1, <1>2
  <2> QED
    BY <1>1, <2>1, <2>2 DEF Deltas
<1>7. /\ BlocksCount \in Seq(Int)
      /\ \A a \in Attr : BlocksCount[a] = Count(a)
  <2> DEFINE end == Append(blocksOffStart, Total)
  <2>1. BlocksCount = [a \in Attr |-> end[a + 1] - end[a]]
    BY DEF BlocksCount, Tables
  <2>2. \A a \in Attr : end[a] = blocksOffStart[a] /\ end[a + 1] = IF a = N THEN Total ELSE blocksOffStart[a + 1]
    BY <1>1, <1>2, <1>4
  <2>3. \A a \in Attr : end[a + 1] - end[a] = Count(a)
    <3> TAKE a \in Attr
    <3>1. CASE a = N
      BY <1>1, <1>2, <1>3, <2>2, <3>1 DEF Total
    <3>2. CASE a # N
      <4>1. a + 1 \in 1..N /\ a + 1 # 1 /\ (a + 1) - 1 = a
        BY <1>1, <3>2
      <4>2. blocksOffStart[a + 1] = blocksOffStart[a] + Count(a)
        BY <4>1 DEF Tables, StartsOK
      <4> QED
        BY <1>1, <1>2, <1>3, <2>2, <3>2, <4>2
    <3> QED
      BY <3>1, <3>2
  <2> HIDE DEF end
  <2>4. \A a \in Attr : BlocksCount[a] = Count(a)
    BY <2>1, <2>3
  <2>5. BlocksCount \in [1..N -> Int]
    BY <1>1, <1>3, <2>1, <2>3
  <2> QED
    BY <1>1, <2>4, <2>5
<1>8. head \in Seq(Items) /\ Len(head) = 5 /\ head[3] = Item("bits", Bits(Attr))
  <2>1. /\ Item("nextMeta", <<0>>) \in Items /\ Item("attrsCount", <<Len(Schema)>>) \in Items
        /\ Item("settings", << >>) \in Items /\ Item("perBlock", <<ValuesPerBlock>>) \in Items
    <3>1. <<0>> \in Seq(Int) /\ << >> \in Seq(Int)
      OBVIOUS
    <3>2. ValuesPerBlock \in Int /\ Len(Schema) \in Int
      BY <1>1, FileAssumption
    <3>3. <<Len(Schema)>> \in Seq(Int) /\ <<ValuesPerBlock>> \in Seq(Int)
      BY <3>2
    <3> QED
      BY <3>1, <3>3, ItemType DEF Kinds
  <2>2. Item("bits", Bits(Attr)) \in Items
    BY <1>5, ItemType DEF Kinds
  <2> QED
    BY <2>1, <2>2
<1>9. attrs \in Seq(Items) /\ Len(attrs) = N /\ \A a \in Attr : attrs[a].data = <<a, distinct[a]>>
  <2>1. \A a \in Attr : <<a, distinct[a]>> \in Seq(Int)
    BY <1>1 DEF Types
  <2>2. \A a \in Attr : Item("attr", <<a, distinct[a]>>) \in Items
    BY <2>1, ItemType DEF Kinds
  <2>3. attrs \in [1..N -> Items]
    BY <1>1, <2>2
  <2>4. \A a \in Attr : attrs[a].data = <<a, distinct[a]>>
    BY <2>1, ItemType
  <2> HIDE DEF attrs
  <2> QED
    BY <1>1, <2>3, <2>4
<1>10. /\ tail \in Seq(Items) /\ Len(tail) = 2
       /\ tail[1].data = Deltas(blocksOffStart) /\ tail[2].data = BlocksCount
  <2>1. Item("blocksOff", Deltas(blocksOffStart)) \in Items /\ Item("blocksCount", BlocksCount) \in Items
    BY <1>6, <1>7, ItemType DEF Kinds
  <2>2. tail \in Seq(Items) /\ Len(tail) = 2
    BY <2>1
  <2> QED
    BY <2>2, ItemType
<1>11. Meta = head \o attrs \o tail
  BY DEF Meta
<1>12. MetaSize = 5 + N + 2
  BY <1>1 DEF MetaSize
<1> HIDE DEF head, attrs, tail
<1>13. /\ head \o attrs \in Seq(Items) /\ Len(head \o attrs) = 5 + N
       /\ \A i \in 1..5 + N : (head \o attrs)[i] = IF i <= 5 THEN head[i] ELSE attrs[i - 5]
  <2>1. /\ head \o attrs \in Seq(Items) /\ Len(head \o attrs) = Len(head) + Len(attrs)
        /\ \A i \in 1..Len(head) + Len(attrs) :
               (head \o attrs)[i] = IF i <= Len(head) THEN head[i] ELSE attrs[i - Len(head)]
    BY <1>8, <1>9, Join
  <2> QED
    BY <1>8, <1>9, <2>1
<1>14. /\ Meta \in Seq(Items) /\ Len(Meta) = 5 + N + 2
       /\ \A i \in 1..5 + N + 2 : Meta[i] = IF i <= 5 + N THEN (head \o attrs)[i] ELSE tail[i - (5 + N)]
  <2> DEFINE first == head \o attrs
  <2>1. first \in Seq(Items) /\ Len(first) = 5 + N
    BY <1>13
  <2> HIDE DEF first
  <2>2. /\ first \o tail \in Seq(Items) /\ Len(first \o tail) = Len(first) + Len(tail)
        /\ \A i \in 1..Len(first) + Len(tail) :
               (first \o tail)[i] = IF i <= Len(first) THEN first[i] ELSE tail[i - Len(first)]
    BY <1>10, <2>1, Join
  <2>3. Meta = first \o tail
    BY <1>11 DEF first
  <2> QED
    BY <1>10, <2>1, <2>2, <2>3 DEF first
<1>15. Meta[3] = Item("bits", Bits(Attr))
  <2>1. 3 \in 1..5 + N + 2 /\ 3 <= 5 + N /\ 3 \in 1..5 + N /\ 3 <= 5
    BY <1>1
  <2>2. Meta[3] = (head \o attrs)[3]
    BY <1>14, <2>1, Zenon
  <2>3. (head \o attrs)[3] = head[3]
    BY <1>13, <2>1, Zenon
  <2> QED
    BY <1>8, <2>2, <2>3, Zenon
<1>16. ASSUME NEW a \in Attr
       PROVE  Meta[5 + a].data = <<a, distinct[a]>>
  <2>1. 5 + a \in 1..5 + N /\ ~(5 + a <= 5) /\ (5 + a) - 5 = a
    BY <1>1
  <2>2. Meta[5 + a] = attrs[a]
    <3>1. 5 + a \in 1..5 + N + 2 /\ 5 + a <= 5 + N
      BY <1>1
    <3>2. Meta[5 + a] = (head \o attrs)[5 + a]
      BY <1>14, <3>1
    <3> QED
      BY <1>13, <2>1, <3>2
  <2> QED
    BY <1>9, <2>2
<1>17. Meta[MetaSize - 1] = tail[1] /\ Meta[MetaSize] = tail[2]
  <2>1. ASSUME NEW k \in {1, 2}
        PROVE  Meta[5 + N + k] = tail[k]
    <3>1. 5 + N + k \in 1..5 + N + 2 /\ ~(5 + N + k <= 5 + N) /\ (5 + N + k) - (5 + N) = k
      BY <1>1
    <3> QED
      BY <1>14, <3>1
  <2>2. MetaSize - 1 = 5 + N + 1 /\ MetaSize = 5 + N + 2
    BY <1>1, <1>12
  <2> QED
    BY <2>1, <2>2
<1> QED
  BY <1>7, <1>10, <1>12, <1>14, <1>15, <1>16, <1>17

\* What the reader finds in a file that is laid out.
LEMMA LaidReads ==
    ASSUME Types, Tables, NEW f, Laid(f)
    PROVE  /\ MetaOff(f) = metaOff
           /\ BlockStartOff(f) = blocksOffStart
           /\ \A a \in Attr : StoredDistinct(f, a) = distinct[a] /\ StoredCount(f)[a] = Count(a)
           /\ BlocksBase(f) = TablesAt
           /\ Len(f) \in Nat /\ TablesAt \in Nat /\ PgmAt \in Nat
<1>1. N \in Nat \ {0} /\ Attr = 1..N /\ N = Len(Schema) /\ MetaSize = 5 + N + 2
  BY SchemaFacts DEF N, MetaSize
<1>2. metaOff \in Nat /\ blocksOffStart \in Seq(Int) /\ Len(f) \in Nat
  BY DEF Types, Laid
<1>3. MetaOff(f) = metaOff
  <2>1. f[2].data = <<metaOff>>
    BY ItemType DEF Laid, BlocksIn
  <2> QED
    BY <2>1 DEF MetaOff, Data, MetaOffPos
<1>4. \A i \in 1..MetaSize : i # 3 => Data(f, metaOff + i - 1) = Meta[i].data
  BY <1>1, <1>2 DEF Laid, Data
<1>5. BlockStartOff(f) = blocksOffStart
  <2>1. MetaSize - 1 \in 1..MetaSize /\ MetaSize - 1 # 3
        /\ metaOff + (MetaSize - 1) - 1 = metaOff + MetaSize - 2
    BY <1>1, <1>2
  <2>2. Data(f, metaOff + MetaSize - 2) = Deltas(blocksOffStart)
    BY <1>4, <2>1, MetaFacts
  <2> QED
    BY <1>2, <1>3, <2>2, DeltasInverted DEF BlockStartOff
<1>6. ASSUME NEW a \in Attr
      PROVE  StoredDistinct(f, a) = distinct[a] /\ StoredCount(f)[a] = Count(a)
  <2>1. /\ 5 + a \in 1..MetaSize /\ 5 + a # 3 /\ metaOff + (5 + a) - 1 = metaOff + 4 + a
        /\ MetaSize \in 1..MetaSize /\ MetaSize # 3 /\ metaOff + MetaSize - 1 = metaOff + MetaSize - 1
    BY <1>1, <1>2
  <2>2. Data(f, metaOff + 4 + a) = <<a, distinct[a]>>
    BY <1>4, <2>1, MetaFacts
  <2>3. Data(f, metaOff + MetaSize - 1)[a] = Count(a)
    BY <1>4, <2>1, MetaFacts
  <2> QED
    BY <1>3, <2>2, <2>3 DEF StoredDistinct, StoredCount
<1>7. BlocksBase(f) = TablesAt
  BY <1>3 DEF BlocksBase, TablesAt, PgmAt, N
<1> QED
  BY <1>1, <1>2, <1>3, <1>5, <1>6, <1>7 DEF TablesAt, PgmAt

\* Of the files on the way, Setup takes exactly the one that is complete.
LEMMA LaidAccepts ==
    ASSUME Types, Tables, NEW f, Laid(f)
    PROVE  Accepts(f) <=> Len(f) = TablesAt + Total
<1> DEFINE size == Len(f) - TablesAt
<1>1. N \in Nat \ {0} /\ Attr = 1..N /\ N = Len(Schema) /\ MetaSize = 5 + N + 2
  BY SchemaFacts DEF N, MetaSize
<1>2. /\ metaOff \in Nat /\ Len(f) \in Nat /\ metaOff = 2 + Total
      /\ PgmAt <= Len(f) /\ Len(f) <= TablesAt + Total
  BY DEF Types, Laid, Tables
<1>3. /\ Total \in Nat
      /\ \A a \in Attr : blocksOffStart[a] \in Nat /\ blocksOffStart[a] + Count(a) <= Total
      /\ \A a \in Attr : Count(a) \in Nat
  BY TotalType, CountType DEF Tables
<1>4. HeaderRead(f)
  BY <1>1, <1>2, <1>3, LaidReads DEF HeaderRead, Has, MetaOffPos, HeaderSize, PgmAt
<1>5. MetaRead(f) <=> TablesAt <= Len(f)
  <2>1. Has(f, MetaOff(f) + MetaSize - 1)
    BY <1>1, <1>2, LaidReads DEF Has, PgmAt
  <2>2. ASSUME NEW a \in Attr
        PROVE  Has(f, MetaOff(f) + MetaSize + 2 * a - 1) <=> PgmAt + 2 * a <= Len(f)
    <3>1. a \in Nat /\ MetaOff(f) = metaOff /\ MetaSize \in Nat
      BY <1>1, LaidReads
    <3> QED
      BY <1>2, <3>1 DEF Has, PgmAt
  <2>3. (\A a \in Attr : PgmAt + 2 * a <= Len(f)) <=> TablesAt <= Len(f)
    <3>1. PgmAt \in Nat /\ TablesAt = PgmAt + 2 * N
      BY <1>1, LaidReads DEF TablesAt
    <3>2. N \in Attr /\ \A a \in Attr : a \in Nat /\ a <= N
      BY <1>1
    <3> QED
      BY <1>1, <1>2, <3>1, <3>2
  <2> QED
    BY <2>1, <2>2, <2>3 DEF MetaRead
<1>6. TablesInside(f) <=> \A a \in Attr : blocksOffStart[a] <= size /\ Count(a) <= size - blocksOffStart[a]
  <2>1. ASSUME NEW a \in Attr
        PROVE  blocksOffStart[a] = IF a = 1 THEN 0 ELSE blocksOffStart[a - 1] + Count(a - 1)
    BY <1>1 DEF Tables, StartsOK
  <2>2. ASSUME NEW a \in Attr
        PROVE  /\ BlockStartOff(f)[a] = blocksOffStart[a] /\ StoredCount(f)[a] = Count(a)
               /\ Count(a) = BlocksFor(StoredDistinct(f, a))
    BY LaidReads DEF Count
  <2>3. \A a \in Attr : a # 1 => a - 1 \in Attr
    BY <1>1
  <2>4. Len(f) - BlocksBase(f) = size
    BY LaidReads
  <2>5. ASSUME NEW a \in Attr
        PROVE  BlockStartOff(f)[a] = IF a = 1 THEN 0 ELSE BlockStartOff(f)[a - 1] + StoredCount(f)[a - 1]
    BY <2>1, <2>2, <2>3
  <2> HIDE DEF size
  <2> QED
    BY <2>2, <2>4, <2>5 DEF TablesInside
<1>7. (\A a \in Attr : blocksOffStart[a] <= size /\ Count(a) <= size - blocksOffStart[a]) <=> Total <= size
  <2>1. size \in Int
    BY <1>2, LaidReads
  <2>2. N \in Attr /\ Total = blocksOffStart[N] + Count(N)
    BY <1>1 DEF Total
  <2> HIDE DEF size
  <2> QED
    BY <1>3, <2>1, <2>2
<1> QED
  BY <1>2, <1>3, <1>4, <1>5, <1>6, <1>7, LaidReads DEF Accepts

\* A file without the offset of its meta, or without all of its meta, is refused.
LEMMA NoMeta ==
    ASSUME NEW f, Len(f) \in Nat, Len(f) < 2 \/ NoOffset(f)
    PROVE  ~Accepts(f)
<1>1. CASE Len(f) < 2
  BY <1>1 DEF Accepts, HeaderRead, Has, MetaOffPos
<1>2. CASE NoOffset(f)
  <2>1. MetaOff(f) = 0
    BY <1>2, ItemType DEF NoOffset, MetaOff, Data, MetaOffPos
  <2> QED
    BY <2>1 DEF Accepts, HeaderRead, HeaderSize
<1> QED
  BY <1>1, <1>2

LEMMA ShortMeta ==
    ASSUME Types, NEW f, Len(f) \in Nat, f[2] = Item("metaOff", <<metaOff>>), Len(f) <= PgmAt
    PROVE  ~Accepts(f)
<1>1. MetaOff(f) = metaOff
  BY ItemType DEF MetaOff, Data, MetaOffPos
<1>2. N \in Attr /\ N \in Nat \ {0} /\ metaOff \in Nat /\ MetaSize \in Nat
  BY SchemaFacts DEF N, Types, MetaSize
<1>3. ~Has(f, MetaOff(f) + MetaSize + 2 * N - 1)
  BY <1>1, <1>2 DEF Has, PgmAt
<1> QED
  BY <1>2, <1>3 DEF Accepts, MetaRead

\* Every query finds in a complete file what it looks for.
LEMMA LaidIsWhole ==
    ASSUME Types, Tables, Laid(dst.file), Accepts(dst.file)
    PROVE  AcceptedIsWhole
<1> DEFINE f == dst.file
<1>1. N \in Nat \ {0} /\ Attr = 1..N /\ N = Len(Schema) /\ MetaSize = 5 + N + 2
  BY SchemaFacts DEF N, MetaSize
<1>2. /\ metaOff \in Nat /\ Len(f) \in Nat /\ metaOff = 2 + Total /\ Len(f) = TablesAt + Total
      /\ f \in Seq(Items)
  <2>1. Len(f) = TablesAt + Total
    BY LaidAccepts
  <2>2. f \in Seq(Items)
    BY DEF Laid
  <2> QED
    BY <2>1, <2>2 DEF Types, Tables
<1>3. /\ Total \in Nat
      /\ \A a \in Attr : blocksOffStart[a] \in Nat /\ blocksOffStart[a] + Count(a) <= Total
      /\ \A a \in Attr : Count(a) \in Nat
  BY TotalType, CountType DEF Tables
<1>4. PgmAt \in Nat /\ TablesAt = PgmAt + 2 * N /\ PgmAt = metaOff + MetaSize
  BY <1>1, <1>2 DEF PgmAt, TablesAt
<1>5. ASSUME NEW a \in Attr
      PROVE  f[MetaOff(f) + MetaSize + 2 * a] = Item("pgm", <<a>>)
  <2>1. 2 * a \in 1..2 * N /\ PgmAt + 2 * a <= Len(f)
    BY <1>1, <1>2, <1>3, <1>4
  <2>2. f[PgmAt + 2 * a] = tmpPgm.file[2 * a]
    BY <2>1 DEF Laid
  <2> QED
    BY <2>2, LaidReads DEF Tables, PgmAt
<1>6. ASSUME NEW a \in Attr, NEW b \in 1..Count(a)
      PROVE  LET entry == TablesAt + blocksOffStart[a] + b
             IN  /\ entry \in DOMAIN f /\ f[entry].kind = "offset"
                 /\ Has(f, f[entry].data[1])
                 /\ f[f[entry].data[1] + 1] = Item("block", <<a, b>>)
  <2> DEFINE i == blocksOffStart[a] + b
  <2>1. i \in 1..Total /\ TablesAt + i <= Len(f) /\ TablesAt + i = TablesAt + blocksOffStart[a] + b
        /\ TablesAt + i \in 1..Len(f)
    <3>1. /\ b \in Nat \ {0} /\ b <= Count(a) /\ Count(a) \in Nat
          /\ blocksOffStart[a] \in Nat /\ blocksOffStart[a] + Count(a) <= Total
      BY <1>3
    <3>2. TablesAt \in Nat
      BY <1>1, <1>4
    <3> HIDE DEF f
    <3> QED
      BY <1>2, <1>3, <3>1, <3>2
  <2>2. f[TablesAt + i] = Item("offset", <<1 + blocksOffStart[a] + b>>)
    <3>1. f[TablesAt + i] = tmpBlocks.file[i]
      <4> HIDE DEF i
      <4> QED BY <2>1 DEF Laid
    <3> QED
      BY <3>1 DEF Tables, OffsetIn
  <2>3. f[TablesAt + i].kind = "offset" /\ f[TablesAt + i].data[1] = 1 + blocksOffStart[a] + b
    BY <2>2, ItemType
  <2>4. Has(f, 1 + blocksOffStart[a] + b)
    <3>1. /\ b \in Nat \ {0} /\ b <= Count(a) /\ Count(a) \in Nat
          /\ blocksOffStart[a] \in Nat /\ blocksOffStart[a] + Count(a) <= Total
      BY <1>3
    <3>2. TablesAt = 2 + Total + (5 + N + 2) + 2 * N
      BY <1>1, <1>2, <1>4
    <3> HIDE DEF f
    <3> QED
      BY <1>1, <1>2, <1>3, <3>1, <3>2 DEF Has
  <2>5. f[2 + blocksOffStart[a] + b] = Item("block", <<a, b>>)
    BY DEF Laid, BlocksIn, BlockIn
  <2>6. (1 + blocksOffStart[a] + b) + 1 = 2 + blocksOffStart[a] + b
    BY <1>3
  <2>7. TablesAt + i \in DOMAIN f
    BY <1>2, <2>1
  <2> QED
    BY <2>1, <2>3, <2>4, <2>5, <2>6, <2>7
<1> QED
  BY <1>5, <1>6, LaidReads DEF AcceptedIsWhole, Count
-----------------------------------------------------------------------------
(* The steps of the builder up to the meta. *)

LEMMA ContentType ==
    ASSUME NEW w, WriterOK(w)
    PROVE  /\ w.file \in Seq(Items) /\ w.used \in Seq(Items) /\ Content(w) \in Seq(Items)
           /\ Len(Content(w)) = Len(w.file) + Len(w.used)
           /\ Len(w.file) \in Nat /\ Len(w.used) \in Nat
           /\ \A i \in 1..Len(w.file) : Content(w)[i] = w.file[i]
<1>1. w.file \in Seq(Items) /\ w.used \in Seq(Items)
  BY DEF WriterOK, Writers
<1>2. Len(w.file) \in Nat /\ Len(w.used) \in Nat
  BY <1>1, LenProperties
<1>3. ASSUME NEW f \in Seq(Items), NEW u \in Seq(Items), Content(w) = f \o u
      PROVE  /\ Content(w) \in Seq(Items) /\ Len(Content(w)) = Len(f) + Len(u)
             /\ \A i \in 1..Len(f) : Content(w)[i] = f[i]
  BY <1>3, Join
<1> QED
  BY <1>1, <1>2, <1>3 DEF Content

\* The position of the writer, and what a write adds to what it holds.
LEMMA Appended ==
    ASSUME NEW w, WriterOK(w), AtEnd(w), NEW item \in Items
    PROVE  /\ WriterOK(Write(w, item)) /\ AtEnd(Write(w, item))
           /\ GetPos(w) = Len(Content(w)) /\ Len(Content(w)) \in Nat
           /\ Len(Content(Write(w, item))) = Len(Content(w)) + 1
           /\ Content(Write(w, item))[Len(Content(w)) + 1] = item
           /\ \A i \in 1..Len(Content(w)) : Content(Write(w, item))[i] = Content(w)[i]
<1>1. Content(w) \in Seq(Items) /\ Len(Content(w)) = Len(w.file) + Len(w.used)
  BY ContentType
<1>2. Len(Content(w)) \in Nat
  BY <1>1, LenProperties
<1>3. Content(Write(w, item)) = Append(Content(w), item)
  BY WriteAtEnd
<1>4. GetPos(w) = Len(Content(w))
  BY <1>1 DEF GetPos, AtEnd
<1>5. ASSUME NEW c \in Seq(Items), NEW d, d = Append(c, item)
      PROVE  /\ Len(d) = Len(c) + 1 /\ d[Len(c) + 1] = item
             /\ \A i \in 1..Len(c) : d[i] = c[i]
  BY <1>5, AppendProperties
<1>6. WriterOK(Write(w, item)) /\ AtEnd(Write(w, item))
  BY WriteAtEnd
<1> QED
  BY <1>1, <1>2, <1>3, <1>4, <1>5, <1>6

LEMMA EmptyWriter ==
    /\ WriterOK(Writer(<< >>, TRUE)) /\ AtEnd(Writer(<< >>, TRUE))
    /\ Len(Content(Writer(<< >>, TRUE))) = 0
<1> DEFINE w == Writer(<< >>, TRUE)
<1>1. w = [file |-> << >>, used |-> << >>, at |-> 0, append |-> TRUE]
  BY DEF Writer
<1>2. << >> \in Seq(Items) /\ Len(<< >>) = 0 /\ << >> \o << >> = << >>
  BY EmptySeq, ConcatEmptySeq
<1>3. w \in Writers
  BY <1>1, <1>2, WriterIs
<1>4. w.file = << >> /\ w.used = << >> /\ w.at = 0
  BY DEF Writer
<1>5. w.at = Len(w.file) /\ Len(w.used) <= BufferSize
  <2>1. 0 <= BufferSize
    BY SchemaFacts
  <2> QED
    BY <1>2, <1>4, <2>1, Zenon
<1>6. Len(w.file \o w.used) = 0
  BY <1>2, <1>4
<1> HIDE DEF w
<1>7. WriterOK(w) /\ AtEnd(w) /\ Len(Content(w)) = 0
  BY <1>3, <1>5, <1>6 DEF WriterOK, AtEnd, Content
<1> QED
  BY <1>7 DEF w

LEMMA Initially == Init => IInv
<1> SUFFICES ASSUME Init PROVE IInv
  OBVIOUS
<1>1. Types
  <2>1. /\ phase \in Idle /\ attr = 1 /\ block = 1 /\ metaOff = 0 /\ done = 0
        /\ enabled \subseteq Attr /\ updated \in BOOLEAN /\ distinct \in [Attr -> Nat]
    BY DEF Init, Idle
  <2>2. builds \in 0..MaxBuilds
    BY FileAssumption DEF Init
  <2>3. blocksOffStart \in Seq(Nat)
    BY EmptySeq DEF Init
  <2>4. WriterOK(dst) /\ WriterOK(tmpBlocks) /\ WriterOK(tmpPgm)
    BY EmptyWriter DEF Init
  <2>5. attr \in 1..N + 1
    BY <2>1, SchemaFacts DEF N
  <2> QED
    BY <2>1, <2>2, <2>3, <2>4, <2>5 DEF Types
<1>2. ~Accepts(dst.file)
  <2>1. dst.file = << >>
    BY DEF Init, Writer
  <2> QED
    BY <2>1, NoMeta DEF NoOffset
<1> QED
  BY <1>1, <1>2 DEF Init, IInv, InBlocks, InClosed, InPatch, InMeta, InCopy, AtRest, IsBuilt, IsServing

LEMMA StartStep == IInv /\ Start => IInv'
<1> SUFFICES ASSUME IInv, Start PROVE IInv'
  OBVIOUS
<1>1. N \in Nat \ {0} /\ Attr = 1..N /\ N = Len(Schema)
  BY SchemaFacts DEF N
<1>2. distinct' \in [Attr -> Nat]
  BY FileAssumption DEF Start, Attr
<1>3. /\ WriterOK(dst') /\ AtEnd(dst') /\ Len(Content(dst')) = 2
      /\ Content(dst')[2] = Item("metaOff", <<0>>)
  <2> DEFINE w == Writer(<< >>, TRUE)
             v == Item("version", << >>)
             m == Item("metaOff", <<0>>)
  <2>1. v \in Items /\ m \in Items
    BY ItemsWritten
  <2>4. WriterOK(w) /\ AtEnd(w) /\ Len(Content(w)) = 0
    BY EmptyWriter
  <2> HIDE DEF w, v, m
  <2>2. WriterOK(Write(w, v)) /\ AtEnd(Write(w, v)) /\ Len(Content(Write(w, v))) = 1
    <3>1. /\ WriterOK(Write(w, v)) /\ AtEnd(Write(w, v))
          /\ Len(Content(Write(w, v))) = Len(Content(w)) + 1
      BY <2>1, <2>4, Appended, Zenon
    <3> QED
      BY <2>4, <3>1
  <2>3. dst' = Write(Write(w, v), m)
    BY DEF Start, w, v, m
  <2> QED
    <3> DEFINE x == Write(w, v)
    <3> HIDE DEF x
    <3>1. WriterOK(x) /\ AtEnd(x) /\ Len(Content(x)) = 1
      BY <2>2 DEF x
    <3>2. /\ WriterOK(Write(x, m)) /\ AtEnd(Write(x, m))
          /\ Len(Content(Write(x, m))) = Len(Content(x)) + 1
          /\ Content(Write(x, m))[Len(Content(x)) + 1] = m
      BY <2>1, <3>1, Appended, Zenon
    <3>3. dst' = Write(x, m)
      BY <2>3 DEF x
    <3> QED
      BY <3>1, <3>2, <3>3 DEF m
<1>4. /\ tmpBlocks' = Writer(<< >>, TRUE) /\ tmpPgm' = Writer(<< >>, TRUE)
      /\ attr' = 1 /\ block' = 1 /\ blocksOffStart' = <<0>> /\ metaOff' = 0 /\ done' = 0
      /\ phase' = "blocks" /\ builds' \in 0..MaxBuilds /\ enabled' = enabled /\ updated' = updated
  BY FileAssumption DEF Start, index, IInv, Types
<1>5. Types'
  <2>1. WriterOK(tmpBlocks') /\ WriterOK(tmpPgm')
    BY <1>4, EmptyWriter
  <2>2. blocksOffStart' \in Seq(Nat) /\ phase' \in Building /\ attr' \in 1..N + 1
    BY <1>1, <1>4 DEF Building
  <2> QED
    <3>1. block' \in Nat \ {0} /\ metaOff' \in Nat /\ done' \in Nat
      BY <1>4
    <3>2. enabled' \subseteq Attr /\ updated' \in BOOLEAN
      BY <1>4 DEF IInv, Types
    <3> QED
      BY <1>2, <1>3, <1>4, <2>1, <2>2, <3>1, <3>2 DEF Types
<1>6. InBlocks'
  <2>1. 1 \in Attr /\ \A a \in Attr : a \in Nat \ {0}
    BY <1>1
  <2>2. Count(1)' \in Nat
    BY <1>2, <2>1, BlocksForType DEF Count
  <2>3. StartsOK(IF attr \in Attr THEN attr ELSE N)'
    BY <1>4, <2>1 DEF StartsOK
  <2>4. Written' = 0
    BY <1>4, <2>1 DEF Written
  <2>5. \A a \in Attr : \A b : ~Out(a, b)'
    <3>1. ASSUME NEW a \in Attr, NEW b, Out(a, b)' PROVE FALSE
      <4>1. b \in 1..Count(a)' /\ (a < 1 \/ (a = 1 /\ b < 1))
        BY <1>4, <3>1 DEF Out
      <4>2. Count(a)' \in Nat
        BY <1>2, BlocksForType DEF Count
      <4> QED
        BY <2>1, <4>1, <4>2
    <3> QED
      BY <3>1
  <2> QED
    <3>1. AtEnd(tmpBlocks') /\ AtEnd(tmpPgm') /\ Len(Content(tmpBlocks')) = 0 /\ Len(Content(tmpPgm')) = 0
      BY <1>4, EmptyWriter
    <3>2. block' <= Count(attr)' + 1
      BY <1>4, <2>2
    <3>3. \A a \in 1..attr' - 1 : FALSE
      BY <1>4
    <3> QED
      <4>1. /\ Len(Content(tmpBlocks'))= Written' /\ Len(Content(dst')) = 2 + Written'
            /\ Len(Content(tmpPgm')) = 2 * (attr' - 1)
        <5>1. 0 = Written' /\ 2 = 2 + Written' /\ 0 = 2 * (attr' - 1)
          BY <1>4, <2>4
        <5> QED
          BY <1>3, <3>1, <5>1, Zenon
      <4> QED
        BY <1>3, <1>4, <2>3, <2>5, <3>1, <3>2, <3>3, <4>1 DEF InBlocks
<1> QED
  BY <1>4, <1>5, <1>6
     DEF IInv, InClosed, InPatch, InMeta, InCopy, AtRest, IsBuilt, IsServing, Idle

LEMMA WriteBlockStep == IInv /\ WriteBlock => IInv'
<1> SUFFICES ASSUME IInv, WriteBlock PROVE IInv'
  OBVIOUS
<1> DEFINE offset == Item("offset", <<GetPos(dst)>>)
           data == Item("block", <<attr, block>>)
<1>1. N \in Nat \ {0} /\ Attr = 1..N /\ N = Len(Schema)
  BY SchemaFacts DEF N
<1>2. /\ phase = "blocks" /\ attr \in Attr /\ block <= Count(attr) /\ block \in Nat \ {0}
      /\ tmpBlocks' = Write(tmpBlocks, offset) /\ dst' = Write(dst, data)
      /\ block' = block + 1
      /\ UNCHANGED <<phase, builds, distinct, tmpPgm, attr, blocksOffStart, metaOff, done, enabled, updated>>
  BY DEF WriteBlock, index, Count, IInv, Types
<1>3. /\ AtEnd(dst) /\ AtEnd(tmpBlocks) /\ WriterOK(dst) /\ WriterOK(tmpBlocks)
      /\ Len(Content(tmpBlocks)) = Written /\ Len(Content(dst)) = 2 + Written
      /\ StartsOK(attr)
  BY <1>2 DEF IInv, InBlocks, Types
<1>4. \A a \in 1..attr : blocksOffStart[a] \in Nat
  <2>1. blocksOffStart \in Seq(Nat) /\ Len(blocksOffStart) = attr
    BY <1>3 DEF IInv, Types, StartsOK
  <2> QED
    BY <2>1, ElementOfSeq
<1>5. \A a \in Attr : Count(a) \in Nat
  BY CountType DEF IInv
<1>6. Written = blocksOffStart[attr] + block - 1 /\ Written' = Written + 1
  BY <1>1, <1>2, <1>4 DEF Written
<1>7. GetPos(dst) = 1 + blocksOffStart[attr] + block /\ Written \in Nat /\ GetPos(dst) \in Nat
  <2>1. data \in Items
    BY <1>1, <1>2, ItemsWritten
  <2>2. GetPos(dst) = 2 + Written
    BY <1>3, <2>1, Appended
  <2> QED
    BY <1>1, <1>2, <1>4, <1>6, <2>2
<1>8. data \in Items /\ offset \in Items
  BY <1>1, <1>2, <1>7, ItemsWritten
<1> HIDE DEF offset, data
<1>9. /\ WriterOK(dst') /\ AtEnd(dst') /\ Len(Content(dst')) = 2 + Written'
      /\ \A i \in 1..2 + Written : Content(dst')[i] = Content(dst)[i]
      /\ Content(dst')[2 + Written + 1] = data
  <2>1. /\ WriterOK(dst') /\ AtEnd(dst') /\ Len(Content(dst')) = Len(Content(dst)) + 1
        /\ \A i \in 1..Len(Content(dst)) : Content(dst')[i] = Content(dst)[i]
        /\ Content(dst')[Len(Content(dst)) + 1] = data
    BY <1>2, <1>3, <1>8, Appended, Zenon
  <2> QED
    BY <1>3, <1>6, <1>7, <2>1
<1>10. /\ WriterOK(tmpBlocks') /\ AtEnd(tmpBlocks') /\ Len(Content(tmpBlocks')) = Written'
       /\ \A i \in 1..Written : Content(tmpBlocks')[i] = Content(tmpBlocks)[i]
       /\ Content(tmpBlocks')[Written + 1] = offset
  <2>1. /\ WriterOK(tmpBlocks') /\ AtEnd(tmpBlocks')
        /\ Len(Content(tmpBlocks')) = Len(Content(tmpBlocks)) + 1
        /\ \A i \in 1..Len(Content(tmpBlocks)) : Content(tmpBlocks')[i] = Content(tmpBlocks)[i]
        /\ Content(tmpBlocks')[Len(Content(tmpBlocks)) + 1] = offset
    BY <1>2, <1>3, <1>8, Appended, Zenon
  <2> QED
    BY <1>3, <1>6, <1>7, <2>1
<1>11. Types'
  BY <1>2, <1>9, <1>10 DEF IInv, Types
<1>12. ASSUME NEW a \in Attr, NEW b \in 1..Count(a), Out(a, b)'
       PROVE  BlockIn(Content(dst), a, b)' /\ OffsetIn(Content(tmpBlocks), a, b)'
  <2>1. a \in Nat /\ b \in Nat \ {0} /\ (a < attr \/ (a = attr /\ b < block + 1)) /\ a \in 1..attr
    BY <1>1, <1>2, <1>5, <1>12 DEF Out
  <2>2. CASE a = attr /\ b = block
    <3>1. 2 + blocksOffStart[a] + b = 2 + Written + 1 /\ blocksOffStart[a] + b = Written + 1
      BY <1>2, <1>4, <1>6, <1>7, <2>1, <2>2
    <3>2. Content(dst')[2 + blocksOffStart[a] + b] = data /\ Content(tmpBlocks')[blocksOffStart[a] + b] = offset
      BY <1>9, <1>10, <3>1
    <3>3. data = Item("block", <<a, b>>) /\ offset = Item("offset", <<1 + blocksOffStart[a] + b>>)
      BY <1>7, <2>2 DEF offset, data
    <3> QED
      BY <1>2, <3>2, <3>3 DEF BlockIn, OffsetIn
  <2>3. CASE ~(a = attr /\ b = block)
    <3>1. Out(a, b)
      BY <1>2, <2>1, <2>3 DEF Out
    <3>2. BlockIn(Content(dst), a, b) /\ OffsetIn(Content(tmpBlocks), a, b)
      BY <1>2, <3>1 DEF IInv, InBlocks
    <3>3. blocksOffStart[a] + b \in 1..Written
      <4>1. CASE a = attr
        BY <1>2, <1>4, <1>6, <2>1, <2>3, <4>1
      <4>2. CASE a < attr
        <5>1. blocksOffStart[a] + Count(a) <= blocksOffStart[attr]
          BY <1>1, <1>2, <1>3, <2>1, <4>2 DEF StartsOK
        <5>2. b <= Count(a)
          BY <1>5
        <5>3. /\ blocksOffStart[a] \in Nat /\ blocksOffStart[attr] \in Nat /\ Count(a) \in Nat
              /\ block - 1 \in Nat
          BY <1>1, <1>2, <1>4, <1>5, <2>1
        <5> QED
          BY <1>6, <2>1, <5>1, <5>2, <5>3
      <4> QED
        BY <1>1, <1>2, <2>1, <4>1, <4>2
    <3>4. blocksOffStart[a] \in Nat /\ 2 + blocksOffStart[a] + b \in 1..2 + Written
      BY <1>4, <1>7, <2>1, <3>3
    <3> QED
      <4>1. Content(dst')[2 + blocksOffStart[a] + b] = Content(dst)[2 + blocksOffStart[a] + b]
        BY <1>9, <3>4
      <4>2. Content(tmpBlocks')[blocksOffStart[a] + b] = Content(tmpBlocks)[blocksOffStart[a] + b]
        BY <1>10, <3>3
      <4> QED
        BY <1>2, <3>2, <4>1, <4>2 DEF BlockIn, OffsetIn
  <2> QED
    BY <2>2, <2>3
<1>13. InBlocks'
  <2>1. StartsOK(IF attr \in Attr THEN attr ELSE N)'
    BY <1>2, <1>3 DEF StartsOK, Count
  <2>2. AtEnd(tmpPgm)' /\ Len(Content(tmpPgm))' = 2 * (attr' - 1)
        /\ \A a \in 1..attr' - 1 : Content(tmpPgm')[2 * a] = Item("pgm", <<a>>)
    BY <1>2 DEF IInv, InBlocks
  <2>3. block' <= Count(attr)' + 1
    BY <1>2, <1>5 DEF Count
  <2>4. Content(dst')[2] = Item("metaOff", <<0>>)
    BY <1>2, <1>7, <1>9 DEF IInv, InBlocks
  <2>5. \A a : Count(a)' = Count(a)
    BY <1>2 DEF Count
  <2> QED
    <3>1. \A a \in Attr : \A b \in 1..Count(a)' :
             Out(a, b)' => BlockIn(Content(dst), a, b)' /\ OffsetIn(Content(tmpBlocks), a, b)'
      BY <1>12, <2>5
    <3>2. done' = 0
      BY <1>2 DEF IInv, InBlocks
    <3> QED
      BY <1>2, <1>9, <1>10, <2>1, <2>2, <2>3, <2>4, <3>1, <3>2 DEF InBlocks
<1> QED
  BY <1>2, <1>11, <1>13
     DEF IInv, InClosed, InPatch, InMeta, InCopy, AtRest, IsBuilt, IsServing, Idle

LEMMA PosAtEnd ==
    ASSUME NEW w, WriterOK(w), AtEnd(w)
    PROVE  GetPos(w) = Len(Content(w)) /\ Len(Content(w)) \in Nat
BY ContentType, LenProperties DEF GetPos, AtEnd

LEMMA EndAttrStep == IInv /\ EndAttr => IInv'
<1> SUFFICES ASSUME IInv, EndAttr PROVE IInv'
  OBVIOUS
<1> DEFINE len == Item("pgmLen", <<1>>)
           pgm == Item("pgm", <<attr>>)
           mid == Write(tmpPgm, len)
<1>1. N \in Nat \ {0} /\ Attr = 1..N /\ N = Len(Schema)
  BY SchemaFacts DEF N
<1>2. /\ phase = "blocks" /\ attr \in Attr /\ block > Count(attr) /\ block \in Nat \ {0}
      /\ tmpPgm' = Write(mid, pgm) /\ attr' = attr + 1 /\ block' = 1
      /\ blocksOffStart' =
             IF attr' \in Attr THEN Append(blocksOffStart, GetPos(tmpBlocks)) ELSE blocksOffStart
      /\ UNCHANGED <<phase, builds, distinct, dst, tmpBlocks, metaOff, done, enabled, updated>>
  BY DEF EndAttr, index, Count, IInv, Types
<1>3. /\ AtEnd(dst) /\ AtEnd(tmpBlocks) /\ AtEnd(tmpPgm)
      /\ WriterOK(dst) /\ WriterOK(tmpBlocks) /\ WriterOK(tmpPgm)
      /\ Len(Content(tmpBlocks)) = Written /\ Len(Content(dst)) = 2 + Written
      /\ Len(Content(tmpPgm)) = 2 * (attr - 1)
      /\ StartsOK(attr) /\ block <= Count(attr) + 1
  BY <1>2 DEF IInv, InBlocks, Types
<1>4. blocksOffStart \in Seq(Nat) /\ Len(blocksOffStart) = attr
  BY <1>3 DEF IInv, Types, StartsOK
<1>5. \A a \in 1..attr : blocksOffStart[a] \in Nat
  BY <1>4, ElementOfSeq
<1>6. \A a \in Attr : Count(a) \in Nat
  BY CountType DEF IInv
<1>7. \A a : Count(a)' = Count(a)
  BY <1>2 DEF Count
<1>8. /\ Written = blocksOffStart[attr] + Count(attr) /\ Written \in Nat
      /\ GetPos(tmpBlocks) = Written /\ block = Count(attr) + 1
  <2>1. block = Count(attr) + 1
    BY <1>2, <1>3, <1>6
  <2>2. Written = blocksOffStart[attr] + Count(attr)
    BY <1>1, <1>2, <1>5, <1>6, <2>1 DEF Written
  <2>3. GetPos(tmpBlocks) = Written
    BY <1>3, PosAtEnd
  <2> QED
    BY <1>1, <1>2, <1>5, <1>6, <2>1, <2>2, <2>3
<1>9. /\ WriterOK(tmpPgm') /\ AtEnd(tmpPgm') /\ Len(Content(tmpPgm')) = 2 * (attr' - 1)
      /\ \A a \in 1..attr' - 1 : Content(tmpPgm')[2 * a] = Item("pgm", <<a>>)
  <2>1. len \in Items /\ pgm \in Items
    BY <1>1, <1>2, ItemsWritten
  <2> HIDE DEF len, pgm, mid
  <2>2. /\ WriterOK(mid) /\ AtEnd(mid) /\ Len(Content(mid)) = Len(Content(tmpPgm)) + 1
        /\ \A i \in 1..Len(Content(tmpPgm)) : Content(mid)[i] = Content(tmpPgm)[i]
    BY <1>3, <2>1, Appended, Zenon DEF mid
  <2>3. /\ WriterOK(tmpPgm') /\ AtEnd(tmpPgm') /\ Len(Content(tmpPgm')) = Len(Content(mid)) + 1
        /\ Content(tmpPgm')[Len(Content(mid)) + 1] = pgm
        /\ \A i \in 1..Len(Content(mid)) : Content(tmpPgm')[i] = Content(mid)[i]
    BY <1>2, <2>1, <2>2, Appended, Zenon
  <2>4. Len(Content(mid)) = 2 * (attr - 1) + 1 /\ attr \in Nat \ {0}
    BY <1>1, <1>2, <1>3, <2>2
  <2>5. ASSUME NEW a \in 1..attr' - 1
        PROVE  Content(tmpPgm')[2 * a] = Item("pgm", <<a>>)
    <3>1. CASE a = attr
      <4>1. 2 * a = Len(Content(mid)) + 1
        BY <2>4, <3>1
      <4> QED
        BY <2>3, <3>1, <4>1 DEF pgm
    <3>2. CASE a # attr
      <4>1. a \in 1..attr - 1
        BY <1>2, <2>4, <3>2
      <4>2. 2 * a \in 1..Len(Content(tmpPgm)) /\ 2 * a \in 1..Len(Content(mid))
        BY <1>3, <2>4, <4>1
      <4>3. Content(tmpPgm)[2 * a] = Item("pgm", <<a>>)
        BY <1>2, <4>1 DEF IInv, InBlocks
      <4> QED
        BY <2>2, <2>3, <4>2, <4>3
    <3> QED
      BY <3>1, <3>2
  <2>6. Len(Content(tmpPgm')) = 2 * (attr' - 1)
    BY <1>2, <2>3, <2>4
  <2> QED
    BY <2>3, <2>5, <2>6
<1>10. \A a \in 1..attr : blocksOffStart'[a] = blocksOffStart[a]
  BY <1>2, <1>4, <1>8
<1>11. /\ StartsOK(IF attr \in Attr THEN attr ELSE N)' /\ Written' = Written
       /\ blocksOffStart' \in Seq(Nat)
  <2>1. CASE attr' \in Attr
    <3>1. /\ blocksOffStart' \in Seq(Nat) /\ Len(blocksOffStart') = attr'
          /\ blocksOffStart'[attr'] = Written
      BY <1>2, <1>4, <1>8, <2>1
    <3>2. ASSUME NEW a \in 1..attr', a # 1
          PROVE  blocksOffStart'[a] = blocksOffStart'[a - 1] + Count(a - 1)'
      <4>1. CASE a = attr'
        BY <1>1, <1>2, <1>7, <1>8, <1>10, <3>1, <4>1
      <4>2. CASE a # attr'
        <5>1. a \in 1..attr /\ a - 1 \in 1..attr
          BY <1>1, <1>2, <3>2, <4>2
        <5>2. blocksOffStart[a] = blocksOffStart[a - 1] + Count(a - 1)
          BY <1>3, <3>2, <5>1 DEF StartsOK
        <5> QED
          BY <1>7, <1>10, <5>1, <5>2
      <4> QED
        BY <4>1, <4>2
    <3>3. ASSUME NEW a \in 1..attr', NEW b \in 1..attr', a < b
          PROVE  blocksOffStart'[a] + Count(a)' <= blocksOffStart'[b]
      <4>1. a \in 1..attr /\ Count(a) \in Nat /\ blocksOffStart[a] \in Nat
        BY <1>1, <1>2, <1>5, <1>6, <3>3
      <4>2. CASE b = attr'
        <5>1. a # attr => blocksOffStart[a] + Count(a) <= blocksOffStart[attr]
          BY <1>1, <1>2, <1>3, <4>1 DEF StartsOK
        <5>2. blocksOffStart[attr] \in Nat /\ Count(attr) \in Nat
          BY <1>1, <1>2, <1>5, <1>6
        <5>3. blocksOffStart[a] + Count(a) <= Written
          BY <1>8, <4>1, <5>1, <5>2
        <5> QED
          BY <1>7, <1>10, <3>1, <4>1, <4>2, <5>3
      <4>3. CASE b # attr'
        <5>1. b \in 1..attr
          BY <1>1, <1>2, <4>3
        <5>2. blocksOffStart[a] + Count(a) <= blocksOffStart[b]
          BY <1>3, <3>3, <4>1, <5>1 DEF StartsOK
        <5> QED
          BY <1>7, <1>10, <4>1, <5>1, <5>2
      <4> QED
        BY <4>2, <4>3
    <3>4. blocksOffStart'[1] = 0
      BY <1>1, <1>2, <1>3, <1>10 DEF StartsOK
    <3>5. StartsOK(attr)'
      BY <3>1, <3>2, <3>3, <3>4 DEF StartsOK
    <3>6. Written' = Written
      BY <1>2, <1>8, <2>1, <3>1 DEF Written
    <3> QED
      BY <2>1, <3>1, <3>5, <3>6
  <2>2. CASE attr' \notin Attr
    <3>1. attr = N /\ blocksOffStart' = blocksOffStart
      BY <1>1, <1>2, <2>2
    <3>2. StartsOK(N)'
      BY <1>3, <1>7, <3>1 DEF StartsOK
    <3>3. Written' = Written
      BY <1>7, <1>8, <2>2, <3>1 DEF Written, Total
    <3> QED
      BY <1>4, <2>2, <3>1, <3>2, <3>3
  <2> QED
    BY <2>1, <2>2
<1>12. Types'
  <2>1. attr' \in 1..N + 1 /\ block' \in Nat \ {0}
    BY <1>1, <1>2
  <2> QED
    BY <1>2, <1>9, <1>11, <2>1 DEF IInv, Types
<1>13. ASSUME NEW a \in Attr, NEW b \in 1..Count(a)', Out(a, b)'
       PROVE  BlockIn(Content(dst), a, b)' /\ OffsetIn(Content(tmpBlocks), a, b)'
  <2>1. b \in 1..Count(a) /\ a \in Nat /\ b \in Nat \ {0} /\ (a < attr + 1 \/ (a = attr + 1 /\ b < 1))
    BY <1>1, <1>2, <1>6, <1>7, <1>13 DEF Out
  <2>2. Out(a, b) /\ a \in 1..attr
    BY <1>1, <1>2, <1>6, <1>8, <2>1 DEF Out
  <2>3. BlockIn(Content(dst), a, b) /\ OffsetIn(Content(tmpBlocks), a, b)
    BY <1>2, <2>1, <2>2 DEF IInv, InBlocks
  <2> QED
    BY <1>2, <1>10, <2>2, <2>3 DEF BlockIn, OffsetIn
<1>14. InBlocks'
  <2>1. attr' \in Attr => block' <= Count(attr)' + 1
    BY <1>2, <1>6, <1>7
  <2>2. Content(dst')[2] = Item("metaOff", <<0>>)
    BY <1>2 DEF IInv, InBlocks
  <2>3. AtEnd(dst)' /\ AtEnd(tmpBlocks)' /\ Len(Content(tmpBlocks))' = Written' /\ Len(Content(dst))' = 2 + Written'
    BY <1>2, <1>3, <1>11
  <2>4. done' = 0
    BY <1>2 DEF IInv, InBlocks
  <2> QED
    BY <1>9, <1>11, <1>13, <2>1, <2>2, <2>3, <2>4 DEF InBlocks
<1> QED
  BY <1>2, <1>12, <1>14
     DEF IInv, InClosed, InPatch, InMeta, InCopy, AtRest, IsBuilt, IsServing, Idle
-----------------------------------------------------------------------------
(* The steps of the builder from the meta on. *)

\* A file opened to be overwritten: an item is written at a position of it.
Overwriting(f, pos, item) ==
    Write(Seek(Writer(f, FALSE), pos), item)
        = [file |-> f, used |-> <<item>>, at |-> pos, append |-> FALSE]

LEMMA NothingOverwritten ==
    ASSUME NEW f \in Seq(Items), NEW pos \in Nat, pos <= Len(f)
    PROVE  Overwritten(f, pos, << >>) = f
<1>1. Len(<< >>) = 0 /\ << >> \in Seq(Items) /\ Len(f) \in Nat
  BY EmptySeq, LenProperties
<1>2. SubSeq(f, 1, pos) \in Seq(Items)
  BY <1>1
<1>3. SubSeq(f, 1, pos) \o << >> = SubSeq(f, 1, pos)
  BY <1>2, ConcatEmptySeq
<1>4. SubSeq(f, 1, pos) \o SubSeq(f, pos + 1, Len(f)) = SubSeq(f, 1, Len(f))
  <2>1. 1 \in 1..Len(f) + 1 /\ pos \in 1 - 1..Len(f) /\ Len(f) \in pos..Len(f)
    BY <1>1
  <2> QED
    BY <2>1, ConcatAdjacentSubSeq
<1>5. SubSeq(f, 1, Len(f)) = f
  BY SubSeqFull
<1>6. pos + Len(<< >>) + 1 = pos + 1
  BY <1>1
<1> QED
  BY <1>3, <1>4, <1>5, <1>6 DEF Overwritten

LEMMA SeekThenWrite ==
    ASSUME NEW f \in Seq(Items), NEW pos \in Nat, NEW item \in Items
    PROVE  Overwriting(f, pos, item)
<1>1. Overwritten(f, 0, << >>) = f
  BY NothingOverwritten, LenProperties
<1>2. Flush(Writer(f, FALSE)) = [file |-> f, used |-> << >>, at |-> 0 + Len(<< >>), append |-> FALSE]
  <2> DEFINE w == Writer(f, FALSE)
  <2>1. w = [file |-> f, used |-> << >>, at |-> 0, append |-> FALSE]
    BY DEF Writer
  <2>2. w.file = f /\ w.used = << >> /\ w.at = 0 /\ ~w.append
    BY DEF Writer
  <2> HIDE DEF w
  <2>3. Flush(w) = [w EXCEPT !.file = f, !.at = 0 + Len(<< >>), !.used = << >>]
    BY <1>1, <2>2 DEF Flush, GetPos
  <2>4. ASSUME NEW ap, w = [file |-> f, used |-> << >>, at |-> 0, append |-> ap]
        PROVE  Flush(w) = [file |-> f, used |-> << >>, at |-> 0 + Len(<< >>), append |-> ap]
    BY <2>3, <2>4
  <2> QED
    BY <2>1, <2>4 DEF w
<1>3. Seek(Writer(f, FALSE), pos) = [file |-> f, used |-> << >>, at |-> pos, append |-> FALSE]
  <2>1. ASSUME NEW w, NEW ap, w = [file |-> f, used |-> << >>, at |-> 0 + Len(<< >>), append |-> ap]
        PROVE  [w EXCEPT !.at = pos] = [file |-> f, used |-> << >>, at |-> pos, append |-> ap]
    BY <2>1
  <2> QED
    BY <1>2, <2>1 DEF Seek
<1>4. Len(<< >>) # BufferSize /\ Append(<< >>, item) = <<item>>
  BY SchemaFacts
<1>5. ASSUME NEW w, w = [file |-> f, used |-> << >>, at |-> pos, append |-> FALSE]
      PROVE  Write(w, item) = [file |-> f, used |-> <<item>>, at |-> pos, append |-> FALSE]
  <2>1. w.used = << >>
    BY <1>5
  <2>2. Write(w, item) = [w EXCEPT !.used = <<item>>]
    BY <1>4, <2>1 DEF Write
  <2> QED
    BY <1>5, <2>2
<1> QED
  BY <1>3, <1>5 DEF Overwriting

LEMMA OneHeld ==
    ASSUME NEW f \in Seq(Items), NEW pos \in Nat, NEW item \in Items
    PROVE  WriterOK([file |-> f, used |-> <<item>>, at |-> pos, append |-> FALSE])
<1>1. <<item>> \in Seq(Items) /\ Len(<<item>>) = 1
  OBVIOUS
<1>2. [file |-> f, used |-> <<item>>, at |-> pos, append |-> FALSE] \in Writers
  BY <1>1, WriterIs
<1>3. 1 <= BufferSize
  BY SchemaFacts
<1> QED
  BY <1>1, <1>2, <1>3 DEF WriterOK

\* The item takes the place of the one that was there.
LEMMA OneOverwritten ==
    ASSUME NEW f \in Seq(Items), NEW pos \in Nat, NEW item \in Items, pos < Len(f)
    PROVE  /\ Overwritten(f, pos, <<item>>) \in Seq(Items)
           /\ Len(Overwritten(f, pos, <<item>>)) = Len(f)
           /\ \A i \in 1..Len(f) :
                  Overwritten(f, pos, <<item>>)[i] = IF i = pos + 1 THEN item ELSE f[i]
<1> DEFINE head == SubSeq(f, 1, pos)
           tail == SubSeq(f, pos + 2, Len(f))
           g == Overwritten(f, pos, <<item>>)
<1>1. <<item>> \in Seq(Items) /\ Len(<<item>>) = 1 /\ <<item>>[1] = item /\ Len(f) \in Nat
  BY LenProperties
<1>2. head \in Seq(Items) /\ Len(head) = pos /\ \A i \in 1..pos : head[i] = f[i]
  BY <1>1
<1>3. /\ tail \in Seq(Items) /\ Len(tail) = Len(f) - pos - 1
      /\ \A i \in 1..Len(f) - pos - 1 : tail[i] = f[pos + 1 + i]
  BY <1>1
<1>4. g = (head \o <<item>>) \o tail
  <2>1. pos + Len(<<item>>) + 1 = pos + 2
    BY <1>1
  <2> QED
    BY <2>1 DEF Overwritten
<1> HIDE DEF head, tail, g
<1>5. /\ head \o <<item>> \in Seq(Items) /\ Len(head \o <<item>>) = pos + 1
      /\ \A i \in 1..pos + 1 : (head \o <<item>>)[i] = IF i <= pos THEN head[i] ELSE item
  BY <1>1, <1>2, Join
<1>6. ASSUME NEW h \in Seq(Items), Len(h) = pos + 1, g = h \o tail
      PROVE  /\ g \in Seq(Items) /\ Len(g) = Len(f)
             /\ \A i \in 1..Len(f) : g[i] = IF i <= pos + 1 THEN h[i] ELSE tail[i - (pos + 1)]
  BY <1>1, <1>3, <1>6, Join
<1>7. /\ g \in Seq(Items) /\ Len(g) = Len(f)
      /\ \A i \in 1..Len(f) :
             g[i] = IF i <= pos + 1 THEN (head \o <<item>>)[i] ELSE tail[i - (pos + 1)]
  BY <1>4, <1>5, <1>6
<1>8. ASSUME NEW i \in 1..Len(f)
      PROVE  g[i] = IF i = pos + 1 THEN item ELSE f[i]
  <2>1. CASE i <= pos
    BY <1>1, <1>2, <1>5, <1>7, <2>1
  <2>2. CASE i = pos + 1
    BY <1>1, <1>5, <1>7, <2>2
  <2>3. CASE i > pos + 1
    <3>1. i - (pos + 1) \in 1..Len(f) - pos - 1 /\ pos + 1 + (i - (pos + 1)) = i /\ ~(i <= pos + 1)
      BY <1>1, <2>3
    <3> QED
      BY <1>3, <1>7, <2>3, <3>1
  <2> QED
    BY <1>1, <2>1, <2>2, <2>3
<1> QED
  BY <1>7, <1>8 DEF g

\* What the builder holds, the file's layout included, is a matter of these variables.
LEMMA SameTables ==
    ASSUME UNCHANGED <<distinct, tmpBlocks, tmpPgm, blocksOffStart, metaOff>>
    PROVE  /\ Tables' <=> Tables
           /\ Total' = Total /\ PgmAt' = PgmAt /\ TablesAt' = TablesAt /\ Meta' = Meta
           /\ \A f, off : BlocksIn(f, off)' <=> BlocksIn(f, off)
           /\ \A f : Laid(f)' <=> Laid(f)
<1>1. \A a : Count(a)' = Count(a)
  BY DEF Count
<1>2. Total' = Total /\ PgmAt' = PgmAt /\ TablesAt' = TablesAt
  BY <1>1 DEF Total, PgmAt, TablesAt
<1>3. Meta' = Meta
  BY DEF Meta, BlocksCount
<1>4. StartsOK(N)' <=> StartsOK(N)
  BY <1>1 DEF StartsOK
<1>5. \A f, off : BlocksIn(f, off)' <=> BlocksIn(f, off)
  BY <1>1 DEF BlocksIn, BlockIn
<1>6. Tables' <=> Tables
  BY <1>1, <1>2, <1>4 DEF Tables, OffsetIn
<1>7. ASSUME NEW f
      PROVE  Laid(f)' <=> Laid(f)
  BY <1>2, <1>3, <1>5 DEF Laid
<1> QED
  BY <1>2, <1>3, <1>5, <1>6, <1>7

LEMMA CloseAllStep == IInv /\ CloseAll => IInv'
<1> SUFFICES ASSUME IInv, CloseAll PROVE IInv'
  OBVIOUS
<1>1. N \in Nat \ {0} /\ Attr = 1..N /\ N = Len(Schema)
  BY SchemaFacts DEF N
<1>2. /\ phase = "blocks" /\ attr \notin Attr /\ phase' = "closed" /\ metaOff' = GetPos(dst)
      /\ dst' = Flush(dst) /\ tmpBlocks' = Flush(tmpBlocks) /\ tmpPgm' = Flush(tmpPgm)
      /\ UNCHANGED <<builds, distinct, attr, block, blocksOffStart, done, enabled, updated>>
  BY DEF CloseAll, Close, index
<1>3. /\ AtEnd(dst) /\ AtEnd(tmpBlocks) /\ AtEnd(tmpPgm)
      /\ WriterOK(dst) /\ WriterOK(tmpBlocks) /\ WriterOK(tmpPgm)
      /\ Len(Content(tmpBlocks)) = Written /\ Len(Content(dst)) = 2 + Written
      /\ Len(Content(tmpPgm)) = 2 * (attr - 1)
      /\ StartsOK(N) /\ done = 0
  BY <1>2 DEF IInv, InBlocks, Types
<1>4. Written = Total /\ attr = N + 1
  BY <1>1, <1>2 DEF Written, IInv, Types
<1>5. /\ WriterOK(dst') /\ AtEnd(dst') /\ dst'.file = Content(dst) /\ dst'.used = << >>
      /\ WriterOK(tmpBlocks') /\ AtEnd(tmpBlocks') /\ tmpBlocks'.file = Content(tmpBlocks)
      /\ Content(tmpBlocks') = Content(tmpBlocks)
      /\ WriterOK(tmpPgm') /\ AtEnd(tmpPgm') /\ tmpPgm'.file = Content(tmpPgm)
  BY <1>2, <1>3, FlushAtEnd, Zenon
<1>6. Total \in Nat /\ Total' = Total /\ \A a : Count(a)' = Count(a)
  BY <1>2, <1>3, TotalType DEF IInv, Total, Count
<1>7. metaOff' = 2 + Total /\ GetPos(tmpBlocks)' = Total
  <2>1. GetPos(dst) = 2 + Written
    BY <1>3, PosAtEnd
  <2>2. GetPos(tmpBlocks') = Len(Content(tmpBlocks'))
    BY <1>5, PosAtEnd
  <2> QED
    BY <1>2, <1>3, <1>4, <1>5, <2>1, <2>2
<1>8. ASSUME NEW a \in Attr, NEW b \in 1..Count(a)
      PROVE  BlockIn(Content(dst), a, b) /\ OffsetIn(Content(tmpBlocks), a, b)
  <2>1. Out(a, b)
    BY <1>1, <1>4 DEF Out
  <2> QED
    BY <1>2, <2>1 DEF IInv, InBlocks
<1>9. Tables'
  <2>1. StartsOK(N)'
    BY <1>2, <1>3, <1>6 DEF StartsOK
  <2>2. \A a \in Attr : \A b \in 1..Count(a)' : OffsetIn(tmpBlocks.file, a, b)'
    BY <1>2, <1>5, <1>6, <1>8 DEF OffsetIn
  <2>3. \A a \in Attr : tmpPgm'.file[2 * a] = Item("pgm", <<a>>)
    <3>1. \A a \in 1..attr - 1 : Content(tmpPgm)[2 * a] = Item("pgm", <<a>>)
      BY <1>2 DEF IInv, InBlocks
    <3>2. attr - 1 = N
      BY <1>1, <1>4
    <3> QED
      BY <1>1, <1>5, <3>1, <3>2, Zenon
  <2>4. Len(tmpBlocks'.file) = Total'
    BY <1>3, <1>4, <1>5, <1>6, Zenon
  <2>5. Len(tmpPgm'.file) = 2 * N
    <3>1. 2 * (attr - 1) = 2 * N
      BY <1>1, <1>4
    <3> QED
      BY <1>3, <1>5, <3>1, Zenon
  <2> QED
    BY <1>6, <1>7, <2>1, <2>2, <2>3, <2>4, <2>5 DEF Tables
<1>10. Types'
  BY <1>2, <1>5, <1>6, <1>7 DEF IInv, Types, Building
<1>11. InClosed'
  <2>1. BlocksIn(dst.file, 0)'
    <3>1. dst'.file[2] = Item("metaOff", <<0>>)
      BY <1>2, <1>5 DEF IInv, InBlocks
    <3>2. \A a \in Attr : \A b \in 1..Count(a)' : BlockIn(dst.file, a, b)'
      BY <1>2, <1>5, <1>6, <1>8 DEF BlockIn
    <3> QED
      BY <3>1, <3>2 DEF BlocksIn
  <2>2. Len(dst'.file) = metaOff'
    BY <1>3, <1>4, <1>5, <1>7, Zenon
  <2> QED
    BY <1>2, <1>3, <1>5, <1>9, <2>1, <2>2 DEF InClosed
<1> QED
  BY <1>2, <1>10, <1>11
     DEF IInv, InBlocks, InPatch, InMeta, InCopy, AtRest, IsBuilt, IsServing, Idle

LEMMA WriteMetaOffStep == IInv /\ WriteMetaOff => IInv'
<1> SUFFICES ASSUME IInv, WriteMetaOff PROVE IInv'
  OBVIOUS
<1> DEFINE f == dst.file
           item == Item("metaOff", <<metaOff>>)
<1>1. /\ phase = "closed" /\ phase' = "patch"
      /\ dst' = Write(Seek(Writer(f, FALSE), MetaOffPos), item)
      /\ UNCHANGED <<builds, distinct, tmpBlocks, tmpPgm, attr, block, blocksOffStart,
                     metaOff, done, enabled, updated>>
  BY DEF WriteMetaOff, builder, index
<1>2. f \in Seq(Items) /\ Tables /\ done = 0 /\ Len(f) = metaOff /\ BlocksIn(f, 0)
  BY <1>1 DEF IInv, InClosed, Types, WriterOK, Writers
<1>3. item \in Items
  BY ItemsWritten DEF IInv, Types
<1>4. dst' = [file |-> f, used |-> <<item>>, at |-> 1, append |-> FALSE]
  <2>1. Overwriting(f, 1, item)
    BY <1>2, <1>3, SeekThenWrite
  <2> QED
    BY <1>1, <2>1 DEF Overwriting, MetaOffPos
<1>5. WriterOK(dst')
  BY <1>2, <1>3, <1>4, OneHeld
<1>6. Types'
  BY <1>1, <1>5 DEF IInv, Types, Building
<1>7. dst'.file = f /\ dst'.used = <<item>> /\ dst'.at = 1 /\ ~dst'.append
  BY <1>4
<1>8. Tables' /\ BlocksIn(dst.file, 0)'
  <2>1. UNCHANGED <<distinct, tmpBlocks, tmpPgm, blocksOffStart, metaOff>>
    BY <1>1
  <2>2. (Tables' <=> Tables) /\ \A g, off : BlocksIn(g, off)' <=> BlocksIn(g, off)
    BY <2>1, SameTables
  <2> QED
    BY <1>2, <1>7, <2>2
<1>9. InPatch'
  BY <1>1, <1>2, <1>7, <1>8 DEF InPatch
<1> QED
  BY <1>1, <1>6, <1>9
     DEF IInv, InBlocks, InClosed, InMeta, InCopy, AtRest, IsBuilt, IsServing, Idle

\* The blocks and the header are before the meta.
LEMMA BlocksKept ==
    ASSUME Types, Tables, NEW f, NEW g, NEW off, BlocksIn(f, off), \A i \in 1..metaOff : g[i] = f[i]
    PROVE  BlocksIn(g, off)
<1>1. /\ metaOff = 2 + Total /\ Total \in Nat
      /\ \A a \in Attr : blocksOffStart[a] \in Nat /\ blocksOffStart[a] + Count(a) <= Total
      /\ \A a \in Attr : Count(a) \in Nat
  BY TotalType, CountType DEF Tables
<1>2. 2 \in 1..metaOff
  BY <1>1
<1>3. \A a \in Attr : \A b \in 1..Count(a) : 2 + blocksOffStart[a] + b \in 1..metaOff
  <2> TAKE a \in Attr
  <2> TAKE b \in 1..Count(a)
  <2>1. /\ b \in Nat \ {0} /\ b <= Count(a) /\ Count(a) \in Nat
        /\ blocksOffStart[a] \in Nat /\ blocksOffStart[a] + Count(a) <= Total
    BY <1>1
  <2> QED
    BY <1>1, <2>1
<1> QED
  BY <1>2, <1>3 DEF BlocksIn, BlockIn

LEMMA WriteKeeps ==
    ASSUME NEW w, WriterOK(w), AtEnd(w), NEW item \in Items
    PROVE  /\ Len(w.file) <= Len(Write(w, item).file)
           /\ \A i \in 1..Len(w.file) : Write(w, item).file[i] = w.file[i]
<1>1. Write(w, item).file \in {w.file, Content(w)}
  <2>1. CASE Len(w.used) = BufferSize
    <3>1. Write(w, item) = [Flush(w) EXCEPT !.used = Append(@, item)]
      BY <2>1 DEF Write
    <3>2. Flush(w).file = Content(w) /\ Flush(w) \in Writers
      BY FlushAtEnd DEF WriterOK
    <3> QED
      BY <3>1, <3>2 DEF Writers
  <2>2. CASE Len(w.used) # BufferSize
    <3>1. Write(w, item) = [w EXCEPT !.used = Append(@, item)]
      BY <2>2 DEF Write
    <3> QED
      BY <3>1 DEF WriterOK, Writers
  <2> QED
    BY <2>1, <2>2
<1>2. ASSUME NEW f, NEW u, Len(f) \in Nat, Len(u) \in Nat, Len(Content(w)) = Len(f) + Len(u)
      PROVE  Len(f) <= Len(f) /\ Len(f) <= Len(Content(w))
  BY <1>2
<1>3. Len(w.file) <= Len(w.file) /\ Len(w.file) <= Len(Content(w))
  BY <1>2, ContentType
<1> QED
  BY <1>1, <1>3, ContentType

LEMMA SeekMetaStep == IInv /\ SeekMeta => IInv'
<1> SUFFICES ASSUME IInv, SeekMeta PROVE IInv'
  OBVIOUS
<1> DEFINE f == dst.file
           item == Item("metaOff", <<metaOff>>)
           g == Overwritten(f, 1, <<item>>)
<1>1. /\ phase = "patch" /\ phase' = "meta" /\ dst' = Seek(dst, metaOff)
      /\ UNCHANGED <<builds, distinct, tmpBlocks, tmpPgm, attr, block, blocksOffStart,
                     metaOff, done, enabled, updated>>
  BY DEF SeekMeta, builder, index
<1>2. /\ f \in Seq(Items) /\ Tables /\ done = 0 /\ Len(f) = metaOff /\ BlocksIn(f, 0)
      /\ dst.at = 1 /\ dst.used = <<item>> /\ ~dst.append /\ dst \in Writers
      /\ metaOff \in Nat /\ Types
  BY <1>1 DEF IInv, InPatch, Types, WriterOK, Writers
<1>3. item \in Items
  BY <1>2, ItemsWritten
<1>4. metaOff = 2 + Total /\ Total \in Nat
  BY <1>2, TotalType DEF Tables
<1>5. /\ g \in Seq(Items) /\ Len(g) = metaOff
      /\ \A i \in 1..metaOff : g[i] = IF i = 2 THEN item ELSE f[i]
  <2> HIDE DEF f, item
  <2>1. 1 < Len(f) /\ 1 + 1 = 2
    BY <1>2, <1>4
  <2>2. /\ g \in Seq(Items) /\ Len(g) = Len(f)
        /\ \A i \in 1..Len(f) : g[i] = IF i = 1 + 1 THEN item ELSE f[i]
    <3>1. 1 \in Nat
      OBVIOUS
    <3>2. f \in Seq(Items)
      BY <1>2
    <3> QED
      BY <1>3, <2>1, <3>1, <3>2, OneOverwritten
  <2> QED
    BY <1>2, <2>1, <2>2
<1>6. dst' = [file |-> g, used |-> << >>, at |-> metaOff, append |-> dst.append]
  <2>1. Flush(dst) = [dst EXCEPT !.file = g, !.at = GetPos(dst), !.used = << >>]
    BY <1>2 DEF Flush
  <2> QED
    BY <1>1, <1>2, <2>1 DEF Seek, Writers
<1>7. dst'.file = g /\ dst'.used = << >> /\ dst'.at = metaOff
  BY <1>6
<1> HIDE DEF g
<1>8. WriterOK(dst')
  <2>1. << >> \in Seq(Items) /\ Len(<< >>) <= BufferSize /\ dst.append \in BOOLEAN
    BY <1>2, EmptySeq, SchemaFacts DEF Writers
  <2>2. dst' \in Writers
    BY <1>2, <1>5, <1>6, <2>1, WriterIs
  <2> QED
    BY <1>7, <2>1, <2>2 DEF WriterOK
<1>9. AtEnd(dst')
  BY <1>5, <1>7 DEF AtEnd
<1>10. Len(Content(dst')) = metaOff
  <2>1. g \o << >> = g
    BY <1>5, ConcatEmptySeq
  <2> QED
    BY <1>5, <1>7, <2>1 DEF Content
<1>11. BlocksIn(g, metaOff)
  <2>1. g[2] = item
    BY <1>4, <1>5
  <2>2. \A i \in 1..metaOff : i # 2 => g[i] = f[i]
    BY <1>5
  <2>4. \A a \in Attr : \A b \in 1..Count(a) : BlockIn(g, a, b)
    <3> TAKE a \in Attr
    <3> TAKE b \in 1..Count(a)
    <3>1. Count(a) \in Nat /\ blocksOffStart[a] \in Nat /\ blocksOffStart[a] + Count(a) <= Total
      BY <1>2, TotalType, CountType DEF Tables
    <3>2. 2 + blocksOffStart[a] + b \in 1..metaOff /\ 2 + blocksOffStart[a] + b # 2
      BY <1>4, <3>1
    <3> QED
      BY <1>2, <2>2, <3>2 DEF BlocksIn, BlockIn
  <2> QED
    BY <2>1, <2>4 DEF BlocksIn
<1>12. Tables' /\ BlocksIn(dst.file, metaOff)'
  <2>1. UNCHANGED <<distinct, tmpBlocks, tmpPgm, blocksOffStart, metaOff>>
    BY <1>1
  <2>2. (Tables' <=> Tables) /\ \A h, off : BlocksIn(h, off)' <=> BlocksIn(h, off)
    BY <2>1, SameTables
  <2> QED
    BY <1>1, <1>2, <1>7, <1>11, <2>2
<1>13. Types'
  BY <1>1, <1>2, <1>8 DEF Types, Building
<1>14. InMeta'
  <2>1. metaOff' <= Len(dst'.file)
    <3>1. metaOff <= Len(g)
      BY <1>2, <1>5
    <3> QED
      BY <1>1, <1>7, <3>1
  <2>2. Len(Content(dst')) = metaOff' + done' /\ done' <= MetaSize
    BY <1>1, <1>2, <1>10, SchemaFacts DEF MetaSize
  <2>3. \A i \in 1..done' : FALSE
    BY <1>1, <1>2
  <2> QED
    BY <1>9, <1>12, <2>1, <2>2, <2>3 DEF InMeta
<1> QED
  BY <1>1, <1>13, <1>14
     DEF IInv, InBlocks, InClosed, InPatch, InCopy, AtRest, IsBuilt, IsServing, Idle

LEMMA WriteMetaStep == IInv /\ WriteMeta => IInv'
<1> SUFFICES ASSUME IInv, WriteMeta PROVE IInv'
  OBVIOUS
<1>1. /\ phase = "meta"
      /\ UNCHANGED <<builds, distinct, tmpBlocks, tmpPgm, attr, block, blocksOffStart,
                     metaOff, enabled, updated>>
  BY DEF WriteMeta, index
<1>2. /\ Types /\ Tables /\ AtEnd(dst) /\ WriterOK(dst) /\ metaOff \in Nat
      /\ done \in Nat /\ done <= MetaSize
      /\ metaOff <= Len(dst.file) /\ BlocksIn(dst.file, metaOff)
      /\ Len(Content(dst)) = metaOff + done
      /\ \A i \in 1..done : Content(dst)[metaOff + i] = Meta[i]
  BY <1>1 DEF IInv, InMeta, Types
<1>3. Meta \in Seq(Items) /\ Len(Meta) = MetaSize /\ MetaSize \in Nat
  BY <1>2, MetaFacts, SchemaFacts DEF MetaSize
<1>4. /\ Tables' /\ Meta' = Meta /\ PgmAt' = PgmAt /\ TablesAt' = TablesAt
      /\ \A f, off : BlocksIn(f, off)' <=> BlocksIn(f, off)
      /\ \A f : Laid(f)' <=> Laid(f)
  <2>1. UNCHANGED <<distinct, tmpBlocks, tmpPgm, blocksOffStart, metaOff>>
    BY <1>1
  <2> QED
    BY <1>2, <2>1, SameTables
<1>5. CASE done < Len(Meta)
  <2> DEFINE item == Meta[done + 1]
  <2>1. dst' = Write(dst, item) /\ done' = done + 1 /\ phase' = "meta"
    BY <1>1, <1>5 DEF WriteMeta
  <2>2. item \in Items
    BY <1>2, <1>3, <1>5, ElementOfSeq
  <2> HIDE DEF item
  <2>3. /\ WriterOK(dst') /\ AtEnd(dst') /\ Len(Content(dst')) = Len(Content(dst)) + 1
        /\ Content(dst')[Len(Content(dst)) + 1] = item
        /\ \A i \in 1..Len(Content(dst)) : Content(dst')[i] = Content(dst)[i]
    BY <1>2, <2>1, <2>2, Appended, Zenon
  <2>4. Len(Content(dst')) = metaOff + done'
    BY <1>2, <2>1, <2>3
  <2>5. ASSUME NEW i \in 1..done'
        PROVE  Content(dst')[metaOff + i] = Meta[i]
    <3>1. CASE i = done + 1
      <4>1. metaOff + i = Len(Content(dst)) + 1
        BY <1>2, <3>1
      <4> QED
        BY <2>3, <3>1, <4>1 DEF item
    <3>2. CASE i # done + 1
      <4>1. i \in 1..done /\ metaOff + i \in 1..Len(Content(dst))
        BY <1>2, <2>1, <3>2
      <4> QED
        BY <1>2, <2>3, <4>1
    <3> QED
      BY <3>1, <3>2
  <2>6. metaOff <= Len(dst'.file) /\ BlocksIn(dst'.file, metaOff)
    <3> DEFINE f == dst.file
               g == Write(dst, item).file
    <3>1. Len(f) <= Len(g) /\ \A i \in 1..Len(f) : g[i] = f[i]
      BY <1>2, <2>2, WriteKeeps
    <3>2. g = dst'.file /\ metaOff <= Len(f) /\ BlocksIn(f, metaOff)
      BY <1>2, <2>1
    <3>3. Len(f) \in Nat /\ Len(g) \in Nat
      BY <1>2, <2>1, <2>3, ContentType
    <3> HIDE DEF f, g
    <3>4. metaOff <= Len(g) /\ \A i \in 1..metaOff : g[i] = f[i]
      BY <1>2, <3>1, <3>2, <3>3
    <3>5. BlocksIn(g, metaOff)
      BY <1>2, <3>2, <3>4, BlocksKept
    <3> QED
      BY <3>2, <3>4, <3>5
  <2>7. Types'
    BY <1>1, <1>2, <2>1, <2>3 DEF Types
  <2>8. InMeta'
    <3>1. BlocksIn(dst.file, metaOff)' /\ metaOff' <= Len(dst'.file)
      BY <1>1, <1>4, <2>6
    <3>2. done' <= MetaSize /\ Len(Content(dst')) = metaOff' + done'
      BY <1>1, <1>2, <1>3, <1>5, <2>1, <2>4
    <3>3. \A i \in 1..done' : Content(dst')[metaOff' + i] = Meta'[i]
      BY <1>1, <1>4, <2>5
    <3> QED
      BY <1>4, <2>3, <3>1, <3>2, <3>3 DEF InMeta
  <2> QED
    BY <2>1, <2>7, <2>8
       DEF IInv, InBlocks, InClosed, InPatch, InCopy, AtRest, IsBuilt, IsServing, Idle
<1>6. CASE ~(done < Len(Meta))
  <2> DEFINE g == Content(dst)
  <2>1. dst' = Flush(dst) /\ done' = 0 /\ phase' = "copyPgm"
    BY <1>1, <1>6 DEF WriteMeta, Close
  <2>2. /\ WriterOK(dst') /\ AtEnd(dst') /\ dst'.file = g /\ dst'.used = << >>
        /\ g \in Seq(Items) /\ Len(g) = PgmAt
    <3>1. done = MetaSize
      BY <1>2, <1>3, <1>6
    <3>2. Len(Content(dst)) = PgmAt
      BY <1>2, <3>1 DEF PgmAt
    <3> QED
      BY <1>2, <2>1, <3>2, FlushAtEnd, ContentType
  <2>3. \A i \in 1..MetaSize : g[metaOff + i] = Meta[i]
    BY <1>2, <1>3, <1>6
  <2>4. BlocksIn(g, metaOff)
    <3> DEFINE f == dst.file
    <3>1. /\ Len(f) \in Nat /\ metaOff <= Len(f) /\ BlocksIn(f, metaOff)
          /\ \A i \in 1..Len(f) : g[i] = f[i]
      BY <1>2, ContentType
    <3> HIDE DEF f, g
    <3>2. \A i \in 1..metaOff : g[i] = f[i]
      BY <1>2, <3>1
    <3> QED
      BY <1>2, <3>1, <3>2, BlocksKept
  <2> HIDE DEF g
  <2>5. StoredEnabled(g) = Attr
    <3>1. g[2].data = <<metaOff>>
      BY <2>4, ItemType DEF BlocksIn
    <3>2. MetaOff(g) = metaOff
      BY <3>1 DEF MetaOff, Data, MetaOffPos
    <3>3. 3 \in 1..MetaSize /\ metaOff + 2 + 1 = metaOff + 3
      BY <1>2, SchemaFacts DEF MetaSize
    <3>4. Data(g, metaOff + BitsPos) = Bits(Attr)
      BY <1>2, <2>3, <3>3, MetaFacts, ItemType DEF Data, BitsPos
    <3> QED
      BY <3>2, <3>4 DEF StoredEnabled, Bits
  <2>6. Laid(g) /\ PgmAt \in Nat
    <3>1. /\ N \in Nat /\ Total \in Nat /\ TablesAt = PgmAt + 2 * N /\ PgmAt \in Nat
      BY <1>2, <1>3, TotalType, SchemaFacts DEF N, Tables, TablesAt, PgmAt
    <3>2. /\ PgmAt <= Len(g) /\ Len(g) <= TablesAt + Total
          /\ \A i \in 1..2 * N : ~(PgmAt + i <= Len(g))
          /\ \A i \in 1..Total : ~(TablesAt + i <= Len(g))
      BY <2>2, <3>1
    <3>3. FamilyClosed(StoredEnabled(g))
      BY <2>5 DEF FamilyClosed, Siblings
    <3> QED
      BY <2>2, <2>3, <2>4, <3>1, <3>2, <3>3 DEF Laid
  <2>7. Types'
    BY <1>1, <1>2, <2>1, <2>2 DEF Types, Building
  <2>8. InCopy'
    <3>1. Len(dst'.file) = PgmAt' + done'
      <4>1. Len(g) = PgmAt' + done'
        BY <1>4, <2>1, <2>2, <2>6
      <4> QED
        BY <2>2, <4>1
    <3>2. dst'.at <= Len(dst'.file)
      <4>1. dst'.at = Len(g)
        BY <2>2 DEF AtEnd
      <4>2. Len(g) <= Len(g)
        BY <2>2, <2>6
      <4> QED
        BY <2>2, <4>1, <4>2, Zenon
    <3>3. Laid(dst.file)' /\ StoredEnabled(dst'.file) = Attr
      BY <1>4, <2>2, <2>5, <2>6
    <3>4. done' <= 2 * N
      BY <2>1, SchemaFacts DEF N
    <3> QED
      BY <1>4, <2>1, <2>2, <3>1, <3>2, <3>3, <3>4 DEF InCopy
  <2> QED
    BY <2>1, <2>7, <2>8
       DEF IInv, InBlocks, InClosed, InPatch, InMeta, AtRest, IsBuilt, IsServing, Idle
<1> QED
  BY <1>5, <1>6
-----------------------------------------------------------------------------
(* Copying the temporary files. *)

\* What a buffer of the copy adds to the file.
Longer(f, src, base, from, to) ==
    LET g == f \o SubSeq(src, from + 1, to)
    IN  /\ g \in Seq(Items) /\ Len(g) = base + to
        /\ \A i \in 1..Len(f) : g[i] = f[i]
        /\ \A i \in from + 1..to : g[base + i] = src[i]

LEMMA Copied ==
    ASSUME NEW f \in Seq(Items), NEW src \in Seq(Items), NEW base \in Nat, NEW from \in Nat,
           NEW to \in Nat, Len(f) = base + from, from <= to, to <= Len(src)
    PROVE  Longer(f, src, base, from, to)
<1> DEFINE s == SubSeq(src, from + 1, to)
           g == f \o s
<1>1. s \in Seq(Items) /\ Len(s) = to - from /\ \A i \in 1..to - from : s[i] = src[from + i]
  BY LenProperties
<1>2. g = f \o s
  OBVIOUS
<1> HIDE DEF g, s
<1>3. /\ g \in Seq(Items) /\ Len(g) = Len(f) + Len(s)
      /\ \A i \in 1..Len(f) + Len(s) : g[i] = IF i <= Len(f) THEN f[i] ELSE s[i - Len(f)]
  <2>1. s \in Seq(Items)
    BY <1>1
  <2>2. /\ f \o s \in Seq(Items) /\ Len(f \o s) = Len(f) + Len(s)
        /\ \A i \in 1..Len(f) + Len(s) : (f \o s)[i] = IF i <= Len(f) THEN f[i] ELSE s[i - Len(f)]
    BY <2>1, Join, Zenon
  <2> QED
    BY <1>2, <2>2, Zenon
<1>4. Len(f) \in Nat
  BY LenProperties
<1>5. ASSUME NEW i \in from + 1..to
      PROVE  g[base + i] = src[i]
  <2>1. /\ base + i \in 1..Len(f) + Len(s) /\ ~(base + i <= Len(f)) /\ (base + i) - Len(f) = i - from
        /\ i - from \in 1..to - from /\ from + (i - from) = i
    BY <1>1, <1>4
  <2> QED
    BY <1>1, <1>3, <2>1
<1>6. Len(g) = base + to
  <2>1. Len(f) + Len(s) = base + to
    BY <1>1
  <2> QED
    BY <1>3, <2>1, Zenon
<1>7. \A i \in 1..Len(f) : g[i] = f[i]
  BY <1>1, <1>3, <1>4
<1> QED
  BY <1>3, <1>5, <1>6, <1>7 DEF Longer, g, s

\* Which attributes are enabled is in the meta.
LEMMA SameBits ==
    ASSUME Types, Tables, NEW f, NEW g, BlocksIn(f, metaOff), BlocksIn(g, metaOff),
           g[metaOff + 3] = f[metaOff + 3]
    PROVE  StoredEnabled(g) = StoredEnabled(f)
<1>1. MetaOff(f) = metaOff /\ MetaOff(g) = metaOff
  BY ItemType DEF BlocksIn, MetaOff, Data, MetaOffPos
<1>2. metaOff + 2 + 1 = metaOff + 3
  BY DEF Types
<1> QED
  BY <1>1, <1>2 DEF StoredEnabled, Data, BitsPos

\* A file that is laid out stays so when what comes next is appended.
LEMMA LaidGrows ==
    ASSUME Types, Tables, NEW f, Laid(f),
           NEW g \in Seq(Items), Len(f) <= Len(g), Len(g) <= TablesAt + Total,
           \A i \in 1..Len(f) : g[i] = f[i],
           \A i \in 1..2 * N : Len(f) < PgmAt + i /\ PgmAt + i <= Len(g) =>
               g[PgmAt + i] = tmpPgm.file[i],
           \A i \in 1..Total : Len(f) < TablesAt + i /\ TablesAt + i <= Len(g) =>
               g[TablesAt + i] = tmpBlocks.file[i]
    PROVE  Laid(g) /\ StoredEnabled(g) = StoredEnabled(f)
<1>1. N \in Nat \ {0} /\ N = Len(Schema) /\ MetaSize = 5 + N + 2 /\ metaOff \in Nat
  BY SchemaFacts DEF N, MetaSize, Types
<1>2. /\ Len(f) \in Nat /\ Len(g) \in Nat /\ PgmAt \in Nat /\ PgmAt = metaOff + MetaSize
      /\ TablesAt = PgmAt + 2 * N /\ Total \in Nat /\ PgmAt <= Len(f)
  BY <1>1, LaidReads, TotalType, LenProperties DEF PgmAt, TablesAt, Tables, Laid
<1>3. \A i \in 1..PgmAt : g[i] = f[i]
  BY <1>2
<1>4. BlocksIn(f, metaOff) /\ BlocksIn(g, metaOff)
  <2>1. \A i \in 1..metaOff : g[i] = f[i]
    BY <1>1, <1>2, <1>3
  <2> QED
    BY <2>1, BlocksKept DEF Laid
<1>5. StoredEnabled(g) = StoredEnabled(f)
  <2>1. metaOff + 3 \in 1..PgmAt
    BY <1>1, <1>2
  <2> QED
    BY <1>3, <1>4, <2>1, SameBits
<1>6. \A i \in 1..MetaSize : i # 3 => g[metaOff + i] = Meta[i]
  <2>1. \A i \in 1..MetaSize : metaOff + i \in 1..PgmAt
    BY <1>1, <1>2
  <2> QED
    BY <1>3, <2>1 DEF Laid
<1>7. ASSUME NEW i \in 1..2 * N, PgmAt + i <= Len(g)
      PROVE  g[PgmAt + i] = tmpPgm.file[i]
  <2>1. CASE PgmAt + i <= Len(f)
    <3>1. PgmAt + i \in 1..Len(f)
      BY <1>1, <1>2, <2>1
    <3> QED
      BY <2>1, <3>1 DEF Laid
  <2>2. CASE ~(PgmAt + i <= Len(f))
    <3>1. Len(f) < PgmAt + i
      BY <1>1, <1>2, <2>2
    <3> QED
      BY <1>7, <3>1
  <2> QED
    BY <2>1, <2>2
<1>8. ASSUME NEW i \in 1..Total, TablesAt + i <= Len(g)
      PROVE  g[TablesAt + i] = tmpBlocks.file[i]
  <2>1. CASE TablesAt + i <= Len(f)
    <3>1. TablesAt + i \in 1..Len(f)
      BY <1>1, <1>2, <2>1
    <3> QED
      BY <2>1, <3>1 DEF Laid
  <2>2. CASE ~(TablesAt + i <= Len(f))
    <3>1. Len(f) < TablesAt + i
      BY <1>1, <1>2, <2>2
    <3> QED
      BY <1>8, <3>1
  <2> QED
    BY <2>1, <2>2
<1>9. PgmAt <= Len(g)
  BY <1>2
<1> QED
  BY <1>4, <1>5, <1>6, <1>7, <1>8, <1>9 DEF Laid

LEMMA FileReplaced ==
    ASSUME WriterOK(dst), NEW g \in Seq(Items), dst' = [dst EXCEPT !.file = g]
    PROVE  /\ WriterOK(dst') /\ dst'.file = g
           /\ dst'.used = dst.used /\ dst'.at = dst.at /\ dst'.append = dst.append
<1>1. dst' = [file |-> g, used |-> dst.used, at |-> dst.at, append |-> dst.append]
  BY DEF WriterOK, Writers
<1>2. dst.used \in Seq(Items) /\ dst.at \in Nat /\ dst.append \in BOOLEAN
      /\ Len(dst.used) <= BufferSize
  BY DEF WriterOK, Writers
<1>3. dst'.file = g /\ dst'.used = dst.used /\ dst'.at = dst.at /\ dst'.append = dst.append
  BY <1>1
<1>4. dst' \in Writers
  <2>1. [file |-> g, used |-> dst.used, at |-> dst.at, append |-> dst.append] \in Writers
    BY <1>2, WriterIs, Zenon
  <2> QED
    BY <1>1, <2>1, Zenon
<1> QED
  BY <1>2, <1>3, <1>4, Zenon DEF WriterOK

LEMMA CopyPgmStep == IInv /\ CopyPgm => IInv'
<1> SUFFICES ASSUME IInv, CopyPgm PROVE IInv'
  OBVIOUS
<1> DEFINE f == dst.file
           src == tmpPgm.file
<1>1. /\ phase = "copyPgm"
      /\ UNCHANGED <<builds, distinct, tmpBlocks, tmpPgm, attr, block, blocksOffStart,
                     metaOff, enabled, updated>>
  BY DEF CopyPgm, Copy, index
<1>2. /\ Types /\ Tables /\ Laid(f) /\ StoredEnabled(f) = Attr /\ WriterOK(dst)
      /\ dst.used = << >> /\ dst.at <= Len(f) /\ done <= 2 * N /\ Len(f) = PgmAt + done
  BY <1>1 DEF IInv, InCopy, Types
<1>3. /\ N \in Nat /\ done \in Nat /\ PgmAt \in Nat /\ TablesAt = PgmAt + 2 * N /\ Total \in Nat
      /\ f \in Seq(Items) /\ src \in Seq(Items) /\ Len(src) = 2 * N /\ dst.at \in Nat
  <2>1. Total \in Nat /\ PgmAt \in Nat
    BY <1>2, TotalType, LaidReads DEF Tables
  <2>2. src \in Seq(Items) /\ Len(src) = 2 * N
    BY <1>2 DEF Tables, Types, WriterOK, Writers
  <2> QED
    BY <1>2, <2>1, <2>2, SchemaFacts DEF N, TablesAt, Types, Laid, WriterOK, Writers
<1>4. /\ Tables' /\ PgmAt' = PgmAt /\ TablesAt' = TablesAt
      /\ \A g : Laid(g)' <=> Laid(g)
  <2>1. UNCHANGED <<distinct, tmpBlocks, tmpPgm, blocksOffStart, metaOff>>
    BY <1>1
  <2> QED
    BY <1>2, <2>1, SameTables
<1>5. CASE done < Len(src)
  <2> DEFINE end == IF done + CopySize < Len(src) THEN done + CopySize ELSE Len(src)
             g == f \o SubSeq(src, done + 1, end)
  <2>1. dst' = [dst EXCEPT !.file = g] /\ done' = end /\ phase' = "copyPgm"
    BY <1>1, <1>5 DEF CopyPgm, Copy
  <2>2. end \in Nat /\ done <= end /\ end <= 2 * N
    BY <1>3, <1>5, SchemaFacts
  <2> HIDE DEF end
  <2>3. /\ g \in Seq(Items) /\ Len(g) = PgmAt + end
        /\ \A i \in 1..Len(f) : g[i] = f[i]
        /\ \A i \in done + 1..end : g[PgmAt + i] = src[i]
    <3> HIDE DEF f, src
    <3>1. end <= Len(src) /\ Len(f) = PgmAt + done
      BY <1>2, <1>3, <2>2 DEF f
    <3>2. f \in Seq(Items) /\ src \in Seq(Items) /\ PgmAt \in Nat /\ done \in Nat
      BY <1>3
    <3>3. Longer(f, src, PgmAt, done, end)
      BY <2>2, <3>1, <3>2, Copied, Zenon
    <3> QED
      BY <3>3, Zenon DEF Longer
  <2> HIDE DEF g, f, src
  <2>4. Laid(g) /\ StoredEnabled(g) = Attr
    <3>1. Len(f) <= Len(g) /\ Len(g) <= TablesAt + Total
      BY <1>2, <1>3, <2>2, <2>3
    <3>2. \A i \in 1..2 * N : Len(f) < PgmAt + i /\ PgmAt + i <= Len(g) => i \in done + 1..end
      BY <1>2, <1>3, <2>2, <2>3
    <3>3. \A i \in 1..Total : ~(TablesAt + i <= Len(g))
      BY <1>3, <2>2, <2>3
    <3> QED
      BY <1>2, <2>3, <3>1, <3>2, <3>3, LaidGrows DEF src
  <2>5. WriterOK(dst') /\ dst'.file = g /\ dst'.used = << >> /\ dst'.at = dst.at
    BY <1>2, <2>1, <2>3, FileReplaced
  <2>6. Types'
    BY <1>1, <1>2, <2>1, <2>2, <2>5 DEF Types, Building
  <2>7. InCopy'
    <3>1. dst.at <= Len(g) /\ Len(g) = PgmAt' + done'
      <4>1. dst.at <= Len(f)
        BY <1>2 DEF f
      <4> QED
        BY <1>2, <1>3, <1>4, <2>1, <2>2, <2>3, <4>1
    <3>2. Laid(dst.file)' /\ StoredEnabled(dst'.file) = Attr
      BY <1>4, <2>4, <2>5
    <3>3. dst'.at <= Len(dst'.file) /\ Len(dst'.file) = PgmAt' + done'
      BY <2>5, <3>1, Zenon
    <3> QED
      BY <1>4, <2>1, <2>2, <2>5, <3>2, <3>3 DEF InCopy
  <2> QED
    BY <2>1, <2>6, <2>7
       DEF IInv, InBlocks, InClosed, InPatch, InMeta, AtRest, IsBuilt, IsServing, Idle
<1>6. CASE ~(done < Len(src))
  <2>1. dst' = dst /\ done' = 0 /\ phase' = "copyBlocks"
    BY <1>1, <1>6 DEF CopyPgm, Copy
  <2> HIDE DEF f, src
  <2>2. Len(f) = TablesAt + 0 /\ TablesAt + 0 = TablesAt' + done'
    BY <1>2, <1>3, <1>4, <1>6, <2>1
  <2>3. Types'
    BY <1>1, <1>2, <2>1 DEF Types, Building
  <2>4. InCopy'
    <3>1. Len(dst'.file) = TablesAt' + done'
      BY <2>1, <2>2 DEF f
    <3>2. Laid(dst.file)' /\ StoredEnabled(dst'.file) = Attr
      BY <1>2, <1>4, <2>1 DEF f
    <3>3. dst'.used = << >> /\ dst'.at <= Len(dst'.file)
      BY <1>2, <2>1 DEF f
    <3>4. done' <= Total'
      BY <1>1, <1>3, <2>1 DEF Total, Count
    <3> QED
      BY <1>4, <2>1, <3>1, <3>2, <3>3, <3>4 DEF InCopy
  <2> QED
    BY <2>1, <2>3, <2>4
       DEF IInv, InBlocks, InClosed, InPatch, InMeta, AtRest, IsBuilt, IsServing, Idle
<1> QED
  BY <1>5, <1>6

LEMMA CopyBlocksStep == IInv /\ CopyBlocks => IInv'
<1> SUFFICES ASSUME IInv, CopyBlocks PROVE IInv'
  OBVIOUS
<1> DEFINE f == dst.file
           src == tmpBlocks.file
<1>1. /\ phase = "copyBlocks"
      /\ UNCHANGED <<builds, distinct, tmpBlocks, tmpPgm, attr, block, blocksOffStart,
                     metaOff, enabled, updated>>
  BY DEF CopyBlocks, Copy, index
<1>2. /\ Types /\ Tables /\ Laid(f) /\ StoredEnabled(f) = Attr /\ WriterOK(dst)
      /\ dst.used = << >> /\ dst.at <= Len(f) /\ done <= Total /\ Len(f) = TablesAt + done
  BY <1>1 DEF IInv, InCopy, Types
<1>3. /\ N \in Nat /\ done \in Nat /\ PgmAt \in Nat /\ TablesAt = PgmAt + 2 * N /\ Total \in Nat /\ TablesAt \in Nat
      /\ f \in Seq(Items) /\ src \in Seq(Items) /\ Len(src) = Total /\ dst.at \in Nat
  <2>1. Total \in Nat /\ PgmAt \in Nat
    BY <1>2, TotalType, LaidReads DEF Tables
  <2>2. src \in Seq(Items) /\ Len(src) = Total
    BY <1>2 DEF Tables, Types, WriterOK, Writers
  <2> QED
    BY <1>2, <2>1, <2>2, SchemaFacts DEF N, TablesAt, Types, Laid, WriterOK, Writers
<1>4. /\ Tables' /\ PgmAt' = PgmAt /\ TablesAt' = TablesAt /\ Total' = Total
      /\ \A g : Laid(g)' <=> Laid(g)
  <2>1. UNCHANGED <<distinct, tmpBlocks, tmpPgm, blocksOffStart, metaOff>>
    BY <1>1
  <2> QED
    BY <1>2, <2>1, SameTables
<1>5. CASE done < Len(src)
  <2> DEFINE end == IF done + CopySize < Len(src) THEN done + CopySize ELSE Len(src)
             g == f \o SubSeq(src, done + 1, end)
  <2>1. dst' = [dst EXCEPT !.file = g] /\ done' = end /\ phase' = "copyBlocks"
    BY <1>1, <1>5 DEF CopyBlocks, Copy
  <2>2. end \in Nat /\ done <= end /\ end <= Total
    BY <1>3, <1>5, SchemaFacts
  <2> HIDE DEF end
  <2>3. /\ g \in Seq(Items) /\ Len(g) = TablesAt + end
        /\ \A i \in 1..Len(f) : g[i] = f[i]
        /\ \A i \in done + 1..end : g[TablesAt + i] = src[i]
    <3> HIDE DEF f, src
    <3>1. end <= Len(src) /\ Len(f) = TablesAt + done
      BY <1>2, <1>3, <2>2 DEF f
    <3>2. f \in Seq(Items) /\ src \in Seq(Items) /\ TablesAt \in Nat /\ done \in Nat
      BY <1>3
    <3>3. Longer(f, src, TablesAt, done, end)
      BY <2>2, <3>1, <3>2, Copied, Zenon
    <3> QED
      BY <3>3, Zenon DEF Longer
  <2> HIDE DEF g, f, src
  <2>4. Laid(g) /\ StoredEnabled(g) = Attr
    <3>1. Len(f) <= Len(g) /\ Len(g) <= TablesAt + Total
      BY <1>2, <1>3, <2>2, <2>3
    <3>2. \A i \in 1..Total : Len(f) < TablesAt + i /\ TablesAt + i <= Len(g) => i \in done + 1..end
      BY <1>2, <1>3, <2>2, <2>3
    <3>3. \A i \in 1..2 * N : ~(Len(f) < PgmAt + i)
      BY <1>2, <1>3, <2>2, <2>3
    <3> QED
      BY <1>2, <2>3, <3>1, <3>2, <3>3, LaidGrows DEF src
  <2>5. WriterOK(dst') /\ dst'.file = g /\ dst'.used = << >> /\ dst'.at = dst.at
    BY <1>2, <2>1, <2>3, FileReplaced
  <2>6. Types'
    BY <1>1, <1>2, <2>1, <2>2, <2>5 DEF Types, Building
  <2>7. InCopy'
    <3>1. dst.at <= Len(g) /\ Len(g) = TablesAt' + done'
      <4>1. dst.at <= Len(f)
        BY <1>2 DEF f
      <4> QED
        BY <1>2, <1>3, <1>4, <2>1, <2>2, <2>3, <4>1
    <3>2. Laid(dst.file)' /\ StoredEnabled(dst'.file) = Attr
      BY <1>4, <2>4, <2>5
    <3>3. dst'.at <= Len(dst'.file) /\ Len(dst'.file) = TablesAt' + done'
      BY <2>5, <3>1, Zenon
    <3> QED
      BY <1>4, <2>1, <2>2, <2>5, <3>2, <3>3 DEF InCopy
  <2> QED
    BY <2>1, <2>6, <2>7
       DEF IInv, InBlocks, InClosed, InPatch, InMeta, AtRest, IsBuilt, IsServing, Idle
<1>6. CASE ~(done < Len(src))
  <2>1. dst' = dst /\ done' = 0 /\ phase' = "built"
    BY <1>1, <1>6 DEF CopyBlocks, Copy
  <2> HIDE DEF f, src
  <2>2. Len(f) = TablesAt + Total
    BY <1>2, <1>3, <1>6
  <2>3. Accepts(f)
    BY <1>2, <2>2, LaidAccepts
  <2>4. Types'
    BY <1>1, <1>2, <2>1 DEF Types, Idle
  <2>5. AtRest' /\ IsBuilt'
    <3>1. Laid(dst.file)' /\ StoredEnabled(dst'.file) = Attr /\ Accepts(dst'.file)
      BY <1>2, <1>4, <2>1, <2>3 DEF f
    <3>2. Accepts(dst.file)' /\ StoredEnabled(dst.file)' = Attr
      BY <3>1
    <3> QED
      BY <1>4, <3>1, <3>2 DEF AtRest, IsBuilt
  <2> QED
    BY <2>1, <2>4, <2>5
       DEF IInv, InBlocks, InClosed, InPatch, InMeta, InCopy, IsServing
<1> QED
  BY <1>5, <1>6
-----------------------------------------------------------------------------
(* The builder fails or dies. *)

\* Where it leaves the file decides whether Setup takes it.
LEMMA LeftBehind ==
    ASSUME UNCHANGED <<distinct, tmpBlocks, tmpPgm, blocksOffStart, metaOff>>,
           Accepts(dst'.file) => Tables /\ Laid(dst'.file)
    PROVE  Accepts(dst.file)' => Tables' /\ Laid(dst.file)'
<1>1. (Tables' <=> Tables) /\ \A f : Laid(f)' <=> Laid(f)
  BY SameTables
<1>2. Accepts(dst.file)' <=> Accepts(dst'.file)
  OBVIOUS
<1> QED
  BY <1>1, <1>2

LEMMA FlushNothing ==
    ASSUME NEW w, WriterOK(w), w.used = << >>, w.at <= Len(w.file)
    PROVE  WriterOK(Flush(w)) /\ Flush(w).file = w.file
<1>1. w.file \in Seq(Items) /\ w.at \in Nat /\ w.append \in BOOLEAN
  BY DEF WriterOK, Writers
<1>2. Overwritten(w.file, w.at, << >>) = w.file
  BY <1>1, NothingOverwritten
<1>3. w.file \o << >> = w.file
  BY <1>1, ConcatEmptySeq
<1>4. Flush(w) = [w EXCEPT !.file = w.file, !.at = GetPos(w), !.used = << >>]
  BY <1>2, <1>3 DEF Flush
<1>5. Flush(w) = [file |-> w.file, used |-> << >>, at |-> GetPos(w), append |-> w.append]
  BY <1>4 DEF WriterOK, Writers
<1>6. << >> \in Seq(Items) /\ Len(<< >>) = 0
  BY EmptySeq
<1>7. GetPos(w) \in Nat
  <2>1. GetPos(w) = w.at + Len(<< >>)
    BY DEF GetPos
  <2> QED
    BY <1>1, <1>6, <2>1
<1>8. Flush(w) \in Writers
  <2>1. [file |-> w.file, used |-> << >>, at |-> GetPos(w), append |-> w.append] \in Writers
    BY <1>1, <1>6, <1>7, WriterIs, Zenon
  <2> QED
    BY <1>5, <2>1, Zenon
<1>9. Flush(w).file = w.file /\ Flush(w).used = << >>
  BY <1>5
<1>10. Len(<< >>) <= BufferSize
  BY <1>6, SchemaFacts
<1> QED
  BY <1>8, <1>9, <1>10, Zenon DEF WriterOK

\* As long as the meta is not complete Setup refuses the file.
LEMMA NotYet == IInv /\ phase \in {"blocks", "closed", "patch", "meta"} => ~Accepts(dst.file)
<1> SUFFICES ASSUME IInv, phase \in {"blocks", "closed", "patch", "meta"} PROVE ~Accepts(dst.file)
  OBVIOUS
<1> DEFINE f == dst.file
<1>2. Types /\ WriterOK(dst) /\ f \in Seq(Items) /\ Len(f) \in Nat
  BY ContentType DEF IInv, Types
<1>3. CASE phase = "blocks"
  <2>1. Content(dst)[2] = Item("metaOff", <<0>>)
    BY <1>3 DEF IInv, InBlocks
  <2>2. \A i \in 1..Len(f) : Content(dst)[i] = f[i]
    BY <1>2, ContentType
  <2> HIDE DEF f
  <2>3. Len(f) < 2 \/ f[2] = Item("metaOff", <<0>>)
    BY <1>2, <2>1, <2>2
  <2> QED
    BY <1>2, <2>3, NoMeta DEF NoOffset, f
<1>4. CASE phase \in {"closed", "patch"}
  <2>1. f[2] = Item("metaOff", <<0>>)
    BY <1>4 DEF IInv, InClosed, InPatch, BlocksIn
  <2> QED
    BY <1>2, <2>1, NoMeta DEF NoOffset
<1>5. CASE phase = "meta"
  <2>1. /\ f[2] = Item("metaOff", <<metaOff>>) /\ Len(Content(dst)) = metaOff + done
        /\ done <= MetaSize
    BY <1>5 DEF IInv, InMeta, BlocksIn
  <2>2. Len(Content(dst)) = Len(f) + Len(dst.used) /\ Len(dst.used) \in Nat
    BY <1>2, ContentType
  <2> HIDE DEF f
  <2>3. Len(f) <= PgmAt
    <3>1. metaOff \in Nat /\ done \in Nat /\ MetaSize \in Nat
      BY <1>2, SchemaFacts DEF Types, MetaSize
    <3>2. ASSUME NEW n \in Nat, metaOff + done = Len(f) + n
          PROVE  Len(f) <= metaOff + MetaSize
      BY <1>2, <2>1, <3>1, <3>2
    <3> QED
      BY <2>1, <2>2, <3>2 DEF PgmAt
  <2> QED
    BY <1>2, <2>1, <2>3, ShortMeta DEF f
<1> QED
  BY <1>3, <1>4, <1>5

\* What Fail leaves in the file.
LEMMA Failed ==
    ASSUME IInv, Fail
    PROVE  /\ WriterOK(dst')
           /\ \/ ~Accepts(dst.file) /\ ~Accepts(dst'.file)
              \/ phase \in {"copyPgm", "copyBlocks"} /\ dst'.file = dst.file
<1>1. /\ phase \in {"blocks", "closed", "copyPgm", "copyBlocks"}
      /\ dst' = Flush(dst) /\ phase' = "failed"
      /\ UNCHANGED <<builds, distinct, tmpBlocks, tmpPgm, attr, block, blocksOffStart,
                     metaOff, done, enabled, updated>>
  BY DEF Fail, Close, builder, index
<1>2. Types /\ WriterOK(dst)
  BY DEF IInv, Types
<1>3. CASE phase = "blocks"
  <2>1. AtEnd(dst) /\ Content(dst)[2] = Item("metaOff", <<0>>)
    BY <1>3 DEF IInv, InBlocks
  <2>2. WriterOK(dst') /\ dst'.file = Content(dst)
    BY <1>1, <1>2, <2>1, FlushAtEnd
  <2>3. Len(Content(dst)) \in Nat
    BY <1>2, ContentType, LenProperties
  <2>4. ~Accepts(Content(dst))
    BY <2>1, <2>3, NoMeta DEF NoOffset
  <2> QED
    BY <1>3, <2>2, <2>4, NotYet
<1>4. CASE phase = "closed"
  <2>1. AtEnd(dst) /\ dst.used = << >> /\ BlocksIn(dst.file, 0)
    BY <1>4 DEF IInv, InClosed
  <2>2. dst.file[2] = Item("metaOff", <<0>>) /\ Len(dst.file) \in Nat
    BY <1>2, <2>1, ContentType DEF BlocksIn
  <2>3. ~Accepts(dst.file)
    BY <2>2, NoMeta DEF NoOffset
  <2>4. dst.at <= Len(dst.file)
    <3>1. \A n \in Nat : n <= n
      OBVIOUS
    <3> QED
      BY <2>1, <2>2, <3>1, Zenon DEF AtEnd
  <2>5. dst'.file = dst.file /\ WriterOK(dst')
    BY <1>1, <1>2, <2>1, <2>4, FlushNothing
  <2> QED
    BY <2>3, <2>5
<1>5. CASE phase \in {"copyPgm", "copyBlocks"}
  <2>1. Tables /\ Laid(dst.file) /\ dst.used = << >> /\ dst.at <= Len(dst.file)
    BY <1>5 DEF IInv, InCopy
  <2>2. WriterOK(dst') /\ dst'.file = dst.file
    BY <1>1, <1>2, <2>1, FlushNothing
  <2> QED
    BY <1>5, <2>2
<1> QED
  BY <1>1, <1>3, <1>4, <1>5

LEMMA FailStep == IInv /\ Fail => IInv'
<1> SUFFICES ASSUME IInv, Fail PROVE IInv'
  OBVIOUS
<1>1. /\ phase \in {"blocks", "closed", "copyPgm", "copyBlocks"}
      /\ dst' = Flush(dst) /\ phase' = "failed"
      /\ UNCHANGED <<builds, distinct, tmpBlocks, tmpPgm, attr, block, blocksOffStart,
                     metaOff, done, enabled, updated>>
  BY DEF Fail, Close, builder, index
<1>2. Types /\ WriterOK(dst)
  BY DEF IInv, Types
<1>3. WriterOK(dst') /\ (Accepts(dst'.file) => Tables /\ Laid(dst'.file))
  BY Failed DEF IInv, InCopy
<1>4. Types'
  BY <1>1, <1>2, <1>3 DEF Types, Idle
<1>5. AtRest'
  <2>1. UNCHANGED <<distinct, tmpBlocks, tmpPgm, blocksOffStart, metaOff>>
    BY <1>1
  <2> QED
    BY <1>3, <2>1, LeftBehind DEF AtRest
<1> QED
  BY <1>1, <1>4, <1>5
     DEF IInv, InBlocks, InClosed, InPatch, InMeta, InCopy, IsBuilt, IsServing

LEMMA CrashStep == IInv /\ Crash => IInv'
<1> SUFFICES ASSUME IInv, Crash PROVE IInv'
  OBVIOUS
<1> DEFINE f == dst.file
<1>1. /\ phase \in Building \cup {"serving"}
      /\ dst' = Writer(f, TRUE) /\ phase' = "idle" /\ enabled' = {} /\ updated' = FALSE
      /\ UNCHANGED <<builds, distinct, tmpBlocks, tmpPgm, attr, block, blocksOffStart,
                     metaOff, done>>
  BY DEF Crash, builder
<1>2. Types /\ WriterOK(dst) /\ f \in Seq(Items) /\ Len(f) \in Nat
  BY ContentType DEF IInv, Types
<1>3. WriterOK(dst') /\ dst'.file = f
  <2>1. dst' = [file |-> f, used |-> << >>, at |-> 0, append |-> TRUE]
    BY <1>1 DEF Writer
  <2>2. << >> \in Seq(Items) /\ Len(<< >>) <= BufferSize
    BY EmptySeq, SchemaFacts
  <2>3. dst' \in Writers
    BY <1>2, <2>1, <2>2, WriterIs
  <2>4. dst'.file = f /\ dst'.used = << >>
    BY <1>1 DEF Writer
  <2> QED
    BY <2>2, <2>3, <2>4, Zenon DEF WriterOK
<1>4. Accepts(f) => Tables /\ Laid(f)
  <2>1. CASE phase \in {"blocks", "closed", "patch", "meta"}
    BY <2>1, NotYet
  <2>4. CASE phase \in {"copyPgm", "copyBlocks"}
    BY <2>4 DEF IInv, InCopy
  <2>5. CASE phase = "serving"
    BY <2>5 DEF IInv, AtRest
  <2> QED
    BY <1>1, <2>1, <2>4, <2>5 DEF Building
<1>5. Types'
  BY <1>1, <1>2, <1>3 DEF Types, Idle
<1>6. AtRest'
  <2>1. UNCHANGED <<distinct, tmpBlocks, tmpPgm, blocksOffStart, metaOff>>
    BY <1>1
  <2> HIDE DEF f
  <2>2. Accepts(dst'.file) => Tables /\ Laid(dst'.file)
    BY <1>3, <1>4
  <2> QED
    BY <2>1, <2>2, LeftBehind DEF AtRest
<1> QED
  BY <1>1, <1>5, <1>6
     DEF IInv, InBlocks, InClosed, InPatch, InMeta, InCopy, IsBuilt, IsServing
-----------------------------------------------------------------------------
(* Serving. *)

LEMMA SetupRefusesStep == IInv /\ SetupRefuses => IInv'
<1> SUFFICES ASSUME IInv, SetupRefuses PROVE IInv'
  OBVIOUS
<1>1. /\ phase' = "refused" /\ ~Accepts(dst.file)
      /\ UNCHANGED <<builds, dst, distinct, tmpBlocks, tmpPgm, attr, block, blocksOffStart,
                     metaOff, done, enabled, updated>>
  BY DEF SetupRefuses, builder, index
<1>2. Types'
  BY <1>1 DEF IInv, Types, Idle
<1>3. ~Accepts(dst.file)'
  BY <1>1
<1> QED
  BY <1>1, <1>2, <1>3
     DEF IInv, InBlocks, InClosed, InPatch, InMeta, InCopy, AtRest, IsBuilt, IsServing

LEMMA SetupAcceptsStep == IInv /\ SetupAccepts => IInv'
<1> SUFFICES ASSUME IInv, SetupAccepts PROVE IInv'
  OBVIOUS
<1>1. /\ phase \in Idle /\ phase' = "serving" /\ Accepts(dst.file)
      /\ enabled' = StoredEnabled(dst.file) /\ updated' = FALSE
      /\ UNCHANGED <<builds, dst, distinct, tmpBlocks, tmpPgm, attr, block, blocksOffStart,
                     metaOff, done>>
  BY DEF SetupAccepts, builder
<1>2. Tables /\ Laid(dst.file)
  BY <1>1 DEF IInv, AtRest
<1>3. enabled' \subseteq Attr
  BY <1>1 DEF StoredEnabled
<1>4. Types'
  BY <1>1, <1>3 DEF IInv, Types
<1>5. AtRest'
  <2>1. UNCHANGED <<distinct, tmpBlocks, tmpPgm, blocksOffStart, metaOff>>
    BY <1>1
  <2>2. Accepts(dst'.file) => Tables /\ Laid(dst'.file)
    BY <1>1, <1>2
  <2> QED
    BY <2>1, <2>2, LeftBehind DEF AtRest
<1>6. IsServing'
  <2>1. Accepts(dst.file)' /\ StoredEnabled(dst.file)' = enabled'
    BY <1>1
  <2>2. FamilyClosed(enabled)'
    BY <1>1, <1>2 DEF Laid, FamilyClosed
  <2> QED
    BY <1>1, <2>1, <2>2 DEF IsServing
<1> QED
  BY <1>1, <1>4, <1>5, <1>6
     DEF IInv, InBlocks, InClosed, InPatch, InMeta, InCopy, IsBuilt

\* Without a whole family less, what is left is whole families.
LEMMA FamilyDisabled ==
    ASSUME NEW set, FamilyClosed(set), NEW a
    PROVE  FamilyClosed(set \ ({a} \cup Siblings(a)))
BY DEF FamilyClosed, Siblings

LEMMA ColumnUpdatedStep ==
    ASSUME NEW name
    PROVE  IInv /\ ColumnUpdated(name) => IInv'
<1> SUFFICES ASSUME IInv, ColumnUpdated(name) PROVE IInv'
  OBVIOUS
<1> DEFINE a == ColumnId(name)
<1>1. /\ phase = "serving" /\ phase' = "serving"
      /\ updated' = (updated \/ a \in enabled)
      /\ enabled' = enabled \ (IF a \in enabled THEN {a} \cup Siblings(a) ELSE {})
      /\ UNCHANGED <<builds, dst, distinct, tmpBlocks, tmpPgm, attr, block, blocksOffStart,
                     metaOff, done>>
  BY DEF ColumnUpdated, builder
<1> HIDE DEF a
<1>2. /\ Accepts(dst.file) /\ FamilyClosed(enabled) /\ Tables /\ Laid(dst.file)
      /\ ~updated => StoredEnabled(dst.file) = enabled
  BY <1>1 DEF IInv, IsServing, AtRest
<1>3. Types'
  <2>1. enabled' \subseteq enabled /\ updated' \in BOOLEAN
    BY <1>1
  <2> QED
    BY <1>1, <2>1 DEF IInv, Types
<1>4. AtRest'
  <2>1. UNCHANGED <<distinct, tmpBlocks, tmpPgm, blocksOffStart, metaOff>>
    BY <1>1
  <2>2. Accepts(dst'.file) => Tables /\ Laid(dst'.file)
    BY <1>1, <1>2
  <2> QED
    BY <2>1, <2>2, LeftBehind DEF AtRest
<1>5. IsServing'
  <2>1. FamilyClosed(enabled')
    <3>1. CASE a \in enabled
      BY <1>1, <1>2, <3>1, FamilyDisabled
    <3>2. CASE a \notin enabled
      <4>1. enabled' = enabled
        BY <1>1, <3>2
      <4> QED
        BY <1>2, <4>1
    <3> QED
      BY <3>1, <3>2
  <2>2. FamilyClosed(enabled)'
    BY <2>1 DEF FamilyClosed
  <2>3. ~updated' => StoredEnabled(dst.file)' = enabled'
    BY <1>1, <1>2
  <2>4. Accepts(dst.file)'
    BY <1>1, <1>2
  <2> QED
    BY <2>2, <2>3, <2>4 DEF IsServing
<1> QED
  BY <1>1, <1>3, <1>4, <1>5
     DEF IInv, InBlocks, InClosed, InPatch, InMeta, InCopy, IsBuilt, Idle

\* The bits alone are overwritten.
LEMMA BitsOverwritten ==
    ASSUME Types, Tables, NEW f, Laid(f), NEW set \in SUBSET Attr, FamilyClosed(set),
           NEW g, g = Overwritten(f, metaOff + 2, <<Item("bits", Bits(set))>>)
    PROVE  /\ Laid(g) /\ Len(g) = Len(f) /\ StoredEnabled(g) = set
           /\ Item("bits", Bits(set)) \in Items
<1> DEFINE item == Item("bits", Bits(set))
<1>1. N \in Nat \ {0} /\ N = Len(Schema) /\ MetaSize = 5 + N + 2 /\ metaOff \in Nat
      /\ metaOff = 2 + Total /\ Total \in Nat
  BY SchemaFacts, TotalType DEF N, MetaSize, Types, Tables
<1>2. /\ f \in Seq(Items) /\ Len(f) \in Nat /\ PgmAt \in Nat /\ PgmAt = metaOff + MetaSize
      /\ TablesAt = PgmAt + 2 * N /\ PgmAt <= Len(f)
  BY <1>1, LaidReads, LenProperties DEF PgmAt, TablesAt, Laid
<1>3. item \in Items
  <2>1. Bits(set) \in Seq(Int)
    BY SchemaFacts DEF Bits
  <2> QED
    BY <2>1, ItemType DEF Kinds
<1>4. /\ g \in Seq(Items) /\ Len(g) = Len(f)
      /\ \A i \in 1..Len(f) : g[i] = IF i = (metaOff + 2) + 1 THEN item ELSE f[i]
  <2>1. metaOff + 2 < Len(f) /\ metaOff + 2 \in Nat
    BY <1>1, <1>2
  <2> HIDE DEF item
  <2>2. ASSUME NEW pos \in Nat, pos < Len(f)
        PROVE  /\ Overwritten(f, pos, <<item>>) \in Seq(Items)
               /\ Len(Overwritten(f, pos, <<item>>)) = Len(f)
               /\ \A i \in 1..Len(f) :
                      Overwritten(f, pos, <<item>>)[i] = IF i = pos + 1 THEN item ELSE f[i]
    BY <1>2, <1>3, <2>2, OneOverwritten, Zenon
  <2> QED
    BY <2>1, <2>2 DEF item
<1>5. \A i \in 1..Len(f) : i # metaOff + 3 => g[i] = f[i]
  BY <1>1, <1>4
<1>6. g[metaOff + 3] = item
  <2>1. metaOff + 3 \in 1..Len(f) /\ metaOff + 3 = (metaOff + 2) + 1
    BY <1>1, <1>2
  <2> QED
    BY <1>4, <2>1
<1> HIDE DEF item
<1>7. BlocksIn(g, metaOff)
  <2>1. \A i \in 1..metaOff : g[i] = f[i]
    BY <1>1, <1>2, <1>5
  <2> QED
    BY <2>1, BlocksKept DEF Laid
<1>8. StoredEnabled(g) = set
  <2>1. MetaOff(g) = metaOff
    BY <1>7, ItemType DEF BlocksIn, MetaOff, Data, MetaOffPos
  <2>2. metaOff + 2 + 1 = metaOff + 3
    BY <1>1
  <2>3. Data(g, metaOff + BitsPos) = Bits(set)
    BY <1>6, <2>2, ItemType DEF Data, BitsPos, item
  <2> QED
    BY <2>1, <2>3 DEF StoredEnabled, Bits
<1>9. \A i \in 1..MetaSize : i # 3 => g[metaOff + i] = Meta[i]
  <2>1. \A i \in 1..MetaSize : metaOff + i \in 1..Len(f) /\ (i # 3 => metaOff + i # metaOff + 3)
    BY <1>1, <1>2
  <2> QED
    BY <1>5, <2>1 DEF Laid
<1>10. ASSUME NEW i \in 1..2 * N, PgmAt + i <= Len(g)
       PROVE  g[PgmAt + i] = tmpPgm.file[i]
  <2>1. PgmAt + i \in 1..Len(f) /\ PgmAt + i # metaOff + 3
    BY <1>1, <1>2, <1>4, <1>10
  <2> QED
    BY <1>4, <1>5, <1>10, <2>1 DEF Laid
<1>11. ASSUME NEW i \in 1..Total, TablesAt + i <= Len(g)
       PROVE  g[TablesAt + i] = tmpBlocks.file[i]
  <2>1. TablesAt + i \in 1..Len(f) /\ TablesAt + i # metaOff + 3
    BY <1>1, <1>2, <1>4, <1>11
  <2> QED
    BY <1>4, <1>5, <1>11, <2>1 DEF Laid
<1>12. PgmAt <= Len(g) /\ Len(g) <= TablesAt + Total
  BY <1>4 DEF Laid
<1> QED
  BY <1>3, <1>4, <1>7, <1>8, <1>9, <1>10, <1>11, <1>12 DEF Laid, item

\* What SaveMeta leaves in the file.
LEMMA Saved ==
    ASSUME IInv, SaveMeta
    PROVE  /\ WriterOK(dst') /\ Laid(dst'.file) /\ Accepts(dst'.file)
           /\ StoredEnabled(dst'.file) = enabled
<1> DEFINE f == dst.file
           item == Item("bits", Bits(enabled))
           g == Overwritten(f, metaOff + 2, <<item>>)
<1>1. /\ phase = "serving"
      /\ dst' = Flush(Write(Seek(Writer(f, FALSE), MetaOff(f) + BitsPos), item))
  BY DEF SaveMeta, Close
<1>2. /\ Accepts(f) /\ FamilyClosed(enabled) /\ Tables /\ Laid(f) /\ Types
      /\ enabled \in SUBSET Attr /\ f \in Seq(Items)
  BY <1>1 DEF IInv, IsServing, AtRest, Types, Laid
<1>3. MetaOff(f) + BitsPos = metaOff + 2 /\ metaOff + 2 \in Nat
  BY <1>2, LaidReads DEF BitsPos, Types
<1>4. Laid(g) /\ Len(g) = Len(f) /\ StoredEnabled(g) = enabled /\ item \in Items
  BY <1>2, BitsOverwritten
<1> HIDE DEF g, item
<1>5. Write(Seek(Writer(f, FALSE), MetaOff(f) + BitsPos), item)
          = [file |-> f, used |-> <<item>>, at |-> metaOff + 2, append |-> FALSE]
  <2>1. Overwriting(f, metaOff + 2, item)
    BY <1>2, <1>3, <1>4, SeekThenWrite
  <2> QED
    BY <1>3, <2>1 DEF Overwriting
<1> HIDE DEF f
<1>6. ASSUME NEW w, NEW ap, ~ap,
             w = [file |-> f, used |-> <<item>>, at |-> metaOff + 2, append |-> ap]
      PROVE  Flush(w) = [file |-> g, used |-> << >>, at |-> GetPos(w), append |-> ap]
  <2>1. w.file = f /\ w.used = <<item>> /\ w.at = metaOff + 2 /\ w.append = ap
    BY <1>6
  <2>2. Flush(w) = [w EXCEPT !.file = g, !.at = GetPos(w), !.used = << >>]
    BY <1>6, <2>1, Zenon DEF Flush, g
  <2> QED
    BY <1>6, <2>2
<1>7. PICK p \in Nat : dst' = [file |-> g, used |-> << >>, at |-> p, append |-> FALSE]
  <2> DEFINE w == Write(Seek(Writer(f, FALSE), MetaOff(f) + BitsPos), item)
  <2>1. dst' = Flush(w)
    BY <1>1 DEF f, item
  <2>2. w = [file |-> f, used |-> <<item>>, at |-> metaOff + 2, append |-> FALSE]
    BY <1>5
  <2> HIDE DEF w
  <2>3. Flush(w) = [file |-> g, used |-> << >>, at |-> GetPos(w), append |-> FALSE]
    BY <1>6, <2>2, Zenon
  <2>4. GetPos(w) \in Nat
    <3>1. w.at = metaOff + 2 /\ w.used = <<item>>
      BY <2>2
    <3>2. GetPos(w) = (metaOff + 2) + Len(<<item>>)
      BY <3>1 DEF GetPos
    <3> QED
      BY <1>3, <3>2
  <2> QED
    BY <2>1, <2>3, <2>4, Zenon
<1>8. WriterOK(dst')
  <2>1. << >> \in Seq(Items) /\ Len(<< >>) <= BufferSize
    BY EmptySeq, SchemaFacts
  <2>2. g \in Seq(Items)
    BY <1>4 DEF Laid
  <2>3. dst' \in Writers
    BY <1>7, <2>1, <2>2, WriterIs
  <2>4. dst'.used = << >>
    BY <1>7
  <2> QED
    BY <2>1, <2>3, <2>4, Zenon DEF WriterOK
<1>9. dst'.file = g
  BY <1>7
<1>10. Accepts(g)
  <2>1. Laid(f) /\ Accepts(f)
    BY <1>2 DEF f
  <2>2. Len(f) = TablesAt + Total
    BY <1>2, <2>1, LaidAccepts
  <2>3. Len(g) = TablesAt + Total
    BY <1>4, <2>2 DEF f
  <2> QED
    BY <1>2, <1>4, <2>3, LaidAccepts
<1> QED
  BY <1>4, <1>8, <1>9, <1>10, Zenon

LEMMA SaveMetaStep == IInv /\ SaveMeta => IInv'
<1> SUFFICES ASSUME IInv, SaveMeta PROVE IInv'
  OBVIOUS
<1>1. /\ phase = "serving" /\ phase' = "serving" /\ updated
      /\ UNCHANGED <<builds, distinct, tmpBlocks, tmpPgm, attr, block, blocksOffStart,
                     metaOff, done, enabled, updated>>
  BY DEF SaveMeta, builder, index
<1>2. /\ WriterOK(dst') /\ Laid(dst'.file) /\ Accepts(dst'.file)
      /\ Accepts(dst.file) /\ FamilyClosed(enabled) /\ Tables
  BY <1>1, Saved DEF IInv, IsServing, AtRest
<1>3. Types'
  BY <1>1, <1>2 DEF IInv, Types
<1>4. AtRest'
  <2>1. UNCHANGED <<distinct, tmpBlocks, tmpPgm, blocksOffStart, metaOff>>
    BY <1>1
  <2> QED
    BY <1>2, <2>1, LeftBehind DEF AtRest
<1>5. IsServing'
  <2>1. FamilyClosed(enabled)' /\ Accepts(dst.file)'
    BY <1>1, <1>2 DEF FamilyClosed
  <2> QED
    BY <1>1, <2>1 DEF IsServing
<1> QED
  BY <1>1, <1>3, <1>4, <1>5
     DEF IInv, InBlocks, InClosed, InPatch, InMeta, InCopy, IsBuilt, Idle
-----------------------------------------------------------------------------
(* Every step. *)

LEMMA StutteringStep == IInv /\ UNCHANGED vars => IInv'
<1> SUFFICES ASSUME IInv, UNCHANGED vars PROVE IInv'
  OBVIOUS
<1>1. UNCHANGED <<phase, builds, dst, distinct, tmpBlocks, tmpPgm, attr, block, blocksOffStart,
                  metaOff, done, enabled, updated>>
  BY DEF vars, builder, index
<1>2. /\ Tables' <=> Tables
      /\ \A f, off : BlocksIn(f, off)' <=> BlocksIn(f, off)
      /\ \A f : Laid(f)' <=> Laid(f)
      /\ PgmAt' = PgmAt /\ TablesAt' = TablesAt /\ Total' = Total /\ Meta' = Meta
  BY <1>1, SameTables
<1>3. Types'
  BY <1>1 DEF IInv, Types
<1>4. InBlocks'
  <2>1. \A a : Count(a)' = Count(a)
    BY <1>1 DEF Count
  <2>2. Written' = Written /\ \A k : StartsOK(k)' <=> StartsOK(k)
    BY <1>1, <1>2, <2>1 DEF Written, StartsOK
  <2>3. \A a, b : Out(a, b)' <=> Out(a, b)
    BY <1>1, <2>1 DEF Out
  <2>4. InBlocks
    BY DEF IInv
  <2> QED
    BY <1>1, <2>1, <2>2, <2>3, <2>4 DEF InBlocks, BlockIn, OffsetIn
<1>5. InClosed'
  BY <1>1, <1>2 DEF IInv, InClosed
<1>6. InPatch'
  BY <1>1, <1>2 DEF IInv, InPatch
<1>7. InMeta'
  BY <1>1, <1>2 DEF IInv, InMeta
<1>8. InCopy'
  BY <1>1, <1>2 DEF IInv, InCopy
<1>9. AtRest' /\ IsBuilt'
  BY <1>1, <1>2 DEF IInv, AtRest, IsBuilt
<1>10. IsServing'
  BY <1>1 DEF IInv, IsServing, FamilyClosed
<1> QED
  BY <1>3, <1>4, <1>5, <1>6, <1>7, <1>8, <1>9, <1>10 DEF IInv

LEMMA Inductive == IInv /\ [Next]_vars => IInv'
<1> SUFFICES ASSUME IInv, [Next]_vars PROVE IInv'
  OBVIOUS
<1>1. CASE Build
  BY <1>1, StartStep, WriteBlockStep, EndAttrStep, CloseAllStep, WriteMetaOffStep, SeekMetaStep,
     WriteMetaStep, CopyPgmStep, CopyBlocksStep DEF Build
<1>2. CASE Fail
  BY <1>2, FailStep
<1>3. CASE Crash
  BY <1>3, CrashStep
<1>4. CASE SetupRefuses
  BY <1>4, SetupRefusesStep
<1>5. CASE SetupAccepts
  BY <1>5, SetupAcceptsStep
<1>6. CASE SaveMeta
  BY <1>6, SaveMetaStep
<1>7. CASE \E name \in Name : ColumnUpdated(name)
  BY <1>7, ColumnUpdatedStep
<1>8. CASE UNCHANGED vars
  BY <1>8, StutteringStep
<1> QED
  BY <1>1, <1>2, <1>3, <1>4, <1>5, <1>6, <1>7, <1>8 DEF Next

LEMMA Invariance == Spec => []IInv
<1> QED
  BY Initially, Inductive, PTL DEF Spec
-----------------------------------------------------------------------------
(* The results. *)

\* Every variable of the builder and of the open index keeps its type, and no buffer
\* of a writer is ever fuller than it is large.
THEOREM TypeCorrect == Spec => []TypeOK
<1>1. IInv => TypeOK
  <2> SUFFICES ASSUME IInv PROVE TypeOK
    OBVIOUS
  <2>1. ASSUME NEW w, WriterOK(w)
        PROVE  /\ DOMAIN w = {"file", "used", "at", "append"}
               /\ \A i \in DOMAIN w.file : w.file[i].data \in Seq(Int)
               /\ Len(w.used) <= BufferSize
               /\ w.at \in Nat /\ w.append \in BOOLEAN
    <3>1. w \in Writers /\ Len(w.used) <= BufferSize
      BY <2>1 DEF WriterOK
    <3>2. w.file \in Seq(Items) /\ w.at \in Nat /\ w.append \in BOOLEAN
      BY <3>1 DEF Writers
    <3>3. DOMAIN w = {"file", "used", "at", "append"}
      BY <3>1 DEF Writers
    <3>4. \A i \in DOMAIN w.file : w.file[i] \in Items
      BY <3>2
    <3> QED
      BY <3>1, <3>2, <3>3, <3>4 DEF Items
  <2> QED
    BY <2>1 DEF IInv, Types, TypeOK, N
<1> QED
  BY <1>1, Invariance, PTL

\* A file that Setup takes is a whole one, wherever the builder stopped, failed or
\* died: every query finds behind the tables the blocks and the PGM of its attribute.
THEOREM AcceptedAreWhole == Spec => []AcceptedIsWhole
<1>1. IInv => AcceptedIsWhole
  <2> SUFFICES ASSUME IInv PROVE AcceptedIsWhole
    OBVIOUS
  <2>1. CASE Accepts(dst.file)
    <3>1. Tables /\ Laid(dst.file)
      <4>1. CASE phase \in Idle \cup {"serving"}
        BY <2>1, <4>1 DEF IInv, AtRest
      <4>2. CASE phase \in {"blocks", "closed", "patch", "meta"}
        BY <2>1, <4>2, NotYet
      <4>3. CASE phase \in {"copyPgm", "copyBlocks"}
        BY <4>3 DEF IInv, InCopy
      <4> QED
        BY <4>1, <4>2, <4>3 DEF IInv, Types, Building
    <3> QED
      BY <2>1, <3>1, LaidIsWhole DEF IInv
  <2>2. CASE ~Accepts(dst.file)
    BY <2>2 DEF AcceptedIsWhole
  <2> QED
    BY <2>1, <2>2
<1> QED
  BY <1>1, Invariance, PTL

\* When Done returns true, Setup takes the file, with every attribute enabled.
THEOREM BuiltAreAccepted == Spec => []BuiltIsAccepted
<1>1. IInv => BuiltIsAccepted
  BY DEF IInv, IsBuilt, BuiltIsAccepted
<1> QED
  BY <1>1, Invariance, PTL

\* SaveMeta never returns true over a file that still has an updated attribute enabled:
\* what m_bUpdated does not remember is on disk.
THEOREM NoUpdateLost == Spec => []NoLostUpdate
<1>1. IInv => NoLostUpdate
  BY DEF IInv, IsServing, NoLostUpdate
<1> QED
  BY <1>1, Invariance, PTL

\* The attribute that a name leads to is one of that name.
LEMMA ColumnIdNamed ==
    ASSUME NEW name, Named(name) # {}
    PROVE  ColumnId(name) \in Named(name)
<1>1. Named(name) \subseteq Nat
  BY SchemaFacts DEF Named
<1>2. \E a \in Named(name) : \A b \in Named(name) : a <= b
  <2> HIDE DEF Named
  <2> QED BY <1>1, LeastNatural
<1> QED
  BY <1>2, Zenon DEF ColumnId

\* What is smaller than a width stays in it; -1 becomes the largest number of it.
LEMMA RemainderOfSmall ==
    ASSUME NEW m \in Nat, NEW x \in 0 .. m
    PROVE  x % (m + 1) = x
<1> DEFINE d == m + 1
           q == x \div d
           r == x % d
<1>1. d \in Nat \ {0} /\ x \in Nat /\ x < d
  OBVIOUS
<1> HIDE DEF d
<1>2. x = d * q + r /\ r \in 0 .. d - 1 /\ q \in Int
  BY <1>1
<1> HIDE DEF q, r
<1>3. q = 0
  <2>1. q >= 1 => d * q >= d
    BY <1>1, <1>2
  <2>2. q <= -1 => d * q <= -d
    BY <1>1, <1>2
  <2> QED
    BY <1>1, <1>2, <2>1, <2>2
<1>4. r = x
  BY <1>1, <1>2, <1>3
<1> QED
  BY <1>4 DEF r, d

LEMMA RemainderOfMinusOne ==
    ASSUME NEW m \in Nat
    PROVE  (-1) % (m + 1) = m
<1> DEFINE d == m + 1
           q == (-1) \div d
           r == (-1) % d
<1>1. d \in Nat \ {0}
  OBVIOUS
<1> HIDE DEF d
<1>2. -1 = d * q + r /\ r \in 0 .. d - 1 /\ q \in Int
  BY <1>1
<1> HIDE DEF q, r
<1>3. q = -1
  <2>1. q >= 0 => d * q >= 0
    BY <1>1, <1>2
  <2>2. q <= -2 => d * q <= -(2 * d)
    BY <1>1, <1>2
  <2> QED
    BY <1>1, <1>2, <2>1, <2>2
<1>4. r = d - 1
  BY <1>1, <1>2, <1>3
<1> QED
  BY <1>4 DEF r, d

\* The numbers of values that are built keep the assumption on them.
Counts == \A a \in Attr : distinct[a] < CountMax

LEMMA CountsStay == Spec => []Counts
<1>1. Init => Counts
  BY CountAssumption DEF Init, Counts
<1>2. ASSUME Counts, [Next]_vars PROVE Counts'
  <2>1. distinct' = distinct \/ distinct' \in Distinct
    BY <1>2 DEF Next, Build, Start, WriteBlock, EndAttr, CloseAll, WriteMetaOff, SeekMeta, WriteMeta,
                CopyPgm, CopyBlocks, Copy, Fail, Crash, SetupRefuses, SetupAccepts, SaveMeta,
                ColumnUpdated, vars, builder
  <2> QED
    BY <1>2, <2>1, CountAssumption DEF Counts, Attr
<1> QED
  BY <1>1, <1>2, PTL DEF Spec

\* NamesAgree: the planner gets one answer for a JSON column, whichever of its names it
\* asks for, and the number of values an attribute was built with while it is enabled.
THEOREM AllNamesAgree == Spec => []NamesAgree
<1>1. IInv /\ Counts => NamesAgree
  <2> SUFFICES ASSUME IInv, Counts, phase = "serving" PROVE
        /\ \A name \in Name : \A a \in Named(name) : IsEnabled(name) = (a \in enabled)
        /\ \A name \in Name :
              (GetCountDistinct(name) = distinct[ColumnId(name)]) = IsEnabled(name)
    BY DEF NamesAgree
  <2>1. FamilyClosed(enabled) /\ Accepts(dst.file) /\ Tables /\ Laid(dst.file) /\ Types
    BY DEF IInv, IsServing, AtRest
  <2>2. ASSUME NEW name \in Name, NEW a \in Named(name)
        PROVE  IsEnabled(name) = (a \in enabled)
    <3> DEFINE c == ColumnId(name)
    <3>1. c \in Named(name)
      BY <2>2, ColumnIdNamed
    <3> HIDE DEF c
    <3>2. a \in Attr /\ c \in Attr
      BY <2>2, <3>1 DEF Named
    <3>3. CASE \E d \in Attr : Schema[d].name = name
      <4>1. Schema[a].parent # name /\ Schema[c].parent # name
        BY <3>2, <3>3, FileAssumption DEF Attr
      <4>2. Schema[a].name = name /\ Schema[c].name = name
        BY <2>2, <3>1, <4>1 DEF Named
      <4>3. a = c
        BY <3>2, <4>2, FileAssumption DEF Attr
      <4> QED
        BY <4>3 DEF IsEnabled, c
    <3>4. CASE ~ \E d \in Attr : Schema[d].name = name
      <4>1. name # NoParent
        BY <2>2, <3>4 DEF Name
      <4>2. Schema[a].parent = name /\ Schema[c].parent = name
        BY <2>2, <3>1, <3>4 DEF Named
      <4>3. c \in Siblings(a)
        BY <3>2, <4>1, <4>2 DEF Siblings
      <4>4. a \in enabled <=> c \in enabled
        BY <2>1, <3>2, <4>3 DEF FamilyClosed
      <4> QED
        BY <4>4 DEF IsEnabled, c
    <3> QED
      BY <3>3, <3>4
  <2>3. ASSUME NEW name \in Name
        PROVE  (GetCountDistinct(name) = distinct[ColumnId(name)]) = IsEnabled(name)
    <3> DEFINE c == ColumnId(name)
               w == CountMax + 1
    <3>1. c \in Attr
      <4>1. Named(name) # {}
        BY <2>3 DEF Name, Named
      <4> QED
        BY <4>1, ColumnIdNamed DEF Named
    <3> HIDE DEF c
    <3>2. StoredDistinct(dst.file, c) = distinct[c]
      BY <2>1, <3>1, LaidReads
    <3>3. distinct[c] \in 0 .. CountMax - 1 /\ CountMax \in Nat
      BY <2>1, <3>1, CountAssumption DEF Types, Counts
    <3>4. GetCountDistinct(name) = (IF IsEnabled(name) THEN distinct[c] ELSE -1) % w
      BY <3>2, Zenon DEF GetCountDistinct, c
    <3>5. distinct[c] % w = distinct[c]
      BY <3>3, RemainderOfSmall
    <3>6. (-1) % w = CountMax
      BY <3>3, RemainderOfMinusOne
    <3> HIDE DEF w
    <3>7. CASE IsEnabled(name)
      <4>1. GetCountDistinct(name) = distinct[c]
        BY <3>4, <3>5, <3>7
      <4> QED
        BY <3>7, <4>1 DEF c, IsEnabled
    <3>8. CASE ~IsEnabled(name)
      <4>1. GetCountDistinct(name) # distinct[c]
        BY <3>3, <3>4, <3>6, <3>8
      <4> QED
        BY <3>8, <4>1 DEF c, IsEnabled
    <3> QED
      BY <3>7, <3>8
  <2> QED
    BY <2>2, <2>3
<1> QED
  BY <1>1, Invariance, CountsStay, PTL
-----------------------------------------------------------------------------
(* The file and the index over it, as the owner of the index sees them. *)

Whole == Accepts(dst.file)
Open == phase = "serving"
OnDisk == IF Whole THEN Attr \ StoredEnabled(dst.file) ELSE {}
InMemory == IF Open THEN Attr \ enabled ELSE {}

LifeStep == [Life!Next]_(Life!vars)

LEMMA LifeStutters ==
    ASSUME Whole' = Whole, Open' = Open, OnDisk' = OnDisk, InMemory' = InMemory
    PROVE  LifeStep
BY DEF LifeStep, Life!vars, Whole, Open, OnDisk, InMemory

\* A builder that does not make the file whole changes nothing that can be seen.
LEMMA NothingSeen ==
    ASSUME ~Whole, ~Whole', ~Open, ~Open'
    PROVE  LifeStep
<1>1. Whole' = Whole
  BY DEF Whole, Accepts
<1>2. OnDisk' = OnDisk /\ Open' = Open /\ InMemory' = InMemory
  BY DEF OnDisk, Open, InMemory
<1> QED
  BY <1>1, <1>2, LifeStutters

LEMMA FileUntouched ==
    ASSUME dst'.file = dst.file, ~Open, ~Open'
    PROVE  LifeStep
<1>1. Whole' = Whole /\ OnDisk' = OnDisk
  BY DEF Whole, OnDisk
<1>2. Open' = Open /\ InMemory' = InMemory
  BY DEF Open, InMemory
<1> QED
  BY <1>1, <1>2, LifeStutters

\* As soon as Setup would take it, the file has every attribute enabled.
LEMMA Published ==
    ASSUME ~Whole, Whole', StoredEnabled(dst.file)' = Attr, ~Open, ~Open'
    PROVE  LifeStep
BY DEF LifeStep, Life!Next, Life!Publish, Whole, Open

\* Until the meta is complete no step of the builder is seen.
LEMMA NotYetNext == (IInv /\ phase \in {"blocks", "closed", "patch", "meta"} => ~Accepts(dst.file))'
BY NotYet, PTL

\* A copy that has nothing left to do does not touch the file.
LEMMA CopyOver ==
    ASSUME IInv, CopyPgm \/ CopyBlocks, Whole
    PROVE  dst' = dst
<1>1. phase \in {"copyPgm", "copyBlocks"} /\ Types /\ Tables /\ Laid(dst.file)
  BY DEF CopyPgm, CopyBlocks, Copy, IInv, InCopy
<1>2. Len(dst.file) = TablesAt + Total
  BY <1>1, LaidAccepts DEF Whole
<1>3. PgmAt \in Nat /\ TablesAt = PgmAt + 2 * N /\ Total \in Nat /\ N \in Nat /\ done \in Nat
  BY <1>1, LaidReads, TotalType, SchemaFacts DEF Tables, TablesAt, N, Types
<1>4. CASE CopyPgm
  <2>1. phase = "copyPgm" /\ Len(dst.file) = PgmAt + done /\ Len(tmpPgm.file) = 2 * N
    BY <1>1, <1>4 DEF CopyPgm, Copy, IInv, InCopy, Tables
  <2>2. ~(done < 2 * N)
    BY <1>2, <1>3, <2>1
  <2> QED
    BY <1>4, <2>1, <2>2 DEF CopyPgm, Copy
<1>5. CASE CopyBlocks
  <2>1. phase = "copyBlocks" /\ Len(dst.file) = TablesAt + done /\ Len(tmpBlocks.file) = Total
    BY <1>1, <1>5 DEF CopyBlocks, Copy, IInv, InCopy, Tables
  <2>2. ~(done < Total)
    BY <1>2, <1>3, <2>1
  <2> QED
    BY <1>5, <2>1, <2>2 DEF CopyBlocks, Copy
<1> QED
  BY <1>4, <1>5

LEMMA BuildLife == IInv /\ IInv' /\ Build => LifeStep
<1> SUFFICES ASSUME IInv, IInv', Build PROVE LifeStep
  OBVIOUS
<1>1. CASE Start
  <2>1. phase \in Idle /\ phase' = "blocks" /\ UNCHANGED <<enabled, updated>>
    BY <1>1 DEF Start, index
  <2>2. ~Whole' /\ ~Open /\ ~Open'
    BY <2>1, NotYetNext DEF Whole, Open, Idle
  <2>3. CASE Whole
    BY <2>2, <2>3 DEF LifeStep, Life!Next, Life!Discard, Whole, Open
  <2>4. CASE ~Whole
    BY <2>2, <2>4, NothingSeen
  <2> QED
    BY <2>3, <2>4
<1>2. CASE WriteBlock \/ EndAttr \/ CloseAll \/ WriteMetaOff \/ SeekMeta
  <2>1. /\ phase \in {"blocks", "closed", "patch", "meta"}
        /\ phase' \in {"blocks", "closed", "patch", "meta"}
    BY <1>2 DEF WriteBlock, EndAttr, CloseAll, WriteMetaOff, SeekMeta
  <2>2. ~Whole /\ ~Whole' /\ ~Open /\ ~Open'
    BY <2>1, NotYet, NotYetNext DEF Whole, Open
  <2> QED
    BY <2>2, NothingSeen
<1>3. CASE WriteMeta \/ CopyPgm \/ CopyBlocks
  <2>1. /\ phase \in {"meta", "copyPgm", "copyBlocks"}
        /\ phase' \in {"meta", "copyPgm", "copyBlocks", "built"}
    BY <1>3 DEF WriteMeta, CopyPgm, CopyBlocks, Copy
  <2>2. ~Open /\ ~Open'
    BY <2>1 DEF Open
  <2>3. Whole => StoredEnabled(dst.file) = Attr /\ (CopyPgm \/ CopyBlocks)
    <3>1. CASE phase = "meta"
      BY <3>1, NotYet DEF Whole
    <3>2. CASE phase # "meta"
      BY <1>3, <2>1, <3>2 DEF WriteMeta, IInv, InCopy
    <3> QED
      BY <3>1, <3>2
  <2>4. Whole' => StoredEnabled(dst.file)' = Attr
    <3>1. CASE phase' = "meta"
      BY <3>1, NotYetNext DEF Whole
    <3>2. CASE phase' # "meta"
      BY <2>1, <3>2 DEF IInv, InCopy, IsBuilt
    <3> QED
      BY <3>1, <3>2
  <2>5. CASE Whole
    <3>1. dst'.file = dst.file
      BY <2>3, <2>5, CopyOver
    <3> QED
      BY <2>2, <3>1, FileUntouched
  <2>6. CASE ~Whole
    BY <2>2, <2>4, <2>6, NothingSeen, Published
  <2> QED
    BY <2>5, <2>6
<1> QED
  BY <1>1, <1>2, <1>3 DEF Build

LEMMA FailLife == IInv /\ Fail => LifeStep
<1> SUFFICES ASSUME IInv, Fail PROVE LifeStep
  OBVIOUS
<1>1. phase \in {"blocks", "closed", "copyPgm", "copyBlocks"} /\ phase' = "failed"
  BY DEF Fail
<1>2. ~Open /\ ~Open'
  BY <1>1 DEF Open
<1>3. CASE ~Accepts(dst.file) /\ ~Accepts(dst'.file)
  BY <1>2, <1>3, NothingSeen DEF Whole
<1>4. CASE dst'.file = dst.file
  BY <1>2, <1>4, FileUntouched
<1> QED
  BY <1>3, <1>4, Failed

LEMMA CrashLife == Crash => LifeStep
<1> SUFFICES ASSUME Crash PROVE LifeStep
  OBVIOUS
<1>1. dst' = Writer(dst.file, TRUE) /\ phase' = "idle"
  BY DEF Crash
<1>2. dst'.file = dst.file
  BY <1>1 DEF Writer
<1>3. Whole' = Whole /\ OnDisk' = OnDisk /\ ~Open' /\ InMemory' = {}
  BY <1>1, <1>2 DEF Whole, OnDisk, Open, InMemory
<1>4. CASE Open
  BY <1>3, <1>4 DEF LifeStep, Life!Next, Life!Crash, Whole, OnDisk, Open, InMemory
<1>5. CASE ~Open
  BY <1>3, <1>5, LifeStutters DEF InMemory, Open
<1> QED
  BY <1>4, <1>5

LEMMA SetupLife == SetupRefuses \/ SetupAccepts => LifeStep
<1> SUFFICES ASSUME SetupRefuses \/ SetupAccepts PROVE LifeStep
  OBVIOUS
<1>1. phase \in Idle /\ dst' = dst /\ ~Open
  BY DEF SetupRefuses, SetupAccepts, Open, Idle
<1>2. Whole' = Whole /\ OnDisk' = OnDisk
  BY <1>1 DEF Whole, OnDisk
<1>3. CASE SetupRefuses
  <2>1. ~Open'
    BY <1>3 DEF SetupRefuses, Open
  <2> QED
    BY <1>1, <1>2, <2>1, LifeStutters DEF InMemory, Open
<1>4. CASE SetupAccepts
  <2>1. Whole /\ Open' /\ enabled' = StoredEnabled(dst.file)
    BY <1>4 DEF SetupAccepts, Whole, Open
  <2>2. InMemory' = OnDisk
    BY <2>1 DEF InMemory, OnDisk
  <2> QED
    BY <1>1, <1>2, <2>1, <2>2 DEF LifeStep, Life!Next, Life!Open, Whole, OnDisk, Open, InMemory
<1> QED
  BY <1>3, <1>4

LEMMA UpdateLife ==
    ASSUME NEW name
    PROVE  IInv /\ ColumnUpdated(name) => LifeStep
<1> SUFFICES ASSUME IInv, ColumnUpdated(name) PROVE LifeStep
  OBVIOUS
<1> DEFINE a == ColumnId(name)
<1>1. /\ phase = "serving" /\ phase' = "serving" /\ dst' = dst
      /\ enabled' = enabled \ (IF a \in enabled THEN {a} \cup Siblings(a) ELSE {})
  BY DEF ColumnUpdated
<1> HIDE DEF a
<1>2. Whole' = Whole /\ OnDisk' = OnDisk /\ Open /\ Open'
  BY <1>1 DEF Whole, OnDisk, Open
<1>3. CASE a \in enabled
  <2>1. a \in Attr /\ Siblings(a) \subseteq Attr
    BY <1>3 DEF IInv, Types, Siblings
  <2>2. InMemory' = InMemory \cup ({a} \cup Siblings(a))
    BY <1>1, <1>2, <1>3, <2>1 DEF InMemory
  <2>3. [b \in Attr |-> {b} \cup Siblings(b)][a] = {a} \cup Siblings(a)
    BY <2>1
  <2>4. Life!Update(a)
    BY <1>2, <2>2, <2>3 DEF Life!Update, Whole, OnDisk, Open, InMemory
  <2> QED
    BY <2>1, <2>4 DEF LifeStep, Life!Next
<1>4. CASE a \notin enabled
  <2>1. enabled' = enabled
    BY <1>1, <1>4
  <2> QED
    BY <1>2, <2>1, LifeStutters DEF InMemory, Open
<1> QED
  BY <1>3, <1>4

LEMMA SaveLife == IInv /\ SaveMeta => LifeStep
<1> SUFFICES ASSUME IInv, SaveMeta PROVE LifeStep
  OBVIOUS
<1>1. phase = "serving" /\ phase' = phase /\ enabled' = enabled
  BY DEF SaveMeta, index
<1>2. Accepts(dst.file) /\ Accepts(dst'.file) /\ StoredEnabled(dst'.file) = enabled
  BY <1>1, Saved DEF IInv, IsServing
<1>3. Whole /\ Whole' /\ Open /\ Open'
  BY <1>1, <1>2 DEF Whole, Open
<1>4. InMemory' = InMemory /\ OnDisk' = InMemory
  BY <1>1, <1>2, <1>3 DEF InMemory, OnDisk, Whole, Open
<1> QED
  BY <1>3, <1>4 DEF LifeStep, Life!Next, Life!Save, Whole, OnDisk, Open, InMemory

LEMMA Stepwise == IInv /\ [Next]_vars => IInv' /\ LifeStep
<1> SUFFICES ASSUME IInv, [Next]_vars PROVE IInv' /\ LifeStep
  OBVIOUS
<1>1. IInv'
  BY Inductive
<1>2. CASE UNCHANGED vars
  <2>1. phase' = phase /\ dst' = dst /\ enabled' = enabled
    BY <1>2 DEF vars, index
  <2>2. LifeStep
    BY <2>1, LifeStutters DEF Whole, OnDisk, Open, InMemory
  <2> QED
    BY <1>1, <2>2
<1>3. CASE Next
  BY <1>1, <1>3, BuildLife, FailLife, CrashLife, SetupLife, UpdateLife, SaveLife DEF Next
<1> QED
  BY <1>2, <1>3

\* The file and the index over it are what IndexLife promises: the file becomes whole in
\* one step of its builder and is never less until it is built again, an update disables
\* a family for as long as the index is open, and a save makes durable what is disabled.
THEOREM LifeRefinement == Spec => ImplementsLife
<1>1. Init => Life!Init
  <2> SUFFICES ASSUME Init PROVE Life!Init
    OBVIOUS
  <2>1. phase = "idle" /\ dst.file = << >> /\ Len(<< >>) = 0
    BY EmptySeq DEF Init, Writer
  <2>2. ~Accepts(dst.file)
    BY <2>1, NoMeta DEF NoOffset
  <2> QED
    BY <2>1, <2>2 DEF Life!Init
<1> QED
  BY <1>1, Initially, Stepwise, PTL DEF Spec, ImplementsLife, Life!Spec, LifeStep
=============================================================================
