------------------------------ MODULE ColumnVar ------------------------------
(***************************************************************************)
(* A column of sets of integers ("mva"), of vectors of floats for search   *)
(* of neighbours ("knn") or of strings ("str"): what its packer makes of a *)
(* block (columnar/builder/buildermva.cpp, builderstr.cpp), how its        *)
(* accessor reads a value or its length back, and how its analyzer tests   *)
(* the values of a block (columnar/accessor/accessormva.cpp,               *)
(* accessorstr.cpp).  The strings of a sub-block are not read at once: the *)
(* accessor reads on from where the reader is if it is asked for the next  *)
(* one, and seeks if it is asked for another.                              *)
(***************************************************************************)
EXTENDS VarBlocks, ColumnBase

VarValue == Seq(0..(Word - 1))

SetFilter == [type : {"VALUES"}, values : Seq(Nat), exclude : BOOLEAN, aggr : {"ANY", "ALL"}]
               \cup [type : {"RANGE"}, min : Int, max : Int, leftClosed : BOOLEAN, rightClosed : BOOLEAN,
                     exclude : BOOLEAN, aggr : {"ANY", "ALL"}]

Ascending(v) == \A i \in 1..(Len(v) - 1) : v[i] < v[i + 1]

\* Sets come in ascending order, as do the values of a filter.  There is no
\* analyzer for vectors (Columnar_c::CreateAnalyzer).
ASSUME VarCasesAssumption ==
    /\ MvaCases \subseteq [kind : {"mva", "knn"}, docs : Seq(VarValue), filter : SetFilter, uses : SUBSET Uses]
    /\ \A c \in MvaCases :
          /\ c.docs # << >>
          /\ c.kind = "knn" => c.uses = {"iterate"}
          /\ c.kind = "mva" => \A i \in DOMAIN c.docs : Ascending(c.docs[i])
          /\ c.filter.type = "VALUES" => Ascending(c.filter.values) /\ c.filter.values # << >>
    /\ StrCases \subseteq [kind : {"str"}, docs : Seq(VarValue),
                           filter : [type : {"STRINGS"}, values : Seq(VarValue), exclude : BOOLEAN],
                           uses : SUBSET Uses]
    /\ \A c \in StrCases : c.docs # << >> /\ c.filter.values # << >>

-----------------------------------------------------------------------------
\* The packers: constLen is -1 if lengths differ.
NoStatsVar == [uniques |-> {}, constLen |-> -1, sorted |-> TRUE]

\* A set is taken to be in order if none of its values is less than its first.
AnalyzeCollectedVar(s, v) ==
    [uniques  |-> SeenValue(s.uniques, v),
     constLen |-> IF s.uniques = {} \/ s.constLen = Len(v) THEN Len(v) ELSE -1,
     sorted   |-> s.sorted /\ \A i \in DOMAIN v : v[i] >= v[1]]

\* A column of vectors has no tables, and does not compress vectors of one length.
ChoosePackingMva(s) ==
    CASE Cardinality(s.uniques) = 1 -> "CONST"
      [] Cardinality(s.uniques) \in 2..(TableLimit - 1) /\ kind # "knn" -> "TABLE"
      [] OTHER -> IF s.constLen = -1 THEN "DELTA_PFOR"
                  ELSE IF kind = "knn" THEN "CONSTLEN_NONCOMPRESSED" ELSE "CONSTLEN"

WriteToFileMva(values, s) ==
    LET packing == ChoosePackingMva(s)
    IN  CASE packing = "CONST"      -> WriteMva_Const(values, s.sorted)
          [] packing = "TABLE"      -> WriteMva_Table(values, s.uniques, s.sorted)
          [] packing = "CONSTLEN"   -> WriteMva_ConstLen(values, s.sorted)
          [] packing = "DELTA_PFOR" -> WriteMva_DeltaPFOR(values, s.sorted)
          [] packing = "CONSTLEN_NONCOMPRESSED" -> WriteMva_ConstLenNonPacked(values, s.sorted)

ChoosePackingStr(s) ==
    CASE Cardinality(s.uniques) = 1 -> "CONST"
      [] Cardinality(s.uniques) \in 2..(TableLimit - 1) -> "TABLE"
      [] OTHER -> IF s.constLen = -1 THEN "GENERIC" ELSE "CONSTLEN"

WriteToFileStr(values, s) ==
    LET packing == ChoosePackingStr(s)
    IN  CASE packing = "CONST"    -> WriteStr_Const(values)
          [] packing = "TABLE"    -> WriteStr_Table(values, s.uniques)
          [] packing = "CONSTLEN" -> WriteStr_ConstLen(values)
          [] packing = "GENERIC"  -> WriteStr_Generic(values)

-----------------------------------------------------------------------------
\* Accessor_MVA_T: each header says whether its sets are deltas.
SetCurBlockMva(at, w) ==
    CASE w.packing = "CONST" ->
            [at EXCEPT !.const = ApplyInverseDeltas(<<DecodeValues_PFOR(w.body)>>, w.sorted)[1]]
      [] w.packing = "TABLE" ->
            [at EXCEPT !.table = ApplyInverseDeltas(PrecalcSizeOffset(DecodeValues_PFOR(w.lens),
                                                                      DecodeValues_PFOR(w.table)), w.sorted),
                       !.fixedId = -1]
      [] OTHER ->
            [at EXCEPT !.sizes = ComputeInverseDeltas(w.sizes, TRUE), !.len = w.len, !.sorted = w.sorted,
                       !.sizedId = -1]

ReadSubblockMva(a, sb) ==
    LET chunk == ReadSized(blocks[a.block + 1].body, a.sizes, sb)
    IN  CASE a.packing = "CONST" -> a
          [] a.packing = "TABLE" -> ReadFixedSubblock(a, sb)
          [] OTHER -> IF a.sizedId = sb THEN a ELSE
               [a EXCEPT !.sizedId = sb,
                         !.sized = IF a.packing = "DELTA_PFOR"
                                   THEN DecodeMva_DeltaPFOR(a.sorted, chunk, NumValues(a, sb))
                                   ELSE DecodeMva_ConstLen(a.packing, a.len, a.sorted, chunk, NumValues(a, sb))]

ReadValueMva(a, i) ==
    CASE a.packing = "CONST" -> a.const
      [] a.packing = "TABLE" -> a.table[a.fixed[i] + 1]
      [] OTHER               -> a.sized[i]

-----------------------------------------------------------------------------
\* Accessor_String_T.  The reader is where the header ends.  The header of a
\* generic block does not forget the sub-block of the block before.
SetCurBlockStr(at, w) ==
    LET past == [at EXCEPT !.pos = [block |-> at.block, at |-> 1]]
    IN  CASE w.packing = "CONST"    -> [past EXCEPT !.const = w.body]
          [] w.packing = "CONSTLEN" -> [past EXCEPT !.len = w.len, !.lastRead.CONSTLEN = -1]
          [] w.packing = "TABLE" ->
                [past EXCEPT !.table = PrecalcSizeOffset(ComputeInverseDeltas(w.lens, TRUE), w.table),
                             !.fixedId = -1]
          [] w.packing = "GENERIC" -> [past EXCEPT !.sizes = ComputeInverseDeltas(w.sizes, TRUE)]

\* Only the lengths of a sub-block are read.
ReadLengths(a, sb) ==
    IF a.lensId = sb THEN a
    ELSE LET n == NumValues(a, sb)
             body == blocks[a.block + 1].body
             start == a.sizes[sb + 1]
             first == [block |-> a.block, at |-> start + n + 2]
         IN  [a EXCEPT !.lensId = sb,
                       !.lens = DecodeValues_PFOR(SubSeq(body, start + 1, start + n + 1)),
                       !.first = first, !.pos = first, !.lastRead.GENERIC = -1]

ReadSubblockStr(a, sb) ==
    CASE a.packing = "TABLE"   -> ReadFixedSubblock(a, sb)
      [] a.packing = "GENERIC" -> ReadLengths(a, sb)
      [] OTHER                 -> a

ReadFrom(pos, len) == SubSeq(blocks[pos.block + 1].body, pos.at, pos.at + len - 1)

Later(pos, n) == [pos EXCEPT !.at = pos.at + n]

\* The value of a place follows those before it.
ValueOffset(a, i) == Later(a.first, SumFunction(SubSeq(a.lens, 1, i - 1)))

\* ReadValue: no seek if value id is the one after the value that was read last.
SeekUnlessNext(a, id, offset) ==
    IF a.lastRead[a.packing] = -1 \/ a.lastRead[a.packing] + 1 # id
    THEN [a EXCEPT !.pos = offset] ELSE a

ReadNext(a, id, len) == [a EXCEPT !.pos = Later(a.pos, len), !.lastRead[a.packing] = id]

Sought(a, inBlock, i) ==
    IF a.packing = "CONSTLEN"
    THEN SeekUnlessNext(a, inBlock, [block |-> a.block, at |-> inBlock * a.len + 1])
    ELSE SeekUnlessNext(a, i - 1, ValueOffset(a, i))

\* The value in place i of its sub-block, inBlock of its block, and the accessor
\* that has read it.
ReadValueStr(a, inBlock, i) ==
    CASE a.packing = "CONST" -> [value |-> a.const, acc |-> a]
      [] a.packing = "TABLE" -> [value |-> a.table[a.fixed[i] + 1], acc |-> a]
      [] OTHER ->
            LET at == Sought(a, inBlock, i)
                id == IF a.packing = "CONSTLEN" THEN inBlock ELSE i - 1
                len == IF a.packing = "CONSTLEN" THEN a.len ELSE a.lens[i]
            IN  [value |-> ReadFrom(at.pos, len), acc |-> ReadNext(at, id, len)]

-----------------------------------------------------------------------------
\* The lengths, for which a set of a constant length is not read.
GetLengthMva(a, i) == IF a.packing \in {"CONSTLEN", "CONSTLEN_NONCOMPRESSED"} THEN a.len
                      ELSE Len(ReadValueMva(a, i))

\* Where the values of a block start in the file, but for the headers.
ValuesOffset(a) == SumFunction([i \in 1..a.block |-> Len(blocks[i].body)])

\* A block of strings of one length answers with the offset of its values.
GetLengthStr(a, i) ==
    CASE a.packing = "CONST"    -> Len(a.const)
      [] a.packing = "TABLE"    -> Len(a.table[a.fixed[i] + 1])
      [] a.packing = "CONSTLEN" -> ValuesOffset(a)
      [] a.packing = "GENERIC"  -> a.lens[i]

-----------------------------------------------------------------------------
\* MvaAll_T: every value; one value is compared, which nothing fails if there is
\* none; values are searched; of a range only the first and the last are compared.
TestAll(v) ==
    IF IsSingle THEN \A i \in DOMAIN v : v[i] = filter.values[1]
    ELSE /\ v # << >>
         /\ IF IsRange
            THEN /\ IF filter.leftClosed THEN v[1] >= filter.min ELSE v[1] > filter.min
                 /\ IF filter.rightClosed THEN Last(v) <= filter.max ELSE Last(v) < filter.max
            ELSE \A i \in DOMAIN v : v[i] \in ToSet(filter.values)

\* MvaAny_T: some value; of a range the place of its minimum is searched.
TestAnyRange(v) ==
    LET above == {i \in DOMAIN v : v[i] > filter.min}
        next == v[CHOOSE i \in above : \A j \in above : i <= j]
    IN  IF filter.min \in ToSet(v)
        THEN filter.leftClosed \/ Last(v) # filter.min
        ELSE above # {} /\ (IF filter.rightClosed THEN next <= filter.max ELSE next < filter.max)

TestAny(v) ==
    /\ v # << >>
    /\ IF IsRange THEN TestAnyRange(v) ELSE \E i \in DOMAIN v : v[i] \in ToSet(filter.values)

AcceptsMva(v) == (IF filter.aggr = "ALL" THEN TestAll(v) ELSE TestAny(v)) # filter.exclude

\* CompareStrings: the bytes are compared if the lengths agree.
AcceptsStr(v) ==
    (\E i \in DOMAIN filter.values : Len(filter.values[i]) = Len(v) /\ filter.values[i] = v) # filter.exclude

AcceptsVar(v) == IF kind = "str" THEN AcceptsStr(v) ELSE AcceptsMva(v)

\* SetupNextBlock of the table and the constant block.
SetupTableVar(t, a) == [t EXCEPT !.map = [i \in DOMAIN a.table |-> AcceptsVar(a.table[i])]]

BlockAcceptedVar(a, t) ==
    CASE a.packing = "CONST" -> AcceptsVar(a.const)
      [] a.packing = "TABLE" -> TRUE \in ToSet(t.map)
      [] OTHER               -> TRUE

\* GetAllValues, ReadAllSubblockValues: the values of a sub-block.
AllValues(a, sb) ==
    IF kind # "str" THEN a.sized
    ELSE IF a.packing = "CONSTLEN"
    THEN [i \in 1..NumValues(a, sb) |->
            ReadFrom([block |-> a.block, at |-> (sb * SubblockSize + i - 1) * a.len + 1], a.len)]
    ELSE [i \in DOMAIN a.lens |-> ReadFrom(ValueOffset(a, i), a.lens[i])]

\* The places that are tested: strings of one length have lengths for a whole
\* sub-block, though there may be no value.
NumTested(a, sb) ==
    CASE a.packing \in {"CONST", "TABLE"}          -> NumValues(a, sb)
      [] kind = "str" /\ a.packing = "CONSTLEN"    -> SubblockSize
      [] OTHER                                     -> Len(AllValues(a, sb))

\* Of no value, all that is known is its length: what it is compared with is
\* whatever was read before.
PassesNoValue(a, garbage) ==
    IF \E i \in DOMAIN filter.values : Len(filter.values[i]) = a.len THEN garbage ELSE filter.exclude

PassesVar(a, sb, i, garbage) ==
    CASE a.packing = "TABLE"     -> tab.map[a.fixed[i] + 1]
      [] i > NumValues(a, sb) /\ kind = "str" /\ a.packing = "CONSTLEN" -> PassesNoValue(a, garbage)
      [] OTHER                   -> AcceptsVar(AllValues(a, sb)[i])
=============================================================================
