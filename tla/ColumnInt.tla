------------------------------ MODULE ColumnInt ------------------------------
(***************************************************************************)
(* A column of integers, of hashes of strings or of booleans: what its     *)
(* packer makes of a block (columnar/builder/builderint.cpp,               *)
(* builderbool.cpp), how its accessor reads a value back and how its       *)
(* analyzer tests the values of a block (columnar/accessor/                *)
(* accessorint.cpp, accessorbool.cpp).  The packer chooses a packing per   *)
(* block from what it has seen of the block; the accessor keeps the last   *)
(* header and the last sub-block it read of each packing.                  *)
(***************************************************************************)
EXTENDS ColumnBase

\* The filters there is an analyzer for: a range is never excluded.
Filter == [type : {"VALUES"}, values : Seq(Nat), exclude : BOOLEAN]
            \cup [type : {"RANGE"}, min : Nat, max : Nat, leftClosed : BOOLEAN, rightClosed : BOOLEAN,
                  leftUnbounded : BOOLEAN, rightUnbounded : BOOLEAN]

ASSUME IntCasesAssumption ==
    /\ IntCases \subseteq [kind : {"int", "hash", "bool"}, docs : Seq(0..(Word - 1)), filter : Filter,
                  uses : {Uses}]
    /\ \A c \in IntCases :
          /\ c.docs # << >>
          /\ c.filter.type = "VALUES" => IsInjective(c.filter.values) /\ c.filter.values # << >>
          /\ c.kind = "hash" => c.filter.type = "VALUES"    \* there is no range of hashes

Excludes == ~ IsRange /\ filter.exclude

-----------------------------------------------------------------------------
\* The packers.
NoStats == [uniques |-> {}, prev |-> 0, asc |-> TRUE, desc |-> TRUE]

NoStatsBool == [first |-> TRUE, const |-> TRUE, value |-> 0]

AnalyzeCollected(s, v) ==
    [uniques |-> SeenValue(s.uniques, v),
     prev    |-> v,
     asc     |-> s.asc /\ (s.uniques # {} => v >= s.prev),
     desc    |-> s.desc /\ (s.uniques # {} => v <= s.prev)]

AnalyzeCollectedBool(s, v) ==
    LET value == IF s.first THEN v ELSE s.value
    IN  [first |-> FALSE, const |-> s.const /\ v = value, value |-> value]

ChoosePacking(s) ==
    CASE Cardinality(s.uniques) = 1          -> "CONST"
      [] Cardinality(s.uniques) \in 2..(TableLimit - 1) -> "TABLE"
      [] OTHER -> IF s.asc \/ s.desc THEN "DELTA" ELSE IF kind = "hash" THEN "HASH" ELSE "GENERIC"

WriteToFile(values, s) ==
    LET packing == ChoosePacking(s)
    IN  CASE packing = "CONST"   -> WritePacked_Const(values)
          [] packing = "TABLE"   -> WritePacked_Table(values, s.uniques)
          [] packing = "DELTA"   -> WritePacked_Delta(values, s.asc)
          [] packing = "GENERIC" -> WritePacked_Generic(values)
          [] packing = "HASH"    -> WritePacked_Hash(values)

WriteToFileBool(values, s) ==
    IF s.const THEN WritePacked_Const(<<s.value>>) ELSE WritePacked_Bitmap(values)

\* A boolean column keeps whether the value is zero.
StoredBool(v) == IF v # 0 THEN 1 ELSE 0

-----------------------------------------------------------------------------
\* Accessor_INT_T, Accessor_Bool_T: the reading of a block and a sub-block.
IsFixed(packing) == packing \in {"TABLE", "BITMAP"}

\* What is read of a boolean block.
SetCurBlockBool(at, w) ==
    IF w.packing = "CONST" THEN [at EXCEPT !.const = w.body[1]] ELSE [at EXCEPT !.fixedId = -1]

\* Mutant: the last sub-block read is taken for one of the new block.
SetCurBlockKeepsSubblock(at, w) ==
    [at EXCEPT !.const = w.body[1],
               !.table = ComputeInverseDeltas(w.table, TRUE),
               !.sizes = ComputeInverseDeltas(w.sizes, TRUE)]

SetCurBlockInt(at, w) ==
    CASE w.packing = "CONST" -> [at EXCEPT !.const = w.body[1]]
      [] w.packing = "TABLE" -> [at EXCEPT !.table = ComputeInverseDeltas(w.table, TRUE), !.fixedId = -1]
      [] OTHER -> [at EXCEPT !.sizes = ComputeInverseDeltas(w.sizes, TRUE), !.sizedId = -1]

ReadSizedSubblock(a, sb) ==
    IF a.sizedId = sb THEN a
    ELSE [a EXCEPT !.sizedId = sb,
                   !.sized = Decode(a.packing, ReadSized(blocks[a.block + 1].body, a.sizes, sb),
                                    NumValues(a, sb))]

ReadSubblockInt(a, sb) ==
    CASE a.packing = "CONST" -> a
      [] IsFixed(a.packing)  -> ReadFixedSubblock(a, sb)
      [] OTHER               -> ReadSizedSubblock(a, sb)

ReadValueBool(a, i) == IF a.packing = "CONST" THEN a.const ELSE a.fixed[i]

ReadValueInt(a, i) ==
    CASE a.packing = "CONST" -> a.const
      [] a.packing = "TABLE" -> a.table[a.fixed[i] + 1]
      [] OTHER               -> a.sized[i]

-----------------------------------------------------------------------------
\* The filter over a value.
Accepts(v) == IF IsRange THEN InRange(v) ELSE (v \in ToSet(filter.values)) # filter.exclude

\* Analyzer_Bool_T::AnalyzeFilter: the values of a filter count as true or false.
AcceptsBool(v) ==
    IF IsRange THEN InRange(v)
    ELSE (\E i \in DOMAIN filter.values : (filter.values[i] # 0) = (v # 0)) # filter.exclude

\* AnalyzerBlock_Int_Table_c: the filter in terms of the table of the block.
GetIndexInTable(a, v) ==
    IF v \in ToSet(a.table) THEN (CHOOSE i \in DOMAIN a.table : a.table[i] = v) - 1 ELSE -1

IdsInTable(a) ==
    LET places == Ranked({i \in DOMAIN filter.values : filter.values[i] \in ToSet(a.table)})
    IN  [k \in DOMAIN places |-> GetIndexInTable(a, filter.values[places[k]])]

\* Mutant: the ids of the table before stay.
SetupTableAppends(t, a) ==
    IF IsRange  THEN [t EXCEPT !.map = [i \in DOMAIN a.table |-> InRange(a.table[i])]]
    ELSE IF IsSingle THEN [t EXCEPT !.id = GetIndexInTable(a, filter.values[1])]
    ELSE [t EXCEPT !.ids = t.ids \o IdsInTable(a)]

SetupTableInt(t, a) ==
    IF IsRange  THEN [t EXCEPT !.map = [i \in DOMAIN a.table |-> InRange(a.table[i])]]
    ELSE IF IsSingle THEN [t EXCEPT !.id = GetIndexInTable(a, filter.values[1])]
    ELSE [t EXCEPT !.ids = IdsInTable(a)]

TableAccepted(t) ==
    IF IsRange  THEN TRUE \in ToSet(t.map)
    ELSE Excludes \/ (IF IsSingle THEN t.id # -1 ELSE t.ids # << >>)

\* AllPassFilter: the table is read as if the block were constant.
AllPass(t, a) ==
    IF IsRange  THEN FALSE \notin ToSet(t.map)
    ELSE IF IsSingle THEN Len(a.table) = 1 /\ ((t.id # -1) # Excludes)
    ELSE Len(t.ids) = Len(a.table) /\ ~ Excludes

\* SetupNextBlock, as MoveToBlock calls it for the packing of the block.
BlockAcceptedInt(a, t) ==
    CASE a.packing = "CONST" -> Accepts(a.const)
      [] a.packing = "TABLE" -> TableAccepted(t)
      [] OTHER               -> TRUE

BlockAcceptedBool(a) ==
    IF a.packing = "CONST" THEN AcceptsBool(a.const) ELSE AcceptsBool(0) \/ AcceptsBool(1)

\* The ProcessSubblock functions: does the value in place i pass?
PassesTable(a, i) ==
    IF IsRange  THEN tab.map[a.fixed[i] + 1]
    ELSE IF IsSingle THEN (a.fixed[i] = tab.id) # Excludes
    ELSE (a.fixed[i] \in ToSet(tab.ids)) # Excludes

\* One value is compared at once; few are compared in turn, each on its own;
\* many are searched.
PassesValue(a, i) ==
    LET v == a.sized[i]
    IN  IF IsRange THEN InRange(v)
        ELSE IF Len(filter.values) <= LinearLimit
        THEN \E j \in DOMAIN filter.values : (v = filter.values[j]) # Excludes
        ELSE (v \in ToSet(filter.values)) # Excludes

PassesBool(a, i) == AcceptsBool(a.fixed[i])

PassesInt(a, i) == IF a.packing = "TABLE" THEN PassesTable(a, i) ELSE PassesValue(a, i)

ReadsAsConstInt == acc.packing = "TABLE" /\ AllPass(tab, acc)

ReadsAsConstBool == AcceptsBool(0) /\ AcceptsBool(1)
=============================================================================
