------------------------------ MODULE IntBlocks ------------------------------
(***************************************************************************)
(* The blocks of integer, hash and boolean columns (columnar/builder/      *)
(* builderint.cpp, builderbool.cpp, and the StoredBlock classes of their   *)
(* accessors): what is written of a block in each packing and how a sub-   *)
(* block is read back.  A block is a header and a body of words; sub-blocks*)
(* of one size are found by their number, others by the cumulative sizes   *)
(* in the header.  The integer codecs (external) keep what they are given. *)
(***************************************************************************)
EXTENDS ColumnGeometry, SequencesExt

CONSTANTS
    Word,               \* 2^32 or 2^64: integers are unsigned and wrap
    TableLimit          \* 256: fewer distinct values make a table

\* A word counts the cells of a block: at most twice its values, and two for each sub-block.
ASSUME PackingAssumption ==
    Word \in Nat /\ TableLimit \in Nat \ {0, 1} /\ 3 * DocsPerBlock < Word

\* The elements of a set of numbers in ascending order.
Ranked(set) ==
    CHOOSE s \in [1..Cardinality(set) -> set] : \A i, j \in 1..Cardinality(set) : i < j => s[i] < s[j]

-----------------------------------------------------------------------------
\* What each value adds to the one before it, or takes from it. The vectorized
\* forms of these functions come to the same.
Delta(values) ==
    [i \in DOMAIN values |-> IF i = 1 THEN values[1] ELSE (values[i] - values[i - 1]) % Word]

CalcDescDeltas(values) ==
    [i \in DOMAIN values |-> IF i = 1 THEN values[1] ELSE (values[i - 1] - values[i]) % Word]

ComputeDeltas(values, asc) == IF asc THEN Delta(values) ELSE CalcDescDeltas(values)

InverseDelta(deltas) ==
    LET value[i \in DOMAIN deltas] == IF i = 1 THEN deltas[1] ELSE (value[i - 1] + deltas[i]) % Word
    IN  [i \in DOMAIN deltas |-> value[i]]

CalcInverseDescDeltas(deltas) ==
    LET value[i \in DOMAIN deltas] == IF i = 1 THEN deltas[1] ELSE (value[i - 1] - deltas[i]) % Word
    IN  [i \in DOMAIN deltas |-> value[i]]

ComputeInverseDeltas(deltas, asc) ==
    IF asc THEN InverseDelta(deltas) ELSE CalcInverseDescDeltas(deltas)

Least(values) == CHOOSE v \in ToSet(values) : \A w \in ToSet(values) : v <= w

\* Sub-blocks of different sizes, and the sizes added up.
Cumulative(chunks) ==
    ComputeInverseDeltas([i \in DOMAIN chunks |-> Len(chunks[i])], TRUE)

Written(packing, chunks) ==
    [packing |-> packing, sizes |-> ComputeDeltas(Cumulative(chunks), TRUE), table |-> << >>,
     body |-> FlattenSeq(chunks)]

\* Sub-blocks of one size: the last one is filled up with zeros.
Padded(values) == values \o [i \in 1..(SubblockSize - Len(values)) |-> 0]

WrittenFixed(packing, table, values) ==
    [packing |-> packing, sizes |-> << >>, table |-> table,
     body |-> FlattenSeq([i \in DOMAIN Subblocks(values) |-> Padded(Subblocks(values)[i])])]

-----------------------------------------------------------------------------
\* The packers.
WritePacked_Const(values) ==
    [packing |-> "CONST", sizes |-> << >>, table |-> << >>, body |-> <<values[1]>>]

WritePacked_Table(values, uniques) ==
    LET sorted == Ranked(uniques)
        ordinal(v) == CHOOSE i \in DOMAIN sorted : sorted[i] = v
    IN  WrittenFixed("TABLE", ComputeDeltas(sorted, TRUE), [i \in DOMAIN values |-> ordinal(values[i]) - 1])

WritePacked_Delta(values, asc) ==
    LET chunk(s) == <<IF asc THEN 0 ELSE 1>> \o ComputeDeltas(s, asc)
    IN  Written("DELTA", [i \in DOMAIN Subblocks(values) |-> chunk(Subblocks(values)[i])])

\* WriteValues_PFOR: the least value, then what the others exceed it by.
WriteValues_PFOR(values) ==
    IF values = << >> THEN <<0>>
    ELSE <<Least(values)>> \o [i \in DOMAIN values |-> (values[i] - Least(values)) % Word]

WritePacked_Generic(values) ==
    Written("GENERIC", [i \in DOMAIN Subblocks(values) |-> WriteValues_PFOR(Subblocks(values)[i])])

\* A full sub-block with enough empty strings gets a map of the others.
NonEmpty(hashes) ==
    LET places == Ranked({i \in DOMAIN hashes : hashes[i] # 0})
    IN  [k \in DOMAIN places |-> hashes[places[k]]]

NeedNullMap(hashes) ==
    /\ (Len(hashes) - Len(NonEmpty(hashes))) * 8 > 4 * (Len(hashes) \div 8)
    /\ Len(hashes) = SubblockSize

WriteSubblock_Hash(hashes) ==
    IF NeedNullMap(hashes)
    THEN <<Len(NonEmpty(hashes))>> \o [i \in DOMAIN hashes |-> IF hashes[i] = 0 THEN 0 ELSE 1]
                                   \o NonEmpty(hashes)
    ELSE <<Len(hashes)>> \o hashes

WritePacked_Hash(values) ==
    Written("HASH", [i \in DOMAIN Subblocks(values) |-> WriteSubblock_Hash(Subblocks(values)[i])])

WritePacked_Bitmap(values) == WrittenFixed("BITMAP", << >>, values)

-----------------------------------------------------------------------------
\* The stored blocks.
ReadFixed(body, sb) == SubSeq(body, sb * SubblockSize + 1, (sb + 1) * SubblockSize)

ReadSized(body, sizes, sb) ==
    SubSeq(body, (IF sb = 0 THEN 0 ELSE sizes[sb]) + 1, sizes[sb + 1])

DecodeValues_Delta_PFOR(chunk) == ComputeInverseDeltas(Tail(chunk), Head(chunk) = 0)

AddMinValue(values, min) == [i \in DOMAIN values |-> (values[i] + min) % Word]

DecodeValues_PFOR(chunk) == AddMinValue(Tail(chunk), Head(chunk))

\* The hashes go to the places the map marks, in turn.
ReadHashesWithNullMap(map, hashes) ==
    [i \in DOMAIN map |->
        IF map[i] = 0 THEN 0 ELSE hashes[Cardinality({j \in 1..i : map[j] = 1})]]

DecodeValues_Hash(chunk, n) ==
    IF chunk[1] = n
    THEN Tail(chunk)
    ELSE ReadHashesWithNullMap(SubSeq(chunk, 2, n + 1), SubSeq(chunk, n + 2, Len(chunk)))

Decode(packing, chunk, n) ==
    CASE packing = "DELTA"   -> DecodeValues_Delta_PFOR(chunk)
      [] packing = "GENERIC" -> DecodeValues_PFOR(chunk)
      [] packing = "HASH"    -> DecodeValues_Hash(chunk, n)
=============================================================================
