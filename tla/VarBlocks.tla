------------------------------ MODULE VarBlocks ------------------------------
(***************************************************************************)
(* The blocks of columns whose values differ in length: sets of integers,  *)
(* vectors of floats (columnar/builder/buildermva.cpp) and strings         *)
(* (builderstr.cpp), and the StoredBlock classes of their accessors.  The  *)
(* values of a sub-block are written one after the other, their lengths    *)
(* apart; a set in ascending order is written as deltas if all those of    *)
(* its block are in order, and a flag of the block says so.                *)
(***************************************************************************)
EXTENDS IntBlocks

Lengths(values) == [i \in DOMAIN values |-> Len(values[i])]

\* Each set on its own becomes deltas.
PrepareValues(values, sorted) ==
    FlattenSeq([i \in DOMAIN values |-> IF sorted THEN Delta(values[i]) ELSE values[i]])

VarBlock(packing, sorted, len, lens, table) ==
    [packing |-> packing, sorted |-> sorted, len |-> len, lens |-> lens, table |-> table,
     sizes |-> << >>, body |-> << >>]

\* Sub-blocks of different sizes, which the header adds up,
WithSubblocks(block, chunks) ==
    [block EXCEPT !.sizes = ComputeDeltas(Cumulative(chunks), TRUE), !.body = FlattenSeq(chunks)]

\* or ordinals of one size.
WithOrdinals(block, entries, values) ==
    LET ordinal(v) == CHOOSE i \in DOMAIN entries : entries[i] = v
    IN  [block EXCEPT !.body =
            WrittenFixed("TABLE", << >>, [i \in DOMAIN values |-> ordinal(values[i]) - 1]).body]

-----------------------------------------------------------------------------
\* The packers of sets and vectors.
WriteMva_Const(values, sorted) ==
    [VarBlock("CONST", sorted, Len(values[1]), << >>, << >>) EXCEPT
        !.body = WriteValues_PFOR(PrepareValues(<<values[1]>>, sorted))]

WriteMva_ConstLen(values, sorted) ==
    LET parts == Subblocks(values)
    IN  WithSubblocks(VarBlock("CONSTLEN", sorted, Len(values[1]), << >>, << >>),
                      [i \in DOMAIN parts |-> WriteValues_PFOR(PrepareValues(parts[i], sorted))])

\* The vectors are written as they are; the flag is written all the same.
WriteMva_ConstLenNonPacked(values, sorted) ==
    WithSubblocks(VarBlock("CONSTLEN_NONCOMPRESSED", sorted, Len(values[1]), << >>, << >>),
                  [i \in DOMAIN Subblocks(values) |-> FlattenSeq(Subblocks(values)[i])])

\* The entries are in the order of a hash table, which nothing depends on.
WriteMva_Table(values, uniques, sorted) ==
    LET entries == SetToSeq(uniques)
    IN  WithOrdinals(VarBlock("TABLE", sorted, 0, WriteValues_PFOR(Lengths(entries)),
                              WriteValues_PFOR(PrepareValues(entries, sorted))), entries, values)

WriteMva_DeltaPFOR(values, sorted) ==
    LET chunk(part) ==
            WriteValues_PFOR(Lengths(part))
                \o (IF FlattenSeq(part) = << >> THEN << >>
                    ELSE WriteValues_PFOR(PrepareValues(part, sorted)))
    IN  WithSubblocks(VarBlock("DELTA_PFOR", sorted, 0, << >>, << >>),
                      [i \in DOMAIN Subblocks(values) |-> chunk(Subblocks(values)[i])])

\* The packer of strings.
WriteStr_Const(values) ==
    [VarBlock("CONST", FALSE, Len(values[1]), << >>, << >>) EXCEPT !.body = values[1]]

WriteStr_Table(values, uniques) ==
    LET entries == SetToSortSeq(uniques, LAMBDA s, t : Len(s) < Len(t))
    IN  WithOrdinals(VarBlock("TABLE", FALSE, 0, ComputeDeltas(Lengths(entries), TRUE), FlattenSeq(entries)),
                     entries, values)

WriteStr_ConstLen(values) ==
    [VarBlock("CONSTLEN", FALSE, Len(values[1]), << >>, << >>) EXCEPT !.body = FlattenSeq(values)]

\* The header holds where the sub-blocks start.
WriteStr_Generic(values) ==
    LET parts == Subblocks(values)
        chunks == [i \in DOMAIN parts |-> WriteValues_PFOR(Lengths(parts[i])) \o FlattenSeq(parts[i])]
        starts == [i \in DOMAIN parts |-> Len(FlattenSeq(SubSeq(chunks, 1, i - 1)))]
    IN  [VarBlock("GENERIC", FALSE, 0, << >>, << >>) EXCEPT
            !.sizes = ComputeDeltas(starts, TRUE), !.body = FlattenSeq(chunks)]

-----------------------------------------------------------------------------
\* The readers.  Values in a row are told apart by their lengths,
PrecalcSizeOffset(lens, values) ==
    LET past == ComputeInverseDeltas(lens, TRUE)
    IN  [i \in DOMAIN lens |-> SubSeq(values, past[i] - lens[i] + 1, past[i])]

\* and sets that were written as deltas are added up.
ApplyInverseDeltas(values, sorted) ==
    IF sorted THEN [i \in DOMAIN values |-> InverseDelta(values[i])] ELSE values

\* A sub-block of n values.
DecodeMva_ConstLen(packing, len, sorted, chunk, n) ==
    ApplyInverseDeltas(
        PrecalcSizeOffset([i \in 1..n |-> len],
                          IF packing = "CONSTLEN" THEN DecodeValues_PFOR(chunk) ELSE chunk),
        sorted)

DecodeMva_DeltaPFOR(sorted, chunk, n) ==
    LET lens == DecodeValues_PFOR(SubSeq(chunk, 1, n + 1))
        rest == SubSeq(chunk, n + 2, Len(chunk))
    IN  ApplyInverseDeltas(PrecalcSizeOffset(lens, IF rest = << >> THEN << >> ELSE DecodeValues_PFOR(rest)),
                           sorted)
=============================================================================
