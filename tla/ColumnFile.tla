----------------------------- MODULE ColumnFile -----------------------------
(***************************************************************************)
(* The file of a columnar storage: how columnar::Builder_c puts it         *)
(* together from the packers of the columns (columnar/builder.cpp), and    *)
(* how Columnar_c and AttributeHeader_c find their way through it          *)
(* (columnar/columnar.cpp, accessor/attributeheader.cpp).                  *)
(*                                                                         *)
(* The file is a sequence of cells, one for each number, name or setting   *)
(* that is written; a block of values is a few cells that say which block  *)
(* of which packer they belong to.                                         *)
(***************************************************************************)
EXTENDS MinMaxTree

CONSTANTS
    DocsPerBlock,       \* DOCS_PER_BLOCK
    BlockCells(_, _),   \* cells that block b of packer p takes up
    Packing(_, _)       \* and its packing

Version == "STORAGE_VERSION"

Ceil(n, k) == (n + k - 1) \div k

\* GenerateHashAttrName.
HashName(name) == <<name, "HASH">>

\* Setup: one packer for each attribute of the schema, and before that of a
\* string with a hash function another one for the hashes.
Flat(schema) ==
    FlattenSeq([i \in DOMAIN schema |->
        LET own == [name |-> <<schema[i].name>>, type |-> schema[i].type, attr |-> i]
        IN  IF schema[i].hashed
            THEN <<[name |-> HashName(schema[i].name), type |-> "hash", attr |-> i], own>>
            ELSE <<own>>])

\* A packer: its builder of the tree of values, the rows that wait for a block to
\* be full, the blocks of its header, and its body file.
NewPacker == [minMax |-> NewMinMax, pending |-> 0, blocks |-> << >>, body |-> << >>]

\* The numbers that the tree of a column is built from: the values, or the length
\* of a string; none for hashes.
MinMaxValues(type, doc) ==
    CASE type = "set"  -> doc
      [] type = "str"  -> {Len(doc)}
      [] type = "hash" -> {}
      [] OTHER         -> {Typed(type, doc)}

\* Flush.
FlushPacker(p, k) ==
    IF p.pending = 0 THEN p
    ELSE LET b == Len(p.blocks) + 1
         IN  [p EXCEPT !.pending = 0,
                       !.blocks = Append(@, [offset |-> Len(p.body), packing |-> Packing(k, b)]),
                       !.body = @ \o [i \in 1..BlockCells(k, b) |-> [packer |-> k, block |-> b, cell |-> i]]]

\* AddDoc of packer number k.
AddToPacker(p, k, type, doc) ==
    LET q == IF p.pending = DocsPerBlock THEN FlushPacker(p, k) ELSE p
    IN  [q EXCEPT !.pending = @ + 1,
                  !.minMax = IF type = "hash" THEN @ ELSE AddToMinMax(@, MinMaxValues(type, doc))]

-----------------------------------------------------------------------------
\* How many blocks have each packing, up to the greatest.
PackingStats(blocks) ==
    LET greatest == Max({0} \cup {blocks[i].packing : i \in DOMAIN blocks})
    IN  [k \in 1..(greatest + 1) |-> Cardinality({i \in DOMAIN blocks : blocks[i].packing = k - 1})]

\* Mutant: every offset is written as it is, not its distance from the last.
HeaderCellsAbsolute(packer, p, base) ==
    <<packer.type, SubblockSize, packer.name, base, Len(p.blocks)>>
      \o [i \in 1..(Len(p.blocks) - 1) |-> p.blocks[i + 1].offset]
      \o LET stats == PackingStats(p.blocks) IN <<Len(stats)>> \o stats
      \o IF packer.type = "hash" THEN <<0>> ELSE <<1>> \o SaveMinMax(packer.type, p.minMax)

\* WriteHeader: the first block's offset is corrected later, the others are
\* counted from it, each written as the distance from the one before.
HeaderCells(packer, p, base) ==
    <<packer.type, SubblockSize, packer.name, base, Len(p.blocks)>>
      \o [i \in 1..(Len(p.blocks) - 1) |->
              p.blocks[i + 1].offset - (IF i = 1 THEN 0 ELSE p.blocks[i].offset)]
      \o LET stats == PackingStats(p.blocks) IN <<Len(stats)>> \o stats
      \o IF packer.type = "hash" THEN <<0>> ELSE <<1>> \o SaveMinMax(packer.type, p.minMax)

\* WriteHeaders and CorrectOffset: the headers, each followed by the place of the
\* next one (a cell after the end of nothing for the last), with the offset of
\* the first block of each column in the bodies that come after them.
FileHeaders(flat, packers) ==
    LET n == Len(flat)
        size[k \in 0..n] == IF k = 0 THEN 2 ELSE size[k - 1] + Len(HeaderCells(flat[k], packers[k], 0)) + 1
        body[k \in 0..n] == IF k = 0 THEN size[n] ELSE body[k - 1] + Len(packers[k].body)
    IN  <<Version, n>>
          \o FlattenSeq([k \in 1..n |->
                 HeaderCells(flat[k], packers[k], body[k - 1])
                   \o <<(IF k < n THEN size[k] - 1 ELSE 0) + 1>>])

-----------------------------------------------------------------------------
\* The cells of a file are counted from 0, those of a sequence from 1.
Cell(file, at) == file[at + 1]

\* AttributeHeader_c::Load, of the header at a place, and where the file goes on.
LoadHeader(file, at) ==
    LET numBlocks == Cell(file, at + 4)
        offset[i \in 1..numBlocks] == IF i = 1 THEN Cell(file, at + 3) ELSE offset[i - 1] + Cell(file, at + 3 + i)
        stats == at + 4 + Max({1, numBlocks})
        flag == stats + 1 + Cell(file, stats)
        minMax == IF Cell(file, flag) = 1 THEN LoadMinMax(Cell(file, at), file, flag + 2)
                  ELSE [tree |-> << >>, next |-> flag + 2]
    IN  [type |-> Cell(file, at), name |-> Cell(file, at + 2), subblockSize |-> Cell(file, at + 1),
         blocks |-> [i \in 1..numBlocks |-> offset[i]],
         minMax |-> minMax.tree,
         next |-> minMax.next - 1]

\* LoadHeaders: from each header to the next by the place it is said to be at.
LoadHeaders(file) ==
    LET n == Cell(file, 1)
        header[k \in 1..n] == LoadHeader(file, IF k = 1 THEN 2 ELSE Cell(file, header[k - 1].next))
    IN  [k \in 1..n |-> header[k]]
=============================================================================
