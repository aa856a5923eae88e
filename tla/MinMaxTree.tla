----------------------------- MODULE MinMaxTree -----------------------------
(***************************************************************************)
(* The tree of least and greatest values that a column keeps in its header *)
(* (columnar/builder/builderminmax.h), how it is written there and read    *)
(* back (columnar/accessor/attributeheader.cpp, MinMax_T).  The leaves are *)
(* the sub-blocks of SubblockSize rows, each level above halves them, and  *)
(* the file has the top of the tree first.                                 *)
(***************************************************************************)
EXTENDS Integers, Sequences, SequencesExt, FiniteSetsExt

CONSTANTS
    SubblockSize,       \* rows of a sub-block, a power of two
    Word                \* 2^w, for values of w bits

\* MinMaxBuilder_T: the leaves so far and the sub-block that is collected.
NewMinMax == [leaves |-> << >>, collected |-> 0, haveNonEmpty |-> FALSE, min |-> 0, max |-> 0]

\* A sub-block of empty sets only is written as if it held 0.
FlushMinMax(m) ==
    IF m.collected = 0 THEN m
    ELSE [m EXCEPT !.leaves = Append(@, IF m.haveNonEmpty THEN <<m.min, m.max>> ELSE <<0, 0>>),
                   !.collected = 0,
                   !.haveNonEmpty = FALSE]

\* Add, of the one value or the set of values of a row.
AddToMinMax(m, values) ==
    LET f == IF m.collected = SubblockSize THEN FlushMinMax(m) ELSE m
        all == IF f.haveNonEmpty THEN values \cup {f.min, f.max} ELSE values
    IN  IF values = {} THEN [f EXCEPT !.collected = @ + 1]
        ELSE [f EXCEPT !.min = Min(all), !.max = Max(all), !.haveNonEmpty = TRUE, !.collected = @ + 1]

\* A node over two, or a copy of the last one.
Parents(level) ==
    [i \in 1..((Len(level) + 1) \div 2) |->
        IF 2 * i > Len(level) THEN level[2 * i - 1]
        ELSE <<Min({level[2 * i - 1][1], level[2 * i][1]}), Max({level[2 * i - 1][2], level[2 * i][2]})>>]

\* BuildTree: levels are added until one has a single node; the top comes first.
BuildTree(leaves) ==
    LET height == CHOOSE h \in 0..Len(leaves) :
                      2^h >= Len(leaves) /\ \A g \in 0..(h - 1) : 2^g < Len(leaves)
        level[k \in 0..height] == IF k = 0 THEN leaves ELSE Parents(level[k - 1])
    IN  [i \in 1..(height + 1) |-> level[height + 1 - i]]

-----------------------------------------------------------------------------
\* Values of the types of columns as numbers that compare as the program compares
\* them, and back; a float has its sign in the highest bit, an int wraps there.
Typed(type, u) ==
    CASE type = "bool"  -> IF u = 0 THEN 0 ELSE 1
      [] type = "float" -> IF u < Word \div 2 THEN u ELSE Word \div 2 - u
      [] type = "int"   -> IF u < Word \div 2 THEN u ELSE u - Word
      [] OTHER          -> u

FloatToUint(f) == IF f >= 0 THEN f ELSE Word \div 2 - f

\* SaveTreeLevels writes the least value and how far the greatest is above it,
\* two bits for a bool, and both values of a float.
SaveNode(type, node) ==
    CASE type = "bool"  -> <<2 * node[1] + node[2]>>
      [] type = "float" -> <<FloatToUint(node[1]), FloatToUint(node[2])>>
      [] OTHER          -> <<node[1] % Word, (node[2] - node[1]) % Word>>

SaveMinMax(type, m) ==
    LET tree == BuildTree(FlushMinMax(m).leaves)
        nodes == FlattenSeq(tree)
    IN  <<Len(tree)>> \o [i \in DOMAIN tree |-> Len(tree[i])]
          \o FlattenSeq([i \in DOMAIN nodes |-> SaveNode(type, nodes[i])])

\* LoadTreeLevels, of the node at a place of the file.
LoadNode(type, file, at) ==
    CASE type = "bool"  -> <<file[at] \div 2, file[at] % 2>>
      [] type = "float" -> <<Typed(type, file[at]), Typed(type, file[at + 1])>>
      [] OTHER          -> <<Typed(type, file[at]), Typed(type, (file[at] + file[at + 1]) % Word)>>

\* MinMax_T::Load, and where the file goes on.
LoadMinMax(type, file, at) ==
    LET levels == file[at]
        before[i \in 0..levels] == IF i = 0 THEN 0 ELSE before[i - 1] + file[at + i]
        width == IF type = "bool" THEN 1 ELSE 2
        Place(n) == at + levels + 1 + width * n
    IN  [tree |-> [i \in 1..levels |->
                      [j \in 1..file[at + i] |-> LoadNode(type, file, Place(before[i - 1] + j - 1))]],
         next |-> Place(before[levels])]
=============================================================================
