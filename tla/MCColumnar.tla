----------------------------- MODULE MCColumnar -----------------------------
(* Small instances of Columnar: sub-blocks of two rows, blocks of four, up to *)
(* seven sub-blocks, so trees of up to four levels, and 32 row ids.           *)
EXTENDS Columnar

MCBlockCells(p, b) == 1 + ((p + b) % 2)
MCPacking(p, b) == (p + 2 * b) % 3

Attr(name, type, hashed) == [name |-> name, type |-> type, hashed |-> hashed]

Filter(name, accepts, analyzed) ==
    [name |-> name, column |-> <<name>>, accepts |-> accepts, all |-> FALSE, analyzed |-> analyzed, values |-> << >>]

\* Integers that rise, fall and repeat, sets with empty ones together and apart,
\* seven sub-blocks, and slices whose bounds may be rounded.
MCNumbers == <<5, 6, 5, 5, 20, 9, 1, 1, 30, 31, 5, 0, 7, 6>>
MCSets == <<{}, {}, {4}, {}, {2, 9}, {4, 5}, {}, {7}, {1}, {1, 30}, {}, {}, {6}, {4, 5}>>

MCIntAndSet ==
    [schema  : {<<Attr("i", "int", FALSE), Attr("s", "set", FALSE), Attr("u", "uint", FALSE)>>},
     docs    : {[r \in 1..14 |-> <<(MCNumbers[r] + 15) % Word, MCSets[r], MCNumbers[r]>>]},
     query   : {<<Filter("u", {5}, FALSE)>>, <<Filter("u", {0, 30}, FALSE)>>, <<Filter("u", {12}, FALSE)>>,
                <<Filter("i", {-12, 3, 15}, FALSE)>>,
                <<Filter("s", {4}, TRUE)>>,
                <<[Filter("s", {1, 4, 6}, FALSE) EXCEPT !.all = TRUE]>>,
                <<Filter("s", {1, 2, 4, 9}, FALSE), Filter("u", {5, 9, 30, 31}, FALSE)>>,
                <<Filter("u", {1, 9, 30}, TRUE), Filter("i", 0..15, FALSE)>>},
     slices  : {{1, 2, 4}}]

\* A hash column beside a string, and a short last block and sub-block.
MCStringsAndBools ==
    [schema  : {<<Attr("t", "str", TRUE), Attr("b", "bool", FALSE), Attr("f", "float", FALSE)>>},
     docs    : {[r \in 1..7 |->
                    <<<<<<1>>, <<1, 2>>, <<>>, <<>>, <<2>>, <<3, 3, 3>>, <<1, 2>>>>[r],
                      <<0, 0, 3, 0, 1, 1, 0>>[r], <<4, 18, 20, 1, 9, 30, 17>>[r]>>]},
     query   : {<<Filter("t", {<<2>>, <<2, 2>>}, FALSE)>>,
                <<[Filter("b", {0, 1}, TRUE) EXCEPT !.values = <<0, 1>>]>>,
                <<[Filter("b", {1}, FALSE) EXCEPT !.values = <<1>>]>>,
                \* of the column of hashes, which has no tree
                <<[Filter("t", {<<2>>, <<3, 3, 3>>, <<1, 2>>}, TRUE) EXCEPT !.column = HashName("t")]>>,
                <<Filter("f", {-2, -1, 9}, FALSE)>>, <<Filter("t", {<<>>}, FALSE), Filter("f", {1, 4}, FALSE)>>},
     slices  : {{1, 3}}]

\* No rows, and fewer rows than slices.
MCFew ==
    [schema  : {<<Attr("u", "uint", FALSE)>>},
     docs    : {<< >>, <<<<3>>, <<8>>>>},
     query   : {<<Filter("u", {3}, FALSE)>>, <<Filter("u", {8}, TRUE)>>, <<Filter("u", {1}, FALSE)>>},
     slices  : {{1, 3}}]

MCCases == MCIntAndSet \cup MCStringsAndBools \cup MCFew
=============================================================================
