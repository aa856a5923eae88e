------------------------------ MODULE MCColumn ------------------------------
(* Small instances of Column: blocks of four rows, sub-blocks of two, tables *)
(* of up to two values, lists of up to two values compared in turn.          *)
EXTENDS Column

Values(vs, ex) == [type |-> "VALUES", values |-> vs, exclude |-> ex]
Range4(a, b, lc, rc, lu, ru) ==
    [type |-> "RANGE", min |-> a, max |-> b, leftClosed |-> lc, rightClosed |-> rc,
     leftUnbounded |-> lu, rightUnbounded |-> ru]

\* Every packing next to every other, blocks that a filter skips, a short last
\* block and a short last sub-block.
MCInts == {
    <<3, 3, 3, 3, 1, 7, 7, 1, 9, 5, 2, 5, 7>>,        \* CONST TABLE GENERIC CONST
    <<1, 2, 5, 9, 9, 5, 2, 1, 8, 8, 9, 8>>,           \* DELTA up, DELTA down, TABLE
    <<5, 1, 5, 1, 4, 1, 7, 2, 1, 5, 1>>,              \* TABLE GENERIC TABLE, short
    <<2, 9, 4, 1, 7, 3, 31, 5, 6, 6, 6>>}             \* GENERIC GENERIC CONST, short
MCHashes == {<<0, 7, 3, 9, 0, 0, 5, 0, 3, 9, 0, 5>>, <<0, 0, 0, 0, 9, 3, 0, 11, 3>>}
MCBools == {<<1, 1, 1, 1, 0, 2, 1, 0, 0, 0, 0, 0, 1>>, <<0, 1, 0, 3, 0, 0, 0>>}

Ints(filters) == [kind : {"int"}, docs : MCInts, filter : filters, uses : {Uses}]

\* Left open are excluding lists of two values, which are compared in turn: a row
\* passes such a list at the first value it differs from (accessorint.cpp:792).
MCIntCases ==
    Ints({Values(<<1>>, FALSE), Values(<<5>>, TRUE), Values(<<1, 7>>, FALSE),
          Values(<<1, 2, 8>>, FALSE), Values(<<1, 5, 7>>, TRUE),
          Range4(2, 7, TRUE, FALSE, FALSE, FALSE), Range4(0, 3, FALSE, TRUE, TRUE, FALSE),
          Range4(5, 0, FALSE, FALSE, FALSE, TRUE), Range4(1, 9, FALSE, FALSE, FALSE, FALSE)})
    \cup [kind : {"hash"}, docs : MCHashes,
          filter : {Values(<<0>>, FALSE), Values(<<9, 3>>, FALSE), Values(<<9>>, TRUE)}, uses : {Uses}]
    \cup [kind : {"bool"}, docs : MCBools,
          filter : {Values(<<0>>, FALSE), Values(<<2>>, FALSE), Values(<<0, 1>>, FALSE),
                    Values(<<0, 1>>, TRUE), Range4(1, 5, TRUE, TRUE, FALSE, FALSE)},
          uses : {Uses}]

SetValues(vs, ex, aggr) == [type |-> "VALUES", values |-> vs, exclude |-> ex, aggr |-> aggr]
SetRange(a, b, lc, rc, ex, aggr) ==
    [type |-> "RANGE", min |-> a, max |-> b, leftClosed |-> lc, rightClosed |-> rc, exclude |-> ex,
     aggr |-> aggr]

\* -1 and 32 are where a range without a bound ends.
MCSets == {
    <<<<1, 4>>, <<1, 4>>, <<1, 4>>, <<1, 4>>, <<2, 5>>, <<1, 7>>, <<3, 4>>, <<2, 9>>,
      <<4>>, <<1, 5, 6>>, << >>, <<4, 5>>, <<4>>, <<4>>, <<1, 5>>>>,  \* CONST CONSTLEN DELTA_PFOR TABLE
    <<<<3>>, <<5>>, <<3>>, <<3>>, <<2>>, <<1, 5, 8>>, <<5, 7>>, <<5>>,
      <<7>>, <<4>>, <<5>>>>,                                         \* TABLE DELTA_PFOR CONSTLEN, short
    <<<<2, 4>>, <<6, 8>>, <<1, 5>>, <<3, 31>>, <<4, 5>>, <<5, 6>>, <<5, 7>>, <<1, 9>>,
      << >>, << >>, <<4>>, << >>>>}                                  \* CONSTLEN CONSTLEN TABLE

\* Left open are ranges whose minimum a set has, and one value for all of a set
\* that has none: there the code and AsksFor differ.
MCSetFilters ==
    {SetValues(<<5>>, FALSE, "ANY"), SetValues(<<4, 5>>, TRUE, "ANY"),
     SetValues(<<1, 4, 7>>, FALSE, "ALL"), SetRange(4, 6, TRUE, FALSE, FALSE, "ANY"),
     SetRange(10, 32, FALSE, FALSE, FALSE, "ANY"), SetRange(-1, 4, FALSE, TRUE, TRUE, "ANY"),
     SetRange(3, 8, FALSE, FALSE, FALSE, "ALL")}

\* Vectors that start with a value that is not their least.
MCVectors == {<<<<5, 1>>, <<2, 6>>, <<3, 9>>, <<9, 3>>, <<4, 1>>, <<4, 2>>, <<3, 0>>, <<6, 1>>>>}

MCSetCases ==
    [kind : {"mva"}, docs : MCSets, filter : MCSetFilters, uses : {Uses}]
    \cup [kind : {"knn"}, docs : MCVectors, filter : {SetRange(2, 8, TRUE, TRUE, FALSE, "ALL")},
          uses : {{"iterate"}}]

Strings(vs, ex) == [type |-> "STRINGS", values |-> vs, exclude |-> ex]

MCStrFilters == {Strings(<<<<2, 3>>>>, FALSE), Strings(<<<<1>>>>, TRUE), Strings(<<<<2>>, << >>>>, FALSE),
                 Strings(<<<<1>>, <<2, 3>>>>, TRUE)}

\* A generic block that is left is not read right any more: see GetLengthStr and ReadValueStr.
MCStrs == {
    <<<<1>>, <<1>>, <<1>>, <<1>>, <<2, 2>>, <<2, 3>>, <<1, 2>>, <<3, 3>>,
      <<2>>, <<2, 3>>, <<2>>, <<2, 3>>, <<4>>, <<5>>, <<6>>, <<7>>>>,   \* CONST CONSTLEN TABLE CONSTLEN
    <<<<2>>, << >>, <<1, 2, 3>>, <<2, 3>>>>,                           \* GENERIC
    <<<<2, 3>>, <<1, 1, 1>>, << >>>>}                                  \* GENERIC, short

\* The walk of an analyzer only goes on: one generic block among others.
MCMixedStrs == {
    <<<<1>>, <<1>>, <<1>>, <<1>>, <<2>>, << >>, <<1, 2, 3>>, <<2, 3>>,
      <<2, 2>>, <<2, 3>>, <<1, 2>>, <<3, 3>>, <<1>>, <<2, 3>>, <<1>>>>, \* CONST GENERIC CONSTLEN TABLE
    <<<<2, 3>>, <<1>>, <<2, 3>>, <<1>>, << >>, <<2>>, <<1, 1>>, <<2, 3>>,
      <<1>>, <<2>>, <<3>>, <<4>>, << >>, << >>>>}                       \* TABLE GENERIC CONSTLEN CONST

MCStrCases ==
    [kind : {"str"}, docs : MCStrs, filter : MCStrFilters, uses : {Uses}]
    \cup [kind : {"str"}, docs : MCMixedStrs, filter : MCStrFilters, uses : {{"analyze"}}]

MCHints == {3, 5, 8, 11}

MCMatchings == {Everything, << >>, <<1, 2, 5>>, <<0, 3, 4>>, <<2, 3>>, <<0, 1, 4, 5>>}

=============================================================================
