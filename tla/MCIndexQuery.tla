---------------------------- MODULE MCIndexQuery ----------------------------
(* Small instances of IndexQuery: three blocks of four values, the last one *)
(* short, and a type of sixteen values.  The values asked for lie at both    *)
(* ends of a block, between values and blocks, past all of them, and past   *)
(* the type, where they narrow to stored ones; ranges end below, above, on   *)
(* and between the values.                                                 *)
EXTENDS IndexQuery

MCValues == <<1, 2, 3, 4, 6, 7, 8, 9, 12, 14>>

MCAsked == {{4, 5, 6}, {3, 14}, {2, 6, 15}, {0, 12}, {7, 22}, {4, 9}, {-10, 17}}

\* Values outside the type, which narrow to stored ones and to others.
MCOutside == {{-2, 21, 33}, {-16, 17}}

MCEnds == {-2, 0, 1, 4, 5, 6, 9, 12, 15, 21}

MCWideMin == -64
=============================================================================
