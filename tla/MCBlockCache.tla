---------------------------- MODULE MCBlockCache ----------------------------
(* Small instances of BlockCache: two queries, two blocks, a limit that a  *)
(* copy of row data does not reach alone and a copy of values does.         *)
EXTENDS BlockCache, TLC

CONSTANTS t1, t2

Threads == {t1, t2}
ThreadSymmetry == Permutations(Threads)

MCCost == [s \in Slot |-> IF s[1] = "values" THEN 2 ELSE 1]

\* The instance is one ReuseStops is proved of.
ASSUME RoomInInstance == ReuseRoom
=============================================================================
