---------------------------- MODULE MCRangeReader ----------------------------
(* An instance of RangeReader with ranges that lie outside the type: three  *)
(* blocks of four values, the last one short, and a type of sixteen values. *)
EXTENDS RangeReader

MCValues == <<0, 2, 3, 4, 6, 7, 8, 9, 12, 15>>

MCWideEnds == {-2, 0, 7, 15, 21}

MCWideMin == -64
=============================================================================
