---------------------------- MODULE MCSIBuilder ----------------------------
(* Small instances of SIBuilder: documents without a value, with one, with    *)
(* two, and float vectors with a value twice or two that count as equal; runs *)
(* of two documents, blocks of two values and of two rows.                    *)
EXTENDS SIBuilder

MCVector == {<<1, 1>>, <<2, 1>>}
MCDoc == {<< >>, <<1>>, <<4>>, <<6>>, <<4, 1>>} \cup MCVector
=============================================================================
