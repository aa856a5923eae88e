-------------------------- MODULE MCBitmapIterator --------------------------
(* Small instances of BitmapIterator: seven rows in words of two bits, blocks *)
(* of two rows, and values that share a row as those of an MVA do.         *)
EXTENDS BitmapIterator

MCRowids == <<<<0, 3, 5>>, <<2, 3>>, <<1, 4, 6>>>>

MCBounds == {[min |-> 2, max |-> 5], [min |-> 1, max |-> 4]}

\* The instance is one ExactAnswer and NoForeignRow are proved of.
ASSUME RowsInInstance == RowsFit
=============================================================================
