-------------------------- MODULE MCRowidIterator --------------------------
(* Small instances of RowidIterator: blocks of two rows, words of two bits. *)
EXTENDS RowidIterator, TLC

CONSTANTS one, pair, full, odd

\* One value per packing, and block lists with a full and a partial last block.
MCRowids ==
    (one :> <<3>>) @@ (pair :> <<1, 4>>) @@
    (full :> <<1, 2, 4, 7>>) @@ (odd :> <<0, 2, 3, 5, 6>>)

MCBounds == {[min |-> 2, max |-> 3], [min |-> 3, max |-> 5], [min |-> 6, max |-> 9]}
=============================================================================
