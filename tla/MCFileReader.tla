---------------------------- MODULE MCFileReader ----------------------------
(* Small instances of FileReader: files shorter than the buffer, as long as  *)
(* two buffers, and longer, and reads of up to three buffers.                *)
EXTENDS FileReader

\* No two bytes of a file are the same, so that none is taken for another.
MCFiles == {[i \in 1..n |-> i] : n \in {0, 1, 4, 7}}
=============================================================================
