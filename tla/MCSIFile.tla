------------------------------ MODULE MCSIFile ------------------------------
(* A small instance of SIFile: two fields of a JSON column and a plain one,    *)
(* each with no value or a partial, a full or two blocks of two values.        *)
EXTENDS SIFile

MCSchema == <<[name |-> "j.a", parent |-> "j"],
              [name |-> "c", parent |-> "none"],
              [name |-> "j.b", parent |-> "j"]>>
MCDistinct == [1..3 -> 0..3]
=============================================================================
