------------------------------ MODULE MCSlabList ------------------------------
(* Instances of SlabList for TLC. *)
EXTENDS SlabList

Keys6 == 1 .. 6
Keys8 == 1 .. 8
OneVal == {1}
=============================================================================
