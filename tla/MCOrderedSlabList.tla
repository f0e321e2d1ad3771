--------------------------- MODULE MCOrderedSlabList ---------------------------
(* Instances of OrderedSlabList and SlabSort for TLC. *)
EXTENDS SlabSort

Keys2 == 1 .. 2
OneVal == {1}
=============================================================================
