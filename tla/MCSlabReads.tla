----------------------------- MODULE MCSlabReads -----------------------------
(* Instances of SlabReads and SlabTests for TLC. *)
EXTENDS SlabTests

Keys7 == 1 .. 7
OneVal == {1}
=============================================================================
