----------------------------- MODULE MCSlabSearch -----------------------------
(* Instances of SlabSearch for TLC. *)
EXTENDS SlabSearch

Keys == 0 .. 5
OneVal == {1}
=============================================================================
