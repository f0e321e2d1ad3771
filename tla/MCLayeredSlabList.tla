-------------------------- MODULE MCLayeredSlabList --------------------------
(* Instances of LayeredSlabList for TLC. *)
EXTENDS LayeredSlabList

Keys8 == 1 .. 8
OneVal == {1}

\* All of the state but `ret', which no action reads.  Every step is still checked
\* against SlabList with the result it gives.
Unreported == <<sml, t, sl_elems, settings, crashed>>
=============================================================================
