--------------------------- MODULE MCRangedSlabList ---------------------------
(* Instances of RangedSlabList for TLC. *)
EXTENDS RangedSlabList

Keys7 == 1 .. 7
Keys9 == 1 .. 9
OneVal == {1}

\* All of the state but `ret', which no property of these runs reads.
Unreported == <<sml, t, sl_elems, settings, layered, sl_head_freed, crashed>>
=============================================================================
