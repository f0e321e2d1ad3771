---------------------------- MODULE MCContainers ----------------------------
(* A few keys, B-tree nodes of three keys (the smallest there are) and a   *)
(* skip list of three levels.                                              *)
EXTENDS Containers

MCKeys == 1 .. 8

=============================================================================
