----------------------------- MODULE BinaryTree -----------------------------
(***************************************************************************)
(* What the six libavl trees of the benchmark driver share: the links of a *)
(* binary search tree, the way down to a key, and the traversers.          *)
(*                                                                         *)
(* Keys are unique in these trees and a node never changes its key, so a   *)
(* node is named by its key.  Table stands for the address of the table's  *)
(* root field, which the code casts to a node whose link 0 is the root.    *)
(***************************************************************************)
EXTENDS Integers, Sequences, SequencesExt, FiniteSets

CONSTANT Keys

ASSUME KeysArePositive == Keys \subseteq Nat \ {0}

NIL == -1
Table == 0
Nodes == Keys \cup {Table}

Dir(item, p) == IF item > p THEN 1 ELSE 0

EmptyTree(kind) ==
  [kind |-> kind,
   link |-> [n \in Nodes |-> [d \in 0 .. 1 |-> NIL]],
   bal |-> [n \in Nodes |-> 0],
   red |-> [n \in Nodes |-> FALSE],
   parent |-> [n \in Nodes |-> NIL],
   thread |-> [n \in Nodes |-> [d \in 0 .. 1 |-> FALSE]]]

Root(t) == t.link[Table][0]

(* The link of a node leads to a child: it is not null in the plain trees, *)
(* it is not tagged in the threaded ones; the right-threaded tree tags its *)
(* right links only.                                                       *)
HasChild(t, p, d) ==
  IF t.kind = "gnutavl" \/ (t.kind = "gnurtavl" /\ d = 1)
  THEN ~t.thread[p][d]
  ELSE t.link[p][d] # NIL

(* The nodes from p down to item, or to the node item would hang from.     *)
RECURSIVE Down(_, _, _)
Down(t, p, item) ==
  IF p = item \/ ~HasChild(t, p, Dir(item, p))
  THEN <<p>>
  ELSE <<p>> \o Down(t, t.link[p][Dir(item, p)], item)

Path(t, item) == IF Root(t) = NIL THEN << >> ELSE Down(t, Root(t), item)

(* Replaces the child y of z, in whichever link of z it is.                *)
Rehang(t, z, y, w) ==
  [t EXCEPT !.link[z][IF y # t.link[z][0] THEN 1 ELSE 0] = w]

(***************************************************************************)
(* Traversers.  A traverser holds its node and, in avl.c and rb.c, the     *)
(* stack of the nodes above it.  Direction 1 is forward.                   *)
(***************************************************************************)
NullTrav == [node |-> NIL, stack |-> << >>]

RECURSIVE Slide(_, _, _)
Slide(t, v, d) ==
  IF ~HasChild(t, v.node, d)
  THEN v
  ELSE Slide(t, [node |-> t.link[v.node][d],
                 stack |-> Append(v.stack, v.node)], d)

(* The far end in direction d: the first node when d is 0.                 *)
StackEnd(t, d) ==
  IF Root(t) = NIL THEN NullTrav
  ELSE Slide(t, [node |-> Root(t), stack |-> << >>], d)

RECURSIVE StackUp(_, _, _)
StackUp(t, v, d) ==
  CASE v.stack = << >> -> NullTrav
    [] v.stack # << >> /\ v.node = t.link[Last(v.stack)][d] ->
         StackUp(t, [node |-> Last(v.stack), stack |-> Front(v.stack)], d)
    [] OTHER -> [node |-> Last(v.stack), stack |-> Front(v.stack)]

StackStep(t, v, d) ==
  CASE v.node = NIL -> StackEnd(t, 1 - d)
    [] v.node # NIL /\ t.link[v.node][d] # NIL ->
         Slide(t, [node |-> t.link[v.node][d],
                   stack |-> Append(v.stack, v.node)], 1 - d)
    [] OTHER -> StackUp(t, v, d)

(* pavl.c and prb.c climb by parent pointers and keep no stack.            *)
Unstacked(v) == [node |-> v.node, stack |-> << >>]

ParentEnd(t, d) == Unstacked(StackEnd(t, d))

RECURSIVE ParentUp(_, _, _, _)
ParentUp(t, p, q, d) ==
  IF q = NIL \/ p = t.link[q][1 - d] THEN q ELSE ParentUp(t, q, t.parent[q], d)

ParentStep(t, v, d) ==
  CASE v.node = NIL -> ParentEnd(t, 1 - d)
    [] v.node # NIL /\ t.link[v.node][d] = NIL ->
         [NullTrav EXCEPT !.node = ParentUp(t, v.node, t.parent[v.node], d)]
    [] OTHER ->
         Unstacked(Slide(t, [NullTrav EXCEPT !.node = t.link[v.node][d]],
                         1 - d))

(***************************************************************************)
(* The keys in order, the height and the black height, by the structure.   *)
(***************************************************************************)
RECURSIVE InOrder(_, _)
InOrder(t, p) ==
  (IF HasChild(t, p, 0) THEN InOrder(t, t.link[p][0]) ELSE << >>)
    \o <<p>>
    \o (IF HasChild(t, p, 1) THEN InOrder(t, t.link[p][1]) ELSE << >>)

KeysInOrder(t) == IF Root(t) = NIL THEN << >> ELSE InOrder(t, Root(t))

RECURSIVE HeightAt(_, _)
HeightAt(t, p) ==
  LET side(d) == IF HasChild(t, p, d) THEN HeightAt(t, t.link[p][d]) ELSE 0
  IN  1 + (IF side(0) > side(1) THEN side(0) ELSE side(1))

Height(t, p, d) == IF HasChild(t, p, d) THEN HeightAt(t, t.link[p][d]) ELSE 0

RECURSIVE Blacks(_, _)
Blacks(t, p) ==
  IF p = NIL
  THEN {0}
  ELSE {n + (IF t.red[p] THEN 0 ELSE 1) :
          n \in Blacks(t, t.link[p][0]) \cup Blacks(t, t.link[p][1])}

=============================================================================
