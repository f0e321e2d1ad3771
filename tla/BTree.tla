------------------------------- MODULE BTree -------------------------------
(***************************************************************************)
(* The B-tree of the driver (bt_code.c): creation, insertion, search, the  *)
(* two ends and the folds.  A node is a record of its n keys and, unless   *)
(* it is a leaf, its n + 1 children; indexes count from 0, as in the code. *)
(* The driver never deletes from it.                                       *)
(***************************************************************************)
EXTENDS Integers, Sequences, SequencesExt

CONSTANT NodeSize     \* the bytes of a node: 512, 1024 or 4096 in the driver

(* What the fold reads where no key was ever stored.                       *)
Garbage == -2

NoKey == -3

Key(x, i) == x.keys[i + 1]
Child(x, i) == x.nodes[i + 1]
Size(x) == Len(x.keys)

RECURSIVE HalfLog(_, _, _)
HalfLog(a, b, i) ==
  CASE b = 0 -> i
    [] b # 0 /\ a >= 2 ^ b -> HalfLog(a \div 2 ^ b, b \div 2, 2 * i + 1)
    [] OTHER -> HalfLog(a % 2 ^ b, b \div 2, 2 * i)

real_log2(a, nbits) == HalfLog(a, (nbits + 1) \div 2, 0)

(* The degree: the largest t whose 2t - 1 keys and child pointers fit in a *)
(* node next to its header of 4 bytes and one more pointer.                *)
Degree == (((NodeSize - 12) \div 16) + 1) \div 2

ASSUME DegreeAtLeastTwo == NodeSize \in Nat /\ Degree >= 2

EmptyNode == [leaf |-> TRUE, keys |-> << >>, nodes |-> << >>]

bt_create ==
  LET bits == real_log2(2 * Degree - 1, 32) + 1
  IN  [root |-> EmptyNode, nbits |-> 2 ^ (real_log2(bits, 32) + 1)]

Full(x) == Size(x) = 2 * Degree - 1

(* The index of the last key not above k, or -1, by halving at powers of   *)
(* two: a is what is left of the range above i.                            *)
RECURSIVE Narrow(_, _, _, _, _)
Narrow(x, k, nbits, a, i) ==
  LET b == real_log2(a, nbits)
  IN  CASE a <= 0 -> i
        [] a > 0 /\ k < Key(x, 2 ^ b + i) -> Narrow(x, k, nbits, 2 ^ b - 1, i)
        [] OTHER -> Narrow(x, k, nbits, a - 2 ^ b, i + 2 ^ b)

findkindex(x, k, nbits) ==
  LET i == Narrow(x, k, nbits, Size(x) - 1, 0)
  IN  CASE Size(x) = 0 -> -1
        [] Size(x) # 0 /\ k < Key(x, i) -> i - 1
        [] OTHER -> i

(* The full child i of x gives its upper half to a new child i + 1 and its *)
(* middle key to x.                                                        *)
btreesplitchild(x, i) ==
  LET y == Child(x, i)
      part(a, b) == [leaf |-> y.leaf,
                     keys |-> SubSeq(y.keys, a, b),
                     nodes |-> IF y.leaf THEN << >>
                               ELSE SubSeq(y.nodes, a, b + 1)]
      lower == part(1, Degree - 1)
      upper == part(Degree + 1, 2 * Degree - 1)
  IN  [x EXCEPT !.keys = InsertAt(@, i + 1, Key(y, Degree - 1)),
                !.nodes = ReplaceAt(InsertAt(@, i + 2, upper), i + 1, lower)]

\* Faulty variant of btreeinsertnonfull: after a split it goes on into the
\* lower half.
RECURSIVE btreeinsertnonfullLower(_, _, _)
btreeinsertnonfullLower(x, k, nbits) ==
  LET i == findkindex(x, k, nbits) + 1
      parted == IF Full(Child(x, i)) THEN btreesplitchild(x, i) ELSE x
  IN  IF x.leaf
      THEN [x EXCEPT !.keys = InsertAt(@, i + 1, k)]
      ELSE [parted EXCEPT !.nodes[i + 1] =
                            btreeinsertnonfullLower(Child(parted, i), k, nbits)]

RECURSIVE btreeinsertnonfull(_, _, _)
btreeinsertnonfull(x, k, nbits) ==
  LET i == findkindex(x, k, nbits) + 1
      split == btreesplitchild(x, i)
      fits == ~Full(Child(x, i))
      parted == IF fits THEN x ELSE split
      j == IF ~fits /\ k > Key(split, i) THEN i + 1 ELSE i
  IN  IF x.leaf
      THEN [x EXCEPT !.keys = InsertAt(@, i + 1, k)]
      ELSE [parted EXCEPT !.nodes[j + 1] =
                            btreeinsertnonfull(Child(parted, j), k, nbits)]

(* The only place where the tree grows in height.                          *)
bt_insert(btr, k) ==
  LET above == [leaf |-> FALSE, keys |-> << >>, nodes |-> <<btr.root>>]
      r == IF Full(btr.root) THEN btreesplitchild(above, 0) ELSE btr.root
  IN  [btr EXCEPT !.root = btreeinsertnonfull(r, k, btr.nbits)]

RECURSIVE findmaxnode(_)
findmaxnode(x) ==
  IF x.leaf THEN Key(x, Size(x) - 1) ELSE findmaxnode(Child(x, Size(x)))

RECURSIVE findminnode(_)
findminnode(x) == IF x.leaf THEN Key(x, 0) ELSE findminnode(Child(x, 0))

RECURSIVE findnodekey(_, _, _)
findnodekey(x, k, nbits) ==
  LET i == findkindex(x, k, nbits)
  IN  CASE i >= 0 /\ Key(x, i) = k -> k
        [] ~(i >= 0 /\ Key(x, i) = k) /\ x.leaf -> NoKey
        [] OTHER -> findnodekey(Child(x, i + 1), k, nbits)

(* Visits child i and key i for each key, and so never the last child.     *)
RECURSIVE inorder_traverse(_)
inorder_traverse(x) ==
  FlattenSeq([i \in 1 .. Size(x) |->
    (IF x.leaf THEN << >> ELSE inorder_traverse(x.nodes[i]))
      \o <<x.keys[i]>>])

(* Counts i down from n to 1: it reads key n, one past the last key, and   *)
(* never key 0 or child 0.                                                 *)
RECURSIVE rev_inorder_traverse(_)
rev_inorder_traverse(x) ==
  FlattenSeq([j \in 1 .. Size(x) |->
    LET i == Size(x) + 1 - j
    IN  (IF x.leaf THEN << >> ELSE rev_inorder_traverse(Child(x, i)))
          \o <<IF i = Size(x) THEN Garbage ELSE Key(x, i)>>])

(***************************************************************************)
(* The keys in order and the shape, by the structure.                      *)
(***************************************************************************)
RECURSIVE NodeKeys(_)
NodeKeys(x) ==
  IF x.leaf THEN x.keys
  ELSE FlattenSeq([i \in 1 .. Size(x) + 1 |->
         NodeKeys(x.nodes[i])
           \o (IF i <= Size(x) THEN <<x.keys[i]>> ELSE << >>)])

RECURSIVE Depths(_)
Depths(x) ==
  IF x.leaf THEN {0}
  ELSE {d + 1 : d \in UNION {Depths(x.nodes[i]) : i \in DOMAIN x.nodes}}

RECURSIVE WellFilled(_, _)
WellFilled(x, least) ==
  /\ Size(x) \in least .. 2 * Degree - 1
  /\ ~x.leaf => /\ Len(x.nodes) = Size(x) + 1
                /\ \A i \in DOMAIN x.nodes : WellFilled(x.nodes[i], Degree - 1)

=============================================================================
