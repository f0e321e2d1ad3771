----------------------------- MODULE Containers -----------------------------
(***************************************************************************)
(* The benchmark driver (drv_gen.c) over the containers it measures the    *)
(* slab list against: six libavl trees, a B-tree and a skip list.  The     *)
(* command line chooses the container and what is done with it: elements   *)
(* are added, then possibly removed, then folded both ways.                *)
(*                                                                         *)
(* The slab list itself, which the driver can also choose, has modules of  *)
(* its own; here it is left out.  Keys are positive: a key of 0 is a null  *)
(* item to libavl, which asserts there is none.                            *)
(***************************************************************************)
EXTENDS Libavl, RedBlackTree, BTree, SkipList, FiniteSetsExt

CONSTANTS MaxOps,      \* bound: the elements a container other than the
                       \* skip list is filled up to
          MaxNodes     \* bound: the elements the skip list is filled up to

ASSUME Bounds ==
  /\ IsFiniteSet(Keys)
  /\ \A k \in Keys : k < MaxKey
  /\ MaxOps \in Nat /\ MaxNodes \in Nat

VARIABLES kind,       \* struct_type, from the command line
          c,          \* the container
          held,       \* how many copies of each key it ought to hold
          phase,      \* what the driver is doing
          seen        \* the keys the last fold passed to its callback

vars == <<kind, c, held, phase, seen>>

AvlKinds == {"gnuavl", "gnupavl", "gnutavl", "gnurtavl"}
RedBlackKinds == {"gnurb", "gnuprb"}
TreeKinds == AvlKinds \cup RedBlackKinds
Kinds == TreeKinds \cup {"jmpc_btree", "jmpc_skl_16"}

Phases == {"ops", "foldr", "foldl", "crashed", "end"}

Create(k) ==
  CASE k = "gnuavl" -> avl_create
    [] k = "gnupavl" -> pavl_create
    [] k = "gnutavl" -> tavl_create
    [] k = "gnurtavl" -> rtavl_create
    [] k = "gnurb" -> rb_create
    [] k = "gnuprb" -> prb_create
    [] k = "jmpc_btree" -> bt_create
    [] k = "jmpc_skl_16" -> createskiplist

Init ==
  /\ kind \in Kinds
  /\ c = Create(kind)
  /\ held = [k \in Keys |-> 0]
  /\ phase = "ops"
  /\ seen = << >>

HeldInAll == MapThenSumSet(LAMBDA k : held[k], Keys)

TreeAdd(k) ==
  CASE kind = "gnuavl" -> avl_probe(c, k)
    [] kind = "gnupavl" -> pavl_probe(c, k)
    [] kind = "gnutavl" -> tavl_probe(c, k)
    [] kind = "gnurtavl" -> rtavl_probe(c, k)
    [] kind = "gnurb" -> rb_probe(c, k)
    [] kind = "gnuprb" -> prb_probe(c, k)

(* The table of the add functions.  The skip list tosses for the level of  *)
(* the new node.                                                           *)
sadd_f(k) ==
  CASE kind \in TreeKinds -> {TreeAdd(k)}
    [] kind = "jmpc_btree" -> {bt_insert(c, k)}
    [] kind = "jmpc_skl_16" -> {insertkey(c, k, lvl) : lvl \in genlvl}

(* One call of the loop of do_ops, whose keys come at random, rising or    *)
(* falling; in its "dup" mode it adds the same key again and again.  The   *)
(* libavl trees refuse a key they hold, the other two keep every copy.     *)
do_ops(k) ==
  /\ phase = "ops"
  /\ HeldInAll < IF kind = "jmpc_skl_16" THEN MaxNodes ELSE MaxOps
  /\ c' \in sadd_f(k)
  /\ held' = [held EXCEPT ![k] = IF kind \in TreeKinds THEN 1 ELSE @ + 1]
  /\ UNCHANGED <<kind, phase, seen>>

(* Option "rem": only the slab list has a removal function, and the driver *)
(* calls through the null pointer of every other container.                *)
do_free_remaining ==
  /\ phase = "ops"
  /\ phase' = "crashed"
  /\ UNCHANGED <<kind, c, held, seen>>

(***************************************************************************)
(* The folds.  Those of the libavl trees step a traverser until it returns *)
(* null; it is let run past the number of keys, so that one that never     *)
(* stops is seen.                                                          *)
(***************************************************************************)
Step(v, d) ==
  LET pick(next, prev) == IF d = 1 THEN next ELSE prev
  IN  CASE kind = "gnuavl" -> pick(avl_t_next(c, v), avl_t_prev(c, v))
        [] kind = "gnupavl" -> pick(pavl_t_next(c, v), pavl_t_prev(c, v))
        [] kind = "gnutavl" -> pick(tavl_t_next(c, v), tavl_t_prev(c, v))
        [] kind = "gnurtavl" -> pick(rtavl_t_next(c, v), rtavl_t_prev(c, v))
        [] kind = "gnurb" -> pick(rb_t_next(c, v), rb_t_prev(c, v))
        [] kind = "gnuprb" -> pick(prb_t_next(c, v), prb_t_prev(c, v))

RECURSIVE Traverse(_, _, _)
Traverse(v, d, n) ==
  IF v.node = NIL \/ n = 0 THEN << >>
  ELSE <<v.node>> \o Traverse(Step(v, d), d, n - 1)

TreeFold(d) == Traverse(Step(NullTrav, d), d, 2 * Cardinality(Keys))

sfdr_f ==
  CASE kind \in TreeKinds -> TreeFold(1)
    [] kind = "jmpc_btree" -> inorder_traverse(c.root)
    [] kind = "jmpc_skl_16" -> skl_foldr(c)

sfdl_f ==
  CASE kind \in TreeKinds -> TreeFold(0)
    [] kind = "jmpc_btree" -> rev_inorder_traverse(c.root)

do_foldrs ==
  /\ phase = "ops"
  /\ phase' = "foldr"
  /\ seen' = sfdr_f
  /\ UNCHANGED <<kind, c, held>>

(* The skip list has no left fold: the driver bails out.                   *)
do_foldls ==
  /\ phase \in {"ops", "foldr"}
  /\ IF kind = "jmpc_skl_16"
     THEN phase' = "end" /\ seen' = << >>
     ELSE phase' = "foldl" /\ seen' = sfdl_f
  /\ UNCHANGED <<kind, c, held>>

Next ==
  \/ \E k \in Keys : do_ops(k)
  \/ do_free_remaining
  \/ do_foldrs
  \/ do_foldls

Spec == Init /\ [][Next]_vars

-----------------------------------------------------------------------------

Sorted(s) == \A i \in 1 .. Len(s) - 1 : s[i] <= s[i + 1]

Count(s, k) == Cardinality({i \in DOMAIN s : s[i] = k})

(* The keys the container holds, in order, by its structure alone.         *)
Stored ==
  CASE kind \in TreeKinds -> KeysInOrder(c)
    [] kind = "jmpc_btree" -> NodeKeys(c.root)
    [] kind = "jmpc_skl_16" ->
         LET met == LevelFrom(c, c.list[HeadNode][0], 0)
         IN  [i \in 1 .. Len(met) - 1 |-> c.key[met[i]]]

Finds(k) ==
  CASE kind \in TreeKinds -> Path(c, k) # << >> /\ Last(Path(c, k)) = k
    [] kind = "jmpc_btree" -> findnodekey(c.root, k, c.nbits) = k
    [] kind = "jmpc_skl_16" -> c.cur >= 0 /\ searchkey(c, k)

(* Whatever was added, in whatever order, is in the container in order and *)
(* is found, and nothing else is: once in the libavl trees, in as many     *)
(* copies as it was added in the B-tree and the skip list (drv_gen.c adds  *)
(* a key twelve times over in its "dup" mode).                             *)
HoldsWhatWasAdded ==
  /\ Sorted(Stored)
  /\ \A k \in Keys :
       /\ Count(Stored, k) = held[k]
       /\ Finds(k) <=> held[k] > 0

(* The threads of a threaded tree lead to the neighbours in order.         *)
Neighbour(p, d) ==
  LET s == KeysInOrder(c)
      i == CHOOSE i \in DOMAIN s : s[i] = p
      j == IF d = 0 THEN i - 1 ELSE i + 1
  IN  IF j \in DOMAIN s THEN s[j] ELSE NIL

Threaded(p) ==
  /\ kind = "gnutavl" =>
       \A d \in 0 .. 1 : ~HasChild(c, p, d) => c.link[p][d] = Neighbour(p, d)
  /\ kind = "gnurtavl" /\ ~HasChild(c, p, 1) => c.link[p][1] = Neighbour(p, 1)

Parented(p) ==
  kind \in {"gnupavl", "gnuprb"} =>
    \A d \in 0 .. 1 : HasChild(c, p, d) => c.parent[c.link[p][d]] = p

AvlBalanced(p) ==
  /\ c.bal[p] \in -1 .. 1
  /\ c.bal[p] = Height(c, p, 1) - Height(c, p, 0)

RedBlackBalanced ==
  /\ Cardinality(Blacks(c, Root(c))) = 1
  /\ ~IsRed(c, Root(c))
  /\ \A i \in DOMAIN KeysInOrder(c) :
       LET p == KeysInOrder(c)[i]
       IN  \A d \in 0 .. 1 : IsRed(c, p) => ~IsRed(c, c.link[p][d])

(* The level lists of the skip list: each holds exactly the nodes of that  *)
(* height or more, in the order of level 0, and none lies above cur.       *)
Levelled ==
  \A i \in Levels :
    /\ LevelFrom(c, c.list[HeadNode][i], i) =
         SelectSeq(LevelFrom(c, c.list[HeadNode][0], 0),
                   LAMBDA n : i \in DOMAIN c.list[n])
    /\ i > c.cur => c.list[HeadNode][i] = EndNode

(* The balance that makes these containers worth measuring against, and    *)
(* the redundant pointers that the traversals rely on, survive every       *)
(* insertion and the rotations and splits in it.                           *)
KeepsItsShape ==
  /\ kind \in TreeKinds =>
       \A i \in DOMAIN KeysInOrder(c) :
         LET p == KeysInOrder(c)[i]
         IN  /\ Threaded(p)
             /\ Parented(p)
             /\ kind \in AvlKinds => AvlBalanced(p)
  /\ kind \in RedBlackKinds => RedBlackBalanced
  /\ kind = "jmpc_btree" =>
       /\ Cardinality(Depths(c.root)) = 1
       /\ WellFilled(c.root, IF c.root.leaf THEN 0 ELSE 1)
  /\ kind = "jmpc_skl_16" => Levelled

(* A right fold passes every stored key to its callback, smallest first,   *)
(* and a left fold largest first; the skip list adds the key of its end    *)
(* node.  The B-tree's folds leave subtrees out: what its right fold       *)
(* passes is everything only while the root is a leaf, and otherwise a     *)
(* part, in order.                                                         *)
FoldsVisitInOrder ==
  /\ phase = "foldr" =>
       CASE kind \in TreeKinds -> seen = Stored
         [] kind = "jmpc_btree" ->
              /\ Sorted(seen)
              /\ \A k \in Keys : Count(seen, k) <= Count(Stored, k)
              /\ (seen = Stored) <=> c.root.leaf
         [] kind = "jmpc_skl_16" -> seen = Append(Stored, MaxKey)
  /\ phase = "foldl" /\ kind \in TreeKinds => seen = Reverse(Stored)

=============================================================================
