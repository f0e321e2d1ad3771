------------------------------- MODULE Libavl -------------------------------
(***************************************************************************)
(* The four AVL trees of the driver: avl.c (plain), pavl.c (with parent    *)
(* pointers), tavl.c (threaded both ways) and rtavl.c (right-threaded):    *)
(* creation, insertion and the traversers the folds use.  The code writes  *)
(* each rotation twice, once for each side; here d is the heavy side.      *)
(***************************************************************************)
EXTENDS BinaryTree

avl_create == EmptyTree("gnuavl")
pavl_create == EmptyTree("gnupavl")
tavl_create == EmptyTree("gnutavl")
rtavl_create == EmptyTree("gnurtavl")

Sign(d) == IF d = 0 THEN -1 ELSE 1

(* The search remembers y, the last node of the path whose balance factor  *)
(* is not zero (the root if there is none), and z, the node above it.      *)
Unbalanced(t, path) ==
  LET off == {i \in DOMAIN path : t.bal[path[i]] # 0}
  IN  IF off = {} THEN 1 ELSE CHOOSE i \in off : \A j \in off : j <= i

Above(path, i) == IF i = 1 THEN Table ELSE path[i - 1]

(* Every balance factor from y down to the new node moves towards it.      *)
Weighed(t, path, i, item) ==
  [t EXCEPT !.bal = [n \in Nodes |->
     IF \E j \in i .. Len(path) : path[j] = n
     THEN t.bal[n] + Sign(Dir(item, n))
     ELSE t.bal[n]]]

Heavy(t, y) == t.bal[y] \in {-2, 2}
HeavySide(t, y) == IF t.bal[y] < 0 THEN 0 ELSE 1

(* One rotation about y, or two; w is the new root of the subtree.         *)
IsSingle(t, y, d) == t.bal[t.link[y][d]] = Sign(d)

TopAfter(t, y, d) ==
  LET x == t.link[y][d] IN IF IsSingle(t, y, d) THEN x ELSE t.link[x][1 - d]

RotateOnce(t, y, d) ==
  LET x == t.link[y][d]
  IN  [t EXCEPT !.link[y][d] = t.link[x][1 - d],
                !.link[x][1 - d] = y,
                !.bal[x] = 0,
                !.bal[y] = 0]

\* Faulty variant of RotateTwice: all three nodes are taken to be even.
RotateTwiceEven(t, y, d) ==
  LET x == t.link[y][d]
      w == t.link[x][1 - d]
  IN  [t EXCEPT !.link[x][1 - d] = t.link[w][d],
                !.link[w][d] = x,
                !.link[y][d] = t.link[w][1 - d],
                !.link[w][1 - d] = y,
                !.bal[x] = 0, !.bal[y] = 0, !.bal[w] = 0]

RotateTwice(t, y, d) ==
  LET x == t.link[y][d]
      w == t.link[x][1 - d]
  IN  [t EXCEPT !.link[x][1 - d] = t.link[w][d],
                !.link[w][d] = x,
                !.link[y][d] = t.link[w][1 - d],
                !.link[w][1 - d] = y,
                !.bal[x] = IF t.bal[w] = -Sign(d) THEN Sign(d) ELSE 0,
                !.bal[y] = IF t.bal[w] = Sign(d) THEN -Sign(d) ELSE 0,
                !.bal[w] = 0]

Rotate(t, y, d) ==
  IF IsSingle(t, y, d) THEN RotateOnce(t, y, d) ELSE RotateTwice(t, y, d)

(***************************************************************************)
(* avl.c                                                                   *)
(***************************************************************************)
Hang(t, p, item) == [t EXCEPT !.link[p][Dir(item, p)] = item]

avl_probe(t, item) ==
  LET path == Path(t, item)
      i == Unbalanced(t, path)
      y == path[i]
      hung == Weighed(Hang(t, Last(path), item), path, i, item)
      d == HeavySide(hung, y)
  IN  CASE path = << >> -> [t EXCEPT !.link[Table][0] = item]
        [] path # << >> /\ Last(path) = item -> t
        [] path # << >> /\ Last(path) # item /\ ~Heavy(hung, y) -> hung
        [] OTHER -> Rehang(Rotate(hung, y, d), Above(path, i), y,
                           TopAfter(hung, y, d))

avl_t_first(t) == StackEnd(t, 0)
avl_t_last(t) == StackEnd(t, 1)
avl_t_next(t, v) == StackStep(t, v, 1)
avl_t_prev(t, v) == StackStep(t, v, 0)

(***************************************************************************)
(* pavl.c: the rotated nodes and the subtrees they exchange get new        *)
(* parents, and the top of the subtree is hung from its own parent.        *)
(***************************************************************************)
\* Faulty variant of Reparented: the subtrees that change sides keep their
\* parents.
ReparentedTopOnly(t, y, d) ==
  LET x == t.link[y][d]
      w == TopAfter(t, y, d)
  IN  [Rotate(t, y, d) EXCEPT !.parent = [n \in Nodes |->
         CASE n = w -> t.parent[y]
           [] n # w /\ n \in {x, y} -> w
           [] OTHER -> t.parent[n]]]

Reparented(t, y, d) ==
  LET r == Rotate(t, y, d)
      x == t.link[y][d]
      w == TopAfter(t, y, d)
  IN  [r EXCEPT !.parent = [n \in Nodes |->
         CASE n = w -> t.parent[y]
           [] n # w /\ n \in {x, y} -> w
           [] n \notin {w, x, y} /\ n = r.link[y][d] -> y
           [] n \notin {w, x, y} /\ x # w /\ n = r.link[x][1 - d] -> x
           [] OTHER -> t.parent[n]]]

pavl_probe(t, item) ==
  LET path == Path(t, item)
      i == Unbalanced(t, path)
      y == path[i]
      born == [Hang(t, Last(path), item) EXCEPT !.parent[item] = Last(path)]
      hung == Weighed(born, path, i, item)
      d == HeavySide(hung, y)
      r == Reparented(hung, y, d)
      w == TopAfter(hung, y, d)
  IN  CASE path = << >> -> [t EXCEPT !.link[Table][0] = item]
        [] path # << >> /\ Last(path) = item -> t
        [] path # << >> /\ Last(path) # item /\ ~Heavy(hung, y) -> hung
        [] OTHER -> Rehang(r, IF r.parent[w] = NIL THEN Table ELSE r.parent[w],
                           y, w)

pavl_t_first(t) == ParentEnd(t, 0)
pavl_t_last(t) == ParentEnd(t, 1)
pavl_t_next(t, v) == ParentStep(t, v, 1)
pavl_t_prev(t, v) == ParentStep(t, v, 0)

(***************************************************************************)
(* tavl.c: a link with no child is tagged and leads to the neighbour in    *)
(* order.  A rotation that would move a thread puts one in its place.      *)
(***************************************************************************)
ThreadIn(t, p, item) ==
  LET d == Dir(item, p)
  IN  [t EXCEPT !.link[item] = [e \in 0 .. 1 |->
                                  IF e = d THEN t.link[p][d] ELSE p],
                !.thread[item] = [e \in 0 .. 1 |-> TRUE],
                !.link[p][d] = item,
                !.thread[p][d] = FALSE]

ThreadTo(t, from, d, to) ==
  [t EXCEPT !.link[from][d] = to, !.thread[from][d] = TRUE,
            !.thread[to][1 - d] = FALSE]

Rethreaded(t, y, d) ==
  LET r == Rotate(t, y, d)
      x == t.link[y][d]
      w == TopAfter(t, y, d)
      left == IF t.thread[w][d] THEN ThreadTo(r, x, 1 - d, w) ELSE r
  IN  IF IsSingle(t, y, d)
      THEN IF t.thread[x][1 - d] THEN ThreadTo(r, y, d, x) ELSE r
      ELSE IF t.thread[w][1 - d] THEN ThreadTo(left, y, d, w) ELSE left

tavl_probe(t, item) ==
  LET path == Path(t, item)
      i == Unbalanced(t, path)
      y == path[i]
      hung == Weighed(ThreadIn(t, Last(path), item), path, i, item)
      d == HeavySide(hung, y)
  IN  CASE path = << >> -> [t EXCEPT !.link[Table][0] = item,
                                     !.thread[item] = [e \in 0 .. 1 |-> TRUE]]
        [] path # << >> /\ Last(path) = item -> t
        [] path # << >> /\ Last(path) # item /\ ~Heavy(hung, y) -> hung
        [] OTHER -> Rehang(Rethreaded(hung, y, d), Above(path, i), y,
                           TopAfter(hung, y, d))

tavl_t_first(t) == ParentEnd(t, 0)
tavl_t_last(t) == ParentEnd(t, 1)

ThreadStep(t, v, d) ==
  CASE v.node = NIL -> ParentEnd(t, 1 - d)
    [] v.node # NIL /\ t.thread[v.node][d] ->
         [NullTrav EXCEPT !.node = t.link[v.node][d]]
    [] OTHER ->
         Unstacked(Slide(t, [NullTrav EXCEPT !.node = t.link[v.node][d]],
                         1 - d))

tavl_t_next(t, v) == ThreadStep(t, v, 1)
tavl_t_prev(t, v) == ThreadStep(t, v, 0)

(***************************************************************************)
(* rtavl.c: only right links carry threads, so the two sides of a rotation *)
(* differ, and the step backwards looks for its node from the root.        *)
(***************************************************************************)
RightThreadIn(t, p, item) ==
  LET d == Dir(item, p)
  IN  [t EXCEPT !.link[item] = [e \in 0 .. 1 |->
                                  CASE e = 0 -> NIL
                                    [] e = 1 /\ d = 0 -> p
                                    [] OTHER -> t.link[p][1]],
                !.thread[item][1] = TRUE,
                !.link[p][d] = item,
                !.thread[p][1] = IF d = 1 THEN FALSE ELSE t.thread[p][1]]

RightThreaded(t, y, d) ==
  LET r == Rotate(t, y, d)
      x == t.link[y][d]
      w == TopAfter(t, y, d)
      low == IF d = 0 THEN x ELSE y       \* its right link was w's left link
      high == IF d = 0 THEN y ELSE x      \* its left link was w's right link
      lowDone == IF r.link[low][1] = NIL
                 THEN [r EXCEPT !.thread[low][1] = TRUE, !.link[low][1] = w]
                 ELSE r
      cut == [r EXCEPT !.link[y][0] = NIL, !.thread[x][1] = FALSE]
  IN  CASE IsSingle(t, y, d) /\ d = 0 -> IF t.thread[x][1] THEN cut ELSE r
        [] IsSingle(t, y, d) /\ d = 1 ->
             IF t.link[x][0] = NIL
             THEN [r EXCEPT !.thread[y][1] = TRUE, !.link[y][1] = x]
             ELSE r
        [] OTHER ->
             IF t.thread[w][1]
             THEN [lowDone EXCEPT !.link[high][0] = NIL, !.thread[w][1] = FALSE]
             ELSE lowDone

rtavl_probe(t, item) ==
  LET path == Path(t, item)
      i == Unbalanced(t, path)
      y == path[i]
      hung == Weighed(RightThreadIn(t, Last(path), item), path, i, item)
      d == HeavySide(hung, y)
  IN  CASE path = << >> -> [t EXCEPT !.link[Table][0] = item,
                                     !.thread[item][1] = TRUE]
        [] path # << >> /\ Last(path) = item -> t
        [] path # << >> /\ Last(path) # item /\ ~Heavy(hung, y) -> hung
        [] OTHER -> Rehang(RightThreaded(hung, y, d), Above(path, i), y,
                           TopAfter(hung, y, d))

rtavl_t_first(t) == ParentEnd(t, 0)
rtavl_t_last(t) == ParentEnd(t, 1)
rtavl_t_next(t, v) == ThreadStep(t, v, 1)

(* The last node of the path to the current one that is below it in order. *)
rtavl_t_prev(t, v) ==
  LET below == SelectSeq(Path(t, v.node), LAMBDA n : n < v.node)
  IN  CASE v.node = NIL -> rtavl_t_last(t)
        [] v.node # NIL /\ t.link[v.node][0] = NIL ->
             IF below = << >> THEN NullTrav
             ELSE [NullTrav EXCEPT !.node = Last(below)]
        [] OTHER ->
             Unstacked(Slide(t, [NullTrav EXCEPT !.node = t.link[v.node][0]],
                             1))

=============================================================================
