---------------------------- MODULE RedBlackTree ----------------------------
(***************************************************************************)
(* The two red-black trees of the driver: rb.c keeps the path of an        *)
(* insertion on a stack, prb.c climbs by parent pointers.  d is the side   *)
(* of the grandparent the parent is on; the code writes each side out.     *)
(***************************************************************************)
EXTENDS BinaryTree

rb_create == EmptyTree("gnurb")
prb_create == EmptyTree("gnuprb")

IsRed(t, p) == p # NIL /\ t.red[p]

Recolored(t, f, y, g) ==
  [t EXCEPT !.red[f] = FALSE, !.red[y] = FALSE, !.red[g] = TRUE]

(* The child on the far side of its parent f takes its parent's place.     *)
Straightened(t, g, f, d) ==
  LET q == t.link[f][1 - d]
  IN  [t EXCEPT !.link[f][1 - d] = t.link[q][d],
                !.link[q][d] = f,
                !.link[g][d] = q]

(* The node f on side d of g takes the place of g under h.                 *)
Lifted(t, h, g, f, d) ==
  LET turned == [t EXCEPT !.red[g] = TRUE,
                          !.red[f] = FALSE,
                          !.link[g][d] = t.link[f][1 - d],
                          !.link[f][1 - d] = g]
  IN  [turned EXCEPT !.link[h][IF t.link[h][0] # g THEN 1 ELSE 0] = f]

(***************************************************************************)
(* rb.c: pa is the stack, the parent of the node looked at last on it.     *)
(***************************************************************************)
RECURSIVE rb_fix(_, _, _)
rb_fix(t, pa, item) ==
  LET k == Len(pa)
      f == pa[k]
      g == pa[k - 1]
      d == Dir(item, g)
      y == t.link[g][1 - d]
  IN  CASE k < 3 \/ ~IsRed(t, f) -> t
        [] k >= 3 /\ IsRed(t, f) /\ IsRed(t, y) ->
             rb_fix(Recolored(t, f, y, g), SubSeq(pa, 1, k - 2), item)
        [] k >= 3 /\ IsRed(t, f) /\ ~IsRed(t, y) /\ Dir(item, f) = d ->
             Lifted(t, pa[k - 2], g, f, d)
        [] OTHER -> Lifted(Straightened(t, g, f, d), pa[k - 2], g,
                           t.link[f][1 - d], d)

BlackRoot(t) == [t EXCEPT !.red[Root(t)] = FALSE]

rb_probe(t, item) ==
  LET path == Path(t, item)
      pa == <<Table>> \o path
      d == IF path = << >> THEN 0 ELSE Dir(item, Last(path))
      born == [t EXCEPT !.link[Last(pa)][d] = item, !.red[item] = TRUE]
  IN  IF path # << >> /\ Last(path) = item
      THEN t
      ELSE BlackRoot(rb_fix(born, pa, item))

rb_t_first(t) == StackEnd(t, 0)
rb_t_last(t) == StackEnd(t, 1)
rb_t_next(t, v) == StackStep(t, v, 1)
rb_t_prev(t, v) == StackStep(t, v, 0)

(***************************************************************************)
(* prb.c                                                                   *)
(***************************************************************************)
Adopted(t, p, d) ==
  IF t.link[p][d] = NIL THEN t ELSE [t EXCEPT !.parent[t.link[p][d]] = p]

StraightenedP(t, g, f, d) ==
  LET q == t.link[f][1 - d]
  IN  Adopted([Straightened(t, g, f, d) EXCEPT !.parent[f] = q], f, 1 - d)

LiftedP(t, g, f, d) ==
  LET h == IF t.parent[g] = NIL THEN Table ELSE t.parent[g]
  IN  Adopted([Lifted(t, h, g, f, d) EXCEPT !.parent[f] = t.parent[g],
                                            !.parent[g] = f], g, d)

RECURSIVE prb_fix(_, _)
prb_fix(t, q) ==
  LET f == t.parent[q]
      g == t.parent[f]
      d == IF t.link[g][0] = f THEN 0 ELSE 1
      y == t.link[g][1 - d]
  IN  CASE ~IsRed(t, f) -> t
        [] IsRed(t, f) /\ g = NIL -> t
        [] IsRed(t, f) /\ g # NIL /\ IsRed(t, y) ->
             prb_fix(Recolored(t, f, y, g), g)
        [] IsRed(t, f) /\ g # NIL /\ ~IsRed(t, y) /\ t.link[f][d] = q ->
             LiftedP(t, g, f, d)
        [] OTHER -> LiftedP(StraightenedP(t, g, f, d), g, q, d)

prb_probe(t, item) ==
  LET path == Path(t, item)
      up == IF path = << >> THEN NIL ELSE Last(path)
      under == IF up = NIL THEN Table ELSE up
      d == IF up = NIL THEN 0 ELSE Dir(item, up)
      born == [t EXCEPT !.link[under][d] = item,
                        !.parent[item] = up,
                        !.red[item] = TRUE]
  IN  IF path # << >> /\ Last(path) = item
      THEN t
      ELSE BlackRoot(prb_fix(born, item))

prb_t_first(t) == ParentEnd(t, 0)
prb_t_last(t) == ParentEnd(t, 1)
prb_t_next(t, v) == ParentStep(t, v, 1)
prb_t_prev(t, v) == ParentStep(t, v, 0)

=============================================================================
