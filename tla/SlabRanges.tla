------------------------------ MODULE SlabRanges ------------------------------
(***************************************************************************)
(* Removing a range of keys from a sorted list with or without sublayers.  *)
(* The slabs strictly between the one where the range begins and the one   *)
(* where it ends are freed whole, then the subslabs between those that     *)
(* held them, layer by layer; what is left of the range in the two slabs   *)
(* at its edges is taken out element by element.  Nothing is merged.       *)
(***************************************************************************)
EXTENDS SlabLayers

\* Take `x' out of the subslab below it, if there is one, and free it.
Drop(t, x) ==
    unlink(IF t.below[x] = NULL THEN t ELSE remove_slab(t, x, t.below[x]), x)

\* What lies strictly between `x' and `y' in their chain.
Between(t, x, y) ==
    LET c == t.chain[LayerOf(t, x)] IN SubSeq(c, PosIn(c, x) + 1, PosIn(c, y) - 1)

rem_slabs_between(t, s, e) ==
    LET Step(u, x) == Drop(AddUsr(u, u.below[x], 0 - UsrOf(u, x)), x)
    IN  FoldLeft(Step, t, Between(t, s, e))

\* Faulty variant of RemSubslabsBetween: what is between the subslabs is not freed.
RemSubslabsBetweenNone(t, f, l) == t

\* rem_subslabs_between in every layer, from the subslabs `f' and `l' down.
RECURSIVE RemSubslabsBetween(_, _, _)
RemSubslabsBetween(t, f, l) ==
    IF f = NULL THEN t
    ELSE RemSubslabsBetween(FoldLeft(Drop, t, Between(t, f, l)), t.below[f], t.below[l])

\* is_slab_range and is_subslab_range: all of `x' lies in the range.
InRange(t, x, min, max) == min <= MinOf(t, x).key /\ MaxOf(t, x).key <= max

\* The indexes of the first and the last element of a slab that are in the range;
\* there is none when the last is below the first.
RangeFirst(s, min) == slab_bin_srch(min, s)
RangeLast(s, max) ==
    LET j == slab_bin_srch(max, s)
    IN  IF j = s.s_elems \/ max < s.s_arr[j].key THEN j - 1 ELSE j

\* Faulty variant of remove_range_elems: the minimum is not refreshed.
remove_range_elemsKeepsMin(s, min, max) ==
    LET i == RangeFirst(s, min)
        n == RangeLast(s, max) - i + 1
        a == [k \in Index |-> IF k >= i /\ k < s.s_elems - n THEN s.s_arr[k + n] ELSE s.s_arr[k]]
    IN  [s EXCEPT !.s_arr = a, !.s_elems = @ - n, !.s_max = a[s.s_elems - n - 1]]

remove_range_elems(s, min, max) ==
    LET i == RangeFirst(s, min)
        n == RangeLast(s, max) - i + 1
        a == [k \in Index |-> IF k >= i /\ k < s.s_elems - n THEN s.s_arr[k + n] ELSE s.s_arr[k]]
    IN  [s_arr |-> a, s_elems |-> s.s_elems - n,
         s_min |-> a[0], s_max |-> a[s.s_elems - n - 1]]

\* The slab has room for what remove_range_elems makes of it.  When the range ends before
\* it starts, the elements from its start on move up.
FitsAfter(s, min, max) ==
    s.s_elems - (RangeLast(s, max) - RangeFirst(s, min) + 1) <= SELEM_MAX

\* The counters and the extrema below `b', that has lost `n' elements.
TellCut(t, b, n) == IF b = NULL THEN t ELSE ripple_update_extrema(AddUsr(t, b, 0 - n), b)

\* Take what is in the range out of slab `x'; free it if that is all of it.
decruftify_slab(t, x, min, max) ==
    LET s == t.slab[x]
        b == t.below[x]
        cut == remove_range_elems(s, min, max)
    IN  IF InRange(t, x, min, max)
        THEN unlink(TellCut(IF b = NULL THEN t ELSE remove_slab(t, x, b), b, s.s_elems), x)
        ELSE TellCut([t EXCEPT !.slab[x] = cut], b, s.s_elems - cut.s_elems)

\* The elements of slab `x' that decruftify_slab removes, as the callback gets them.
Cruft(t, x, min, max) ==
    IF InRange(t, x, min, max) THEN ElemsOf(t.slab[x])
    ELSE {t.slab[x].s_arr[k] :
             k \in RangeFirst(t.slab[x], min) .. RangeLast(t.slab[x], max)}

decruftify_subslab(t, x, min, max) ==
    IF x \in DOMAIN t.sub /\ InRange(t, x, min, max) THEN Drop(t, x) ELSE t

\* decruftify_edge_slabs: the slabs at the edges, then the subslabs below them.
decruftify_edge_slabs(t, start, stop, min, max) ==
    LET P == Down(t, t.below[start])
        Q == Down(t, t.below[stop])
        Cut(u, x) == decruftify_slab(u, x, min, max)
        Sub(u, x) == decruftify_subslab(u, x, min, max)
    IN  FoldLeft(Sub, FoldLeft(Cut, t, IF start = stop THEN <<start>> ELSE <<start, stop>>),
                 [d \in 1 .. 2 * Len(P) |-> IF d % 2 = 1 THEN P[d \div 2 + 1] ELSE Q[d \div 2]])

\* When the two edges meet in one subslab, the code goes down from it on one side
\* only: it then reads that subslab again, which it may have just freed.
ReadsFreedSubslab(t, start, stop, u) ==
    LET P == Down(t, t.below[start])
        Q == Down(t, t.below[stop])
    IN  start # stop /\ \E d \in DOMAIN P :
            d < Len(P) /\ P[d] = Q[d] /\ P[d] \notin DOMAIN u.sub

\* slablist_rem_range on slabs, from the slab of `min' to that of `max', up to the
\* check for sublayers to detach.
RemoveFrom(t, smin, smax, min, max) ==
    decruftify_edge_slabs(
        IF smin = smax THEN t
        ELSE RemSubslabsBetween(rem_slabs_between(t, smin, smax), t.below[smin], t.below[smax]),
        smin, smax, min, max)

RemoveRange(t, min, max) ==
    RemoveFrom(t, find_bubble_up(t, min), find_bubble_up(t, max), min, max)

\* Faulty variant of RangeCounted: the two slabs at the edges are taken for freed.
RangeCountedEdges(t, min, max) ==
    LET smin == find_bubble_up(t, min)
        smax == find_bubble_up(t, max)
    IN  FoldSet(LAMBDA x, n : n + UsrOf(t, x), 0,
                ToSet(Between(t, smin, smax)) \cup {smin, smax})

\* The elements subtracted from sl_elems: those of the slabs that are freed.
RangeCounted(t, min, max) ==
    LET smin == find_bubble_up(t, min)
        smax == find_bubble_up(t, max)
        edges == {x \in {smin, smax} : InRange(t, x, min, max)}
        freed == ToSet(Between(t, smin, smax)) \cup edges
    IN  FoldSet(LAMBDA x, n : n + UsrOf(t, x), 0, freed)

\* Detach from the bottom as long as the layer above is short enough.
DetachAll(t, req) ==
    FoldLeft(LAMBDA u, k : TryDetach(u, req), t, [k \in 1 .. sl_sublayers(t) |-> k])

=============================================================================
