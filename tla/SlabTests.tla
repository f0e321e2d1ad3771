------------------------------ MODULE SlabTests ------------------------------
(***************************************************************************)
(* The consistency tests that the list runs on itself while it is traced   *)
(* (slablist_test.c).  Each is a predicate here: it holds when the test    *)
(* reports nothing; which error it reports is left out.  A test that is    *)
(* quiet on every call of a correct list, and only then, is worth having.  *)
(* Left out are the tests of ranged removals and of positional reads,      *)
(* which are of calls that this list does not get here, and those that     *)
(* nothing calls (test_ripple_add_slab, test_ripple_add_subslab).          *)
(***************************************************************************)
EXTENDS SlabReads

ArrOf(u, x) == IF IsSlab(u, x) THEN slab_to_small_list(u.slab[x]) ELSE u.sub[x].ss_arr

-----------------------------------------------------------------------------
(* Small lists *)

test_smlist_nelems == Len(sml) >= sl_elems /\ (sl_elems = 0 => sml = <<>>)

\* After head slab `h' became a small list.
test_slab_to_sml(h) ==
    LET list == slab_to_small_list(h)
    IN  \A i \in 1 .. h.s_elems : h.s_arr[i - 1].key = list[i].key

test_smlist_elems_sorted == \A p \in 1 .. sl_elems - 1 : sml[p].key <= sml[p + 1].key

-----------------------------------------------------------------------------
(* Slabs and subslabs *)

test_slab_extrema(s) == s.s_min = s.s_arr[0] /\ s.s_max = s.s_arr[s.s_elems - 1]

\* Neither extremum of `x' is beyond one of its neighbours'.
InOrder(u, x) ==
    LET Below(y, z) == y # NULL /\ z # NULL =>
            /\ MaxOf(u, y).key <= MinOf(u, z).key /\ MaxOf(u, y).key <= MaxOf(u, z).key
            /\ MinOf(u, y).key <= MinOf(u, z).key /\ MinOf(u, y).key <= MaxOf(u, z).key
    IN  Below(PrevOf(u, x), x) /\ Below(x, NextOf(u, x))

test_slab(u, x) ==
    LET s == u.slab[x] IN
    s.s_elems > 0 =>
        /\ sl_sublayers(u) > 0 => u.below[x] # NULL
        /\ test_slab_extrema(s)
        /\ \A i \in 0 .. s.s_elems - 2 : s.s_arr[i].key <= s.s_arr[i + 1].key
        /\ InOrder(u, x)

test_subslab(u, x) ==
    LET arr == u.sub[x].ss_arr IN
    arr # <<>> =>
        /\ NULL \notin ToSet(arr)
        /\ \A j \in 1 .. Len(arr) - 1 : MaxOf(u, arr[j]).key <= MaxOf(u, arr[j + 1]).key
        /\ InOrder(u, x)

\* The members follow each other in their chain.
test_subslab_ref(u, x) ==
    \A j \in 1 .. Len(u.sub[x].ss_arr) - 1 : NextOf(u, u.sub[x].ss_arr[j]) = u.sub[x].ss_arr[j + 1]

test_subslab_usr_elems(u, x) == u.sub[x].ss_usr_elems = UsrOfAll(u, u.sub[x].ss_arr)

get_first_slab(u, x) ==
    LET first[y \in Ids(u)] == IF IsSlab(u, y) THEN y ELSE first[Head(u.sub[y].ss_arr)]
    IN  first[x]

get_last_slab(u, x) ==
    LET last[y \in Ids(u)] == IF IsSlab(u, y) THEN y ELSE last[Last(u.sub[y].ss_arr)]
    IN  last[x]

test_subslab_extrema(u, x) ==
    LET f == u.slab[get_first_slab(u, x)]
        l == u.slab[get_last_slab(u, x)]
    IN  /\ u.sub[x].ss_min.key = f.s_min.key /\ u.sub[x].ss_min.key = f.s_arr[0].key
        /\ u.sub[x].ss_max.key = l.s_max.key /\ u.sub[x].ss_max.key = l.s_arr[l.s_elems - 1].key

\* The code runs the two searches of `x' as well.  For a slab SlabSearch is about
\* them; for a subslab their verdict is not looked at.
test_find_bubble_up(u, x) ==
    IF IsSlab(u, x) THEN test_slab(u, x)
    ELSE /\ test_subslab(u, x) /\ test_subslab_ref(u, x)
         /\ test_subslab_extrema(u, x) /\ test_subslab_usr_elems(u, x)

-----------------------------------------------------------------------------
(* Additions and removals *)

\* Before `k' is added to slab `x' at index `i'.
test_add_elem(u, x, k, i) ==
    LET s == u.slab[x] IN
    /\ test_slab(u, x)
    /\ s.s_elems = 0 => i = 0
    /\ i > 0 /\ i <= s.s_elems => s.s_arr[i - 1].key <= k
    /\ i < s.s_elems => k <= s.s_arr[i].key

\* Before `y' is added to subslab `x' at index `i'.
test_add_slab(u, x, y, i) ==
    LET arr == u.sub[x].ss_arr
        k   == MaxOf(u, y).key
    IN
    /\ test_subslab(u, x)
    /\ arr = <<>> => i = 0
    /\ arr # <<>> /\ i > 0 => MaxOf(u, arr[i]).key <= k
    /\ i < Len(arr) => k <= MaxOf(u, arr[i + 1]).key

test_remove_elem(u, x, i) == test_slab(u, x) /\ i <= SELEM_MAX - 1

\* After the i-th pointer was taken from subslab `x'.
test_remove_slab(u, x, i) == test_subslab(u, x) /\ i <= SUBELEM_MAX - 1

\* The move tests: `from' and `old' are the contents of the giver and the taker
\* before the move, `room' the free space of the taker, `new' its contents after it.
\* test_slab_move_next and test_subslab_move_next.
test_move_next(from, old, room, new) ==
    LET n == IF Len(from) >= room THEN Len(from) - room ELSE 0
    IN  IsPrefix(SubSeq(from, n + 1, Len(from)) \o old, new)

\* test_slab_move_prev and test_subslab_move_prev.
test_move_prev(from, old, room, new) ==
    LET n == IF Len(from) >= room THEN room ELSE Len(from)
    IN  IsSuffix(old \o SubSeq(from, 1, n), new)

-----------------------------------------------------------------------------
(* Folds of a range *)

\* What the test's function notes of a forward fold: the elements in bounds.
FoldrInfo(pieces, min, max) ==
    LET in == SelectSeq(FlattenSeq(pieces), LAMBDA e : Bound(e, min, max) = "IN")
    IN  [touched |-> Len(in), first |-> IF in = <<>> THEN NoElem ELSE Head(in),
         last |-> IF in = <<>> THEN NoElem ELSE Last(in)]

test_slablist_foldr_range(min, max) ==
    FoldrInfo(slablist_foldr, min, max) = FoldrInfo(slablist_foldr_range(min, max), min, max)

\* Of a backward fold its function notes every element, in bounds or not.
FoldlInfo(pieces) ==
    LET all == Backwards(pieces)
    IN  [touched |-> Len(all), first |-> IF all = <<>> THEN NoElem ELSE Head(all),
         last |-> IF all = <<>> THEN NoElem ELSE Last(all)]

test_slablist_foldl_range(min, max) ==
    FoldlInfo(slablist_foldl) = FoldlInfo(slablist_foldl_range(min, max))

-----------------------------------------------------------------------------
(* Properties *)

\* What the tests look at while the freed r.freed is taken out of the subslab below it,
\* and what is freed by that out of the next one: the loop of ripple_rem_to_sublayers.
\* A subslab that goes to the one before it (`back') leaves that one's maximum as it
\* was until the loop is over, so the extrema are not right further down.
RECURSIVE TestsOfRipple(_, _, _)
TestsOfRipple(r, below, back) ==
    r.freed # NULL /\ below # NULL =>
        LET u  == remove_slab(r.t, r.freed, below)
            to == RoomFor(u, below)
        IN  /\ test_remove_slab(u, below, PosIn(r.t.sub[below].ss_arr, r.freed) - 1)
            /\ u.sub[below].ss_arr # <<>> /\ ~back => test_subslab_extrema(u, below)
            /\ TestsOfRipple(generic_rem(u, below), r.t.below[below],
                             back \/ (to # <<>> /\ Last(to) = PrevOf(u, below)))

TestsOfRemoval(x, i) ==
    LET short == [t EXCEPT !.slab[x] = remove_elem(i, t.slab[x])]
    IN  TestsOfRipple(generic_rem(AddUsr(short, t.below[x], 0 - 1), x), t.below[x], FALSE)

\* What the tests that run while `e' is added or removed look at.  A new slab is in
\* the chain already when it goes into the subslab below it.
TestsOfCall(e, x, i, fs) ==
    LET n == Fresh(t)
        u == LinkNew(t, e, x, PosIn(t.chain[1], x), fs, i)
        p == u.below[n]
        v == ripple_update_extrema(u, p)
    IN  IF HoldsKey(t, x, e.key)
        THEN /\ test_remove_elem(t, x, i)
             /\ t.slab[x].s_elems > 1 => test_slab_extrema(remove_elem(i, t.slab[x]))
             /\ TestsOfRemoval(x, i)
        ELSE /\ test_add_elem(t, x, e.key, i)
             /\ AddWhere(t, x, fs) = "new" /\ p # NULL =>
                  (Room(v, p) => test_add_slab(v, p, n, PlaceOf(v, n, p)))

\* What the tests look at that compare two neighbours with copies made before elements
\* or pointers were moved between them, whichever neighbours those are.
TestsOfMoves ==
    \A k \in DOMAIN t.chain : \A p \in 1 .. Len(t.chain[k]) - 1 :
        LET x == t.chain[k][p]
            y == t.chain[k][p + 1]
        IN  /\ FreeSpace(t, y) > 0 =>
                 test_move_next(ArrOf(t, x), ArrOf(t, y), FreeSpace(t, y), ArrOf(Move(t, x, y), y))
            /\ FreeSpace(t, x) > 0 =>
                 test_move_prev(ArrOf(t, y), ArrOf(t, x), FreeSpace(t, x), ArrOf(Move(t, y, x), x))

\* The tests report nothing: between two calls, in either form and in any layer; on
\* the way of a search; half way through an addition or a removal; after any move
\* between neighbours, where they find all that was to be moved; and when a list becomes
\* small or is folded over a range.  Two do report a correct list: that of the extrema
\* of a subslab below one that was just merged into its previous one; and that of
\* backward folds, which holds the range against the whole list, so that it is quiet
\* only for the ranges for which the fold happens to show all of it.
TestsQuiet ==
    /\ \A min, max \in Key : min <= max =>
          /\ test_slablist_foldr_range(min, max)
          /\ test_slablist_foldl_range(min, max)
                 <=> Backwards(slablist_foldl_range(min, max)) = Reverse(Contents)
    /\ IF IS_SMALL_LIST THEN test_smlist_nelems /\ test_smlist_elems_sorted
       ELSE /\ TestsOfMoves /\ test_slab_to_sml(slabs[1])
            /\ \A x \in Ids(t) : test_find_bubble_up(t, x)
            /\ \A e \in Elem :
                 LET x == find_bubble_up(t, e.key)
                 IN  TestsOfCall(e, x, slab_bin_srch(e.key, t.slab[x]), BndOf(t, e.key, x))

=============================================================================
