------------------------------ MODULE SlabReads ------------------------------
(***************************************************************************)
(* What the reading calls of a sorted slab list show their client: maps    *)
(* and folds, whole or over a range of keys, and the ends of a range.  A   *)
(* map or fold calls the client's function with one array after the other; *)
(* here it is the sequence of these arrays, the pieces.  The list is the   *)
(* one of LayeredSlabList and never changes by being read.                 *)
(***************************************************************************)
EXTENDS LayeredSlabList

\* The bounds callback on an element: is it in, under or over min .. max?
Bound(e, min, max) ==
    IF e.key < min THEN "UNDER" ELSE IF e.key > max THEN "OVER" ELSE "IN"

\* Slot `i' of the array of slab `s'; past the array, other memory.
SlotAt(s, i) == IF i \in Index THEN s.s_arr[i] ELSE NoElem

\* `n' slots of the array of slab `s', from index `i' on.
Piece(s, i, n) == [p \in 1 .. n |-> SlotAt(s, i + p - 1)]
Whole(s) == Piece(s, 0, s.s_elems)

\* The pieces of the a-th to the b-th slab, whole.
Wholes(a, b) == [p \in 1 .. b - a + 1 |-> Whole(slabs[a + p - 1])]

\* The place of the slab that a search for `k' finds.
SlabOf(k) == PosIn(t.chain[1], find_bubble_up(t, k))

-----------------------------------------------------------------------------
(* Maps and folds of the whole list *)

\* A function that is mapped is called once on a small list, also on an empty one.
slablist_map == IF IS_SMALL_LIST THEN <<sml>> ELSE Wholes(1, Len(slabs))

slablist_foldr == IF sl_elems = 0 THEN <<>> ELSE slablist_map

\* From the last slab to the first; the function goes through each array backwards.
slablist_foldl ==
    IF sl_elems = 0 THEN <<>> ELSE IF IS_SMALL_LIST THEN <<sml>>
    ELSE Reverse(Wholes(1, Len(slabs)))

-----------------------------------------------------------------------------
(* Folds of a range *)

\* One piece, from the first to the last element in bounds.
slablist_fold_range_sml(min, max) ==
    LET in == {p \in DOMAIN sml : Bound(sml[p], min, max) = "IN"}
    IN  IF in = {} THEN <<>> ELSE <<SubSeq(sml, Min(in), Max(in))>>

\* Where `k' is or belongs in slab `s'; above its last element, that element.
LiveIndex(k, s) ==
    LET i == slab_bin_srch(k, s) IN IF i = s.s_elems THEN i - 1 ELSE i

\* Faulty variant of FoldrOne: the insertion point of `max' is taken for its place.
FoldrOneWide(s, min, max) ==
    LET i == LiveIndex(min, s)
    IN  IF Bound(s.s_arr[i], min, max) # "IN" THEN <<>>
        ELSE <<Piece(s, i, LiveIndex(max, s) - i + 1)>>

\* Both ends of the range in slab `s'.
FoldrOne(s, min, max) ==
    LET i == LiveIndex(min, s)
        j == LiveIndex(max, s)
        last == IF Bound(s.s_arr[j], min, max) # "IN" /\ j > 0 THEN j - 1 ELSE j
    IN  IF Bound(s.s_arr[i], min, max) # "IN" THEN <<>> ELSE <<Piece(s, i, last - i + 1)>>

\* What follows the element where a range would begin, when that is out of bounds.
AfterFirst(a, i) ==
    IF i < slabs[a].s_elems - 1 THEN <<slabs[a].s_arr[i + 1]>>
    ELSE IF a < Len(slabs) THEN <<slabs[a + 1].s_arr[0]>> ELSE <<>>

\* The elements of slab `s' up to `max'.
FoldrLast(s, min, max) ==
    LET j == LiveIndex(max, s)
    IN  IF Bound(s.s_arr[j], min, max) = "IN" THEN <<Piece(s, 0, j + 1)>>
        ELSE IF j > 0 THEN <<Piece(s, 0, j)>> ELSE <<>>

\* The ends of the range in the a-th and, behind it, the b-th slab.
FoldrMany(a, b, min, max) ==
    LET s == slabs[a]
        i == slab_bin_srch(min, s)
        rest == Wholes(a + 1, b - 1) \o FoldrLast(slabs[b], min, max)
    IN  IF Bound(SlotAt(s, i), min, max) = "IN"
        THEN <<Piece(s, i, s.s_elems - i)>> \o rest
        ELSE IF \E e \in ToSet(AfterFirst(a, i)) : Bound(e, min, max) = "IN"
        THEN rest ELSE <<>>

slablist_foldr_range(min, max) ==
    LET a == SlabOf(min)
        b == SlabOf(max)
    IN  IF sl_elems = 0 THEN <<>>
        ELSE IF IS_SMALL_LIST THEN slablist_fold_range_sml(min, max)
        ELSE IF a = b THEN FoldrOne(slabs[a], min, max) ELSE FoldrMany(a, b, min, max)

\* Faulty variant of FoldlMany: it begins at the slab before the one of `max'.
FoldlManyShort(a, b, min, max) ==
    LET i == slab_bin_srch(min, slabs[a])
    IN  Reverse(Wholes(a + 1, b - 1)) \o <<Piece(slabs[a], i, slabs[a].s_elems - i)>>

\* The slot at the insertion point of `max' goes to the function whatever it holds.
FoldlMany(a, b, min, max) ==
    LET i == slab_bin_srch(min, slabs[a])
    IN  <<Piece(slabs[b], 0, slab_bin_srch(max, slabs[b]) + 1)>>
            \o Reverse(Wholes(a + 1, b - 1))
            \o <<Piece(slabs[a], i, slabs[a].s_elems - i)>>

\* In one slab the slot at the insertion point of `max' is left out.
FoldlOne(s, min, max) ==
    LET i == slab_bin_srch(min, s) IN <<Piece(s, i, slab_bin_srch(max, s) - i)>>

slablist_foldl_range(min, max) ==
    LET a == SlabOf(min)
        b == SlabOf(max)
    IN  IF IS_SMALL_LIST THEN slablist_fold_range_sml(min, max)
        ELSE IF a = b THEN FoldlOne(slabs[a], min, max) ELSE FoldlMany(a, b, min, max)

-----------------------------------------------------------------------------
(* Maps of a range *)

\* A map of a range goes on from the slab where it ends, and off the chain, when it
\* began there; without sublayers it looks at a slab it never searched for; in a
\* small list it runs past either end when all elements are below or above the range.
MapRangeBad(min, max) ==
    IF IS_SMALL_LIST
    THEN \/ \A p \in DOMAIN sml : sml[p].key < min
         \/ \A p \in DOMAIN sml : sml[p].key > max
    ELSE sl_sublayers(t) = 0 \/ SlabOf(min) = SlabOf(max)

\* Otherwise it shows what a fold would, and the slot where `max' belongs.
slablist_map_range(min, max) ==
    LET a == SlabOf(min)
        b == SlabOf(max)
        i == slab_bin_srch(min, slabs[a])
    IN  IF IS_SMALL_LIST THEN slablist_fold_range_sml(min, max)
        ELSE <<Piece(slabs[a], i, slabs[a].s_elems - i)>> \o Wholes(a + 1, b - 1)
                 \o <<Piece(slabs[b], 0, slab_bin_srch(max, slabs[b]) + 1)>>

-----------------------------------------------------------------------------
(* The ends of a range, with a bookmark to walk from *)

\* A bookmark: the slab's place and an index in it, or a place in the small list.
\* slablist_next from there; where the list ends it returns -1 and no element.
AllFrom(bm) ==
    IF IS_SMALL_LIST THEN SubSeq(sml, bm.at, Len(sml))
    ELSE FlattenSeq(<<Piece(slabs[bm.at], bm.i, slabs[bm.at].s_elems - bm.i)>>
                        \o Wholes(bm.at + 1, Len(slabs)))

\* The walk from a new bookmark up to the first element that is not under the range;
\* slablist_range_min and slablist_range_max do the same on a small list.
RangeSmall(min, max) ==
    LET at == Min({Len(sml)} \cup {p \in DOMAIN sml : Bound(sml[p], min, max) # "UNDER"})
    IN  [bnd |-> Bound(sml[at], min, max), e |-> sml[at], at |-> at, i |-> 0]

\* Faulty variant of RangeSlab: the range begins behind the place of `k'.
RangeSlabBehind(k, min, max) ==
    LET a == SlabOf(k)
        i == Min({LiveIndex(k, slabs[a]) + 1, slabs[a].s_elems - 1})
        e == slabs[a].s_arr[i]
    IN  [bnd |-> Bound(e, min, max), e |-> e, at |-> a, i |-> i]

\* The element at the place of `k', or the last one of the slab it was sought in.
RangeSlab(k, min, max) ==
    LET a == SlabOf(k)
        i == LiveIndex(k, slabs[a])
        e == slabs[a].s_arr[i]
    IN  [bnd |-> Bound(e, min, max), e |-> e, at |-> a, i |-> i]

slablist_range_min(min, max) ==
    IF IS_SMALL_LIST THEN RangeSmall(min, max) ELSE RangeSlab(min, min, max)

slablist_range_max(min, max) ==
    IF IS_SMALL_LIST THEN RangeSmall(min, max) ELSE RangeSlab(max, min, max)

-----------------------------------------------------------------------------
(* Properties *)

Contents == IF IS_SMALL_LIST THEN sml ELSE FlattenSeq(Wholes(1, Len(slabs)))
Shown(min, max) == SelectSeq(Contents, LAMBDA e : Bound(e, min, max) = "IN")
Backwards(pieces) == FlattenSeq([p \in DOMAIN pieces |-> Reverse(pieces[p])])

\* A fold of the whole list shows every element once and in order, from either side
\* and in either form; a fold of a range shows exactly the elements in it, wherever its
\* ends fall: on elements, between two of them or two slabs, or outside of the list.
FoldsExact ==
    /\ FlattenSeq(slablist_foldr) = Contents
    /\ Backwards(slablist_foldl) = Reverse(Contents)
    /\ \A min, max \in Key :
         min <= max => FlattenSeq(slablist_foldr_range(min, max)) = Shown(min, max)

\* A backward fold of a range, and a range map that returns, miss no element of a range
\* whose ends lie in different slabs, and show at most one slot more: the last one, at
\* the place where `max' belongs.
RangesCovered ==
    \A min, max \in Key :
        min <= max /\ ~IS_SMALL_LIST =>
            LET own == Shown(min, max)
                All == FlattenSeq(slablist_map_range(min, max))
                Back == Reverse(Backwards(slablist_foldl_range(min, max)))
            IN  /\ SlabOf(min) # SlabOf(max) => own \in {Back, Front(Back)}
                /\ ~MapRangeBad(min, max) => own \in {All, Front(All)}

\* slablist_range_min returns 0 exactly when an element is in the range; it is then the
\* least, and a walk from the bookmark goes through all of the range first.  Of slabs
\* slablist_range_max returns the first element not below `max', or else the last one.
RangeEndsExact ==
    \A min, max \in Key :
        min <= max /\ Contents # <<>> =>
            LET r == slablist_range_min(min, max)
                own == Shown(min, max)
                above == SelectSeq(Contents, LAMBDA e : max <= e.key)
            IN  /\ r.bnd = "IN" <=> own # <<>>
                /\ r.bnd = "IN" => IsPrefix(own, AllFrom(r)) /\ r.e = own[1]
                /\ ~IS_SMALL_LIST => slablist_range_max(min, max).e =
                       IF above = <<>> THEN Last(Contents) ELSE above[1]

=============================================================================
