---------------------------- MODULE RangedSlabList ----------------------------
(***************************************************************************)
(* A sorted slab list whose client also removes ranges of keys.  A ranged  *)
(* removal leaves things the other calls never leave: neighbours that fit  *)
(* into one slab, a counter that is too high, and, once the last slab is   *)
(* gone, a head pointer to it.  So this list does not implement SlabList;  *)
(* the module is about what still holds.                                   *)
(***************************************************************************)
EXTENDS LayeredSlabList, SlabRanges

CONSTANT Grown      \* lengths of the lists that a behaviour may begin with

ASSUME GrownAssumption ==
    Grown \subseteq {0} \cup {n \in Nat : n > SMELEM_MAX /\ 1 .. n \subseteq Key}

VARIABLES
    layered,        \* sl_baselayer is set: the list has, or had, a sublayer
    sl_head_freed   \* sl_head points to a slab that has been freed

rvars == <<vars, layered, sl_head_freed>>

\* The slabs and the layers of a list to which `n' keys were added in ascending order,
\* the last few of them in slab form.
GrownLayers(n) ==
    LET Elm(k) == CHOOSE e \in Elem : e.key = k
        Put(u, k) == TryAttach(layered_gen_add(u, Elm(k), 0), FirstReq)
        first == OneSlab(NoLayers, [k \in 1 .. SMELEM_MAX |-> Elm(k)])
    IN  IF n = 0 THEN NoLayers
        ELSE Renumber(FoldLeft(Put, first, [i \in 1 .. n - SMELEM_MAX |-> SMELEM_MAX + i]))

RangedInit ==
    /\ \E n \in Grown : StartsAs(GrownLayers(n), n)
    /\ layered = (sl_sublayers(t) > 0)
    /\ sl_head_freed = FALSE

\* unlink_slab of the only slab leaves sl_head as it is.
Pointers ==
    /\ layered' = (layered \/ sl_sublayers(t') > 0)
    /\ sl_head_freed' = (sl_head_freed \/ (slabs # <<>> /\ slabs' = <<>> /\ sml' = <<>>
                                              /\ sl_elems' >= SMELEM_MAX))

Crash ==
    /\ crashed' = TRUE
    /\ UNCHANGED <<sml, t, sl_elems, settings, ret, layered, sl_head_freed>>

\* A call that is not a ranged removal, while the head pointer is good.
AddElem(e, rep) == ~sl_head_freed /\ Add(e, rep) /\ Pointers

RemElem(k) == (sl_head_freed => sl_elems = 0) /\ Rem(k) /\ Pointers

ReapOrSet ==
    /\ \/ Reap
       \/ \E n \in ReapSlabs : slablist_set_reap_slabs(n)
       \/ \E n \in ReapPslabs : slablist_set_reap_pslabs(n)
       \/ \E n \in AttachReqs : slablist_set_attach_req(n)
    /\ Pointers

-----------------------------------------------------------------------------
\* slablist_rem_range of a small list.  The callback is not called.  When the last node
\* goes, sl_end is left pointing to it until another is added behind all, or the list
\* becomes slabs.  This list has no sl_end: only slablist_end and slablist_prev read it.
RemRangeSmall(min, max) ==
    LET kept == SelectSeq(sml, LAMBDA e : e.key < min \/ max < e.key) IN
    /\ IS_SMALL_LIST /\ \E p \in DOMAIN sml : min <= sml[p].key
    /\ sml' = kept
    /\ sl_elems' = sl_elems - (Len(sml) - Len(kept))
    /\ ret' = Plain!Result("SUCCESS")
    /\ UNCHANGED <<t, settings, crashed, layered, sl_head_freed>>

\* The list becomes a small list: of the head slab, whatever else is left.
Shortened(u, n) == u.chain[1] # <<>> /\ n <= SMELEM_MAX

\* The edge slabs of a range.
Edges(min, max) == {find_bubble_up(t, min), find_bubble_up(t, max)}

Counted(min, max) == sl_elems - RangeCounted(t, min, max)

\* The search does not fail, the walk from one edge meets the other, the edge slab has
\* room for what is moved in it, and nothing is read that has been freed when `r' is
\* what is left of the slabs and the layers.
SoundFor(min, max, r) ==
    LET smin == find_bubble_up(t, min)
        smax == find_bubble_up(t, max)
    IN  /\ layered /\ PosIn(t.chain[1], smin) <= PosIn(t.chain[1], smax)
        /\ smin = smax => FitsAfter(t.slab[smin], min, max)
        /\ ~ReadsFreedSubslab(t, smin, smax, r)

\* slablist_rem_range of slabs, of which `r' is left.  Layers are detached, and a list
\* that is now short becomes a small list.  A callback gets what is removed at the edges.
RemRangeSlabs(min, max, called, r) ==
    LET u == DetachAll(r, sl_req_sublayer)
        n == Counted(min, max)
        h == SlabsOf(u)[1]
    IN
    /\ sml' = IF Shortened(u, n) THEN slab_to_small_list(h) ELSE <<>>
    /\ t' = Renumber(IF Shortened(u, n) THEN WithoutSlabs(u) ELSE u)
    /\ sl_elems' = IF Shortened(u, n) THEN h.s_elems ELSE n
    /\ ret' = [st |-> "SUCCESS",
               rcb |-> IF called THEN UNION {Cruft(t, x, min, max) : x \in Edges(min, max)}
                       ELSE {}]
    /\ sl_head_freed' = (u.chain[1] = <<>>)
    /\ UNCHANGED <<settings, crashed, layered>>

\* slablist_rem_range, with or without a callback, of a range of more than one key.
\* It goes wrong when the walk of the small list, or that from slab to slab, runs past
\* its end; when a slab is written past its end; when the list never had a sublayer and
\* sl_baselayer is NULL; and when a subslab is read after it has been freed.
slablist_rem_range(min, max, called) ==
    LET r == RemoveRange(t, min, max) IN
    /\ ~sl_head_freed
    /\ \/ RemRangeSmall(min, max)
       \/ IS_SMALL_LIST /\ (\A p \in DOMAIN sml : sml[p].key < min) /\ Crash
       \/ /\ ~IS_SMALL_LIST
          /\ IF SoundFor(min, max, r) THEN RemRangeSlabs(min, max, called, r) ELSE Crash

\* slablist_xtract looks for both ends with a bookmark, whose walk leaves the list
\* as it is, and removes the range, also when its end comes before its start.  The list
\* it returns stays empty: the loops that would fill it wait for flags the search has
\* already set.
slablist_xtract(start, end) ==
    /\ {start, end} \subseteq {e.key : e \in Plain!Stored}
    /\ slablist_rem_range(start, end, FALSE)

\* Every call but a reap or a removal from a list counted empty follows sl_head.
UseFreedHead == sl_head_freed /\ Crash

RangedNext ==
    /\ ~crashed
    /\ \/ sl_elems < CountBound /\ \E e \in Elem, rep \in Reps : AddElem(e, rep)
       \/ sl_elems <= CountBound /\ \E k \in Key : RemElem(k)
       \/ ReapOrSet
       \/ \E min, max \in Key : min < max /\ slablist_rem_range(min, max, TRUE)
       \/ \E start, end \in Key : start # end /\ slablist_xtract(start, end)
       \/ UseFreedHead

RangedSpec == RangedInit /\ [][RangedNext]_rvars

\* The list up to its first ranged removal.
UnrangedNext ==
    \/ sl_elems < CountBound /\ \E e \in Elem, rep \in Reps : AddElem(e, rep)
    \/ \E k \in Key : RemElem(k)

UnrangedSpec == RangedInit /\ [][UnrangedNext]_rvars

-----------------------------------------------------------------------------
(* Properties *)

Chain(u) == FlattenSeq([a \in DOMAIN SlabsOf(u) |-> slab_to_small_list(SlabsOf(u)[a])])

\* Whatever its ends, a range takes out of the slabs the elements with its keys and
\* no other, keeps the order and the extrema of the slabs, and counts off no more
\* elements than it takes.
RangeExact ==
    \A min, max \in Key :
        min < max /\ slabs # <<>> =>
            LET u == RemoveRange(t, min, max)
                Outside(e) == e.key < min \/ max < e.key
            IN  SoundFor(min, max, u) =>
                /\ Chain(u) = SelectSeq(Chain(t), Outside)
                /\ \A x \in DOMAIN u.slab :
                     /\ u.slab[x].s_elems > 0
                     /\ u.slab[x].s_min = u.slab[x].s_arr[0]
                     /\ u.slab[x].s_max = u.slab[x].s_arr[u.slab[x].s_elems - 1]
                /\ RangeCounted(t, min, max) <= Len(Chain(t)) - Len(Chain(u))

\* No subslab is empty; its cached extrema take in those of its members and keep off
\* those of its neighbours; and in the first layer they are the extrema of its members.
\* Further down they may be wider: decruftify_subslab refreshes only the subslab that it
\* takes an emptied one out of, not those below.
ExtremaCover ==
    \A k \in 2 .. Len(t.chain) : \A p \in DOMAIN t.chain[k] :
        LET sub == t.sub[t.chain[k][p]]
        IN  /\ sub.ss_arr # <<>>
            /\ sub.ss_min.key <= MinOf(t, Head(sub.ss_arr)).key
            /\ MaxOf(t, Last(sub.ss_arr)).key <= sub.ss_max.key
            /\ k = 2 => /\ sub.ss_min = MinOf(t, Head(sub.ss_arr))
                        /\ sub.ss_max = MaxOf(t, Last(sub.ss_arr))
            /\ p < Len(t.chain[k]) => sub.ss_max.key < t.sub[t.chain[k][p + 1]].ss_min.key

\* As long as there are slabs, the layers below them index them, also after ranges were
\* cut out of several subslabs and layers at once: no slab or subslab is missing, freed
\* or out of its place, the counters are exact, and for every key the search through
\* the layers ends where a scan of the slabs ends.
IndexSurvives ==
    slabs # <<>> => IndexExact /\ ExtremaCover /\ UsrElemsExact /\ BubbleUpExact

\* The counter never falls behind the elements, whatever ranges were removed.
CountCoversStored == sl_elems >= Cardinality(Plain!Stored)

\* A list that its next call, a ranged removal, turns into a small list has one slab
\* left, so that copying the head slab copies the list.
ShortenedIsOneSlab ==
    \A min, max \in Key :
        min < max /\ slabs # <<>> =>
            LET r == RemoveRange(t, min, max)
                u == DetachAll(r, sl_req_sublayer)
            IN  SoundFor(min, max, r) /\ Shortened(u, Counted(min, max)) => Len(u.chain[1]) = 1

=============================================================================
