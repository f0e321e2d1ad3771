------------------------------- MODULE TempList -------------------------------
(***************************************************************************)
(* The temporary sorted list with which slablist_sort sorts.  A flag makes *)
(* its searches go past runs of equal keys, so that the slabs take equal   *)
(* keys; its small list does not.  It is filled once, element by element,  *)
(* and never removed from or reaped.  It has fewer than the ten slabs at   *)
(* which it would get a sublayer.                                          *)
(***************************************************************************)
EXTENDS SlabChain

\* Behind the last element of `s' that is not above `k'.
slab_get_last_elem(k, s) ==
    Min({i \in 0 .. s.s_elems : i = s.s_elems \/ k < s.s_arr[i].key})

\* Faulty variant of list_get_last_slab: the run of equal keys is not followed.
list_get_last_slabFirst(ls, k, a) == a

\* The last slab, from the a-th on, that does not begin above `k'.
list_get_last_slab(ls, k, a) ==
    Max({b \in a .. Len(ls) : \A c \in a + 1 .. b : sl_bnd_elem(k, ls[c]) # "UNDER"})

\* Where an addition of `k' goes: find_linear_scan on a temporary list.  Behind an
\* equal maximum the key counts as being over the slab.
SortScan(ls, k) ==
    LET a  == find_linear_scan(ls, k)
        b  == list_get_last_slab(ls, k, a)
        fs == sl_bnd_elem(k, ls[a])
    IN  IF fs # "IN" THEN [at |-> a, fs |-> fs]
        ELSE [at |-> b, fs |-> IF k = ls[b].s_max.key THEN "OVER" ELSE "IN"]

SortInto(ls, a, e) == [ls EXCEPT ![a] = add_elem(@, e, slab_get_last_elem(e.key, @))]

\* gen_add_ira, gen_add_ura and gen_add_ora on a temporary list.  The element that
\* ira would exchange with an equal one to keep the order never meets it: the search
\* has gone behind all equal ones.
SortAddAt(ls, e, a, fs) ==
    LET q == slab_get_last_elem(e.key, ls[a])
        next == HasRoom(ls, a + 1)
        prev == HasRoom(ls, a - 1)
    IN  CASE HasRoom(ls, a) -> SortInto(ls, a, e)
          [] ~HasRoom(ls, a) /\ fs = "UNDER" ->
                IF prev THEN SortInto(ls, a - 1, e) ELSE IF next THEN addsn(ls, a, e, q)
                ELSE InsertAt(ls, a, add_elem(mk_slab, e, 0))
          [] ~HasRoom(ls, a) /\ fs = "OVER" ->
                IF next THEN SortInto(ls, a + 1, e) ELSE IF prev THEN addsp(ls, a, e, q)
                ELSE InsertAt(ls, a + 1, add_elem(mk_slab, e, 0))
          [] ~HasRoom(ls, a) /\ fs = "IN" ->
                IF next THEN addsn(ls, a, e, q) ELSE IF prev THEN addsp(ls, a, e, q)
                ELSE addsn(InsertAt(ls, a + 1, mk_slab), a, e, q)

\* small_list_add, which refuses a key that the list has, also on a temporary list.
SortAddSmall(l, e) ==
    IF \E p \in DOMAIN l : l[p].key = e.key THEN l
    ELSE InsertAt(l, Min({p \in 1 .. Len(l) + 1 : p = Len(l) + 1 \/ e.key < l[p].key}), e)

\* slablist_add_impl to the temporary list, its small list or its slabs.
SortAdd(tmp, e) ==
    LET small == tmp.slabs = <<>>
        ls == IF small THEN <<small_list_to_slab(tmp.sml)>> ELSE tmp.slabs
        at == SortScan(ls, e.key)
    IN  IF small /\ Len(tmp.sml) < SMELEM_MAX
        THEN [tmp EXCEPT !.sml = SortAddSmall(@, e)]
        ELSE [sml |-> <<>>, slabs |-> SortAddAt(ls, e, at.at, at.fs)]

\* The temporary list after the elements `es' were added, one by one.
TempFilled(es) ==
    LET after[n \in 0 .. Len(es)] ==
            IF n = 0 THEN [sml |-> <<>>, slabs |-> <<>>] ELSE SortAdd(after[n - 1], es[n])
    IN  after[Len(es)]

\* What slablist_sort leaves of a list that holds `es' in its small form or in slabs:
\* what its head points to, and the slabs that a walk from there passes.  All nodes or
\* slabs of the list are freed.  A list of slabs takes the head of the temporary list,
\* which is a node when that list is still small; a small list takes nothing, so that
\* its head is a node that was freed, or NULL if there was none.  The end, and the
\* counts of slabs and elements, stay what they were in every case.
slablist_sort(es, small) ==
    LET tmp == TempFilled(es)
    IN  IF small THEN [sl_head |-> IF es = <<>> THEN "NULL" ELSE "freed", slabs |-> <<>>]
        ELSE [sl_head |-> IF tmp.slabs = <<>> THEN "node" ELSE "slab", slabs |-> tmp.slabs]

-----------------------------------------------------------------------------
(* What sorting promises, of elements that are told apart by their values: the *)
(* value of an element is its place in what is sorted.                        *)

\* What the temporary list refuses of `es': while it is small, a key it has.
Refused(es, p) ==
    LET before == {es[i].key : i \in 1 .. p - 1}
    IN  es[p].key \in before /\ Cardinality(before) < SMELEM_MAX

Accepted(es) == {es[p] : p \in {i \in DOMAIN es : ~Refused(es, i)}}

\* `u' comes before `v': its key is lower, or it was added earlier.
Precedes(u, v) == u.key < v.key \/ (u.key = v.key /\ u.val < v.val)

\* Enough keys come before the last of `es' for the temporary list to become slabs.
Outgrows(es) == Cardinality({es[i].key : i \in 1 .. Len(es) - 1}) >= SMELEM_MAX

\* What slablist_next gives out, from the head of a list to its end.
Walked(ls) == FlattenSeq([a \in DOMAIN ls |-> Live(ls[a])])

\* A walk through the slabs `ls' gives out what was accepted of `es', no more and
\* nothing twice, in order; and no slab is empty or has wrong extrema.
SortedStably(es, ls) ==
    /\ ToSet(Walked(ls)) = Accepted(es)
    /\ \A p, q \in DOMAIN Walked(ls) : p < q => Precedes(Walked(ls)[p], Walked(ls)[q])
    /\ \A a \in DOMAIN ls :
         /\ ls[a].s_elems > 0
         /\ ls[a].s_min = ls[a].s_arr[0]
         /\ ls[a].s_max = ls[a].s_arr[ls[a].s_elems - 1]

=============================================================================
