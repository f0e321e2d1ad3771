------------------------------ MODULE SlabChain ------------------------------
(***************************************************************************)
(* The chain of slabs of a list, and what the library does to it: adding   *)
(* an element in order with spilling to neighbours, merging slabs after a  *)
(* removal, reaping, and the conversions from and to a small list.         *)
(*                                                                         *)
(* A chain is the sequence of the slabs from sl_head to sl_end; linking    *)
(* and unlinking a slab are insertion and removal of a member, and         *)
(* sl_slabs is the length.  Sorted and ordered lists both use it.          *)
(***************************************************************************)
EXTENDS SlabArray, SequencesExt

CONSTANT SMELEM_MAX     \* longest small list (60 in the program)

ASSUME SmallListAssumption == SMELEM_MAX \in 1 .. SELEM_MAX - 1

\* The nodes that a head slab is turned into when the list becomes a small list,
\* and the slab that the nodes of a small list become.
slab_to_small_list(h) == [p \in 1 .. h.s_elems |-> h.s_arr[p - 1]]

small_list_to_slab(l) ==
    [s_arr   |-> [j \in Index |-> IF j < Len(l) THEN l[j + 1] ELSE NoElem],
     s_elems |-> Len(l), s_min |-> l[1], s_max |-> l[Len(l)]]

-----------------------------------------------------------------------------
(* Adding to the slabs *)

\* Faulty variant of find_linear_scan: a key equal to a maximum is passed by.
find_linear_scanStrict(ls, k) ==
    Min({a \in DOMAIN ls : a = Len(ls) \/ k < ls[a].s_max.key})

\* The first slab whose maximum is not below `k', or the last slab.
find_linear_scan(ls, k) ==
    Min({a \in DOMAIN ls : a = Len(ls) \/ k <= ls[a].s_max.key})

\* Faulty variant of HasRoom: any neighbour will do.
HasRoomAlways(ls, a) == a \in DOMAIN ls

HasRoom(ls, a) == a \in DOMAIN ls /\ ls[a].s_elems < SELEM_MAX

AddInto(ls, a, e) ==
    [ls EXCEPT ![a] = add_elem(ls[a], e, slab_bin_srch(e.key, ls[a]))]

\* Insert `e' at index `q' of the full slab `a'; its maximum goes to the next slab.
addsn(ls, a, e, q) ==
    LET s     == ls[a]
        short == DropLast(s)
        at    == IF q > short.s_elems THEN q - 1 ELSE q
    IN  [ls EXCEPT ![a]     = add_elem(short, e, at),
                   ![a + 1] = add_elem(ls[a + 1], s.s_arr[s.s_elems - 1], 0)]

\* Faulty variant of addsp: the index is not adjusted for the element shifted out.
addspAtQ(ls, a, e, q) ==
    LET pv == ls[a - 1]
    IN  [ls EXCEPT ![a]     = add_elem(DropFirst(ls[a]), e, q),
                   ![a - 1] = add_elem(pv, ls[a].s_arr[0], pv.s_elems)]

\* Insert `e' at index `q' of the full slab `a'; its minimum goes to the previous slab.
addsp(ls, a, e, q) ==
    LET s  == ls[a]
        pv == ls[a - 1]
        at == IF q > 0 THEN q - 1 ELSE q
    IN  [ls EXCEPT ![a]     = add_elem(DropFirst(s), e, at),
                   ![a - 1] = add_elem(pv, s.s_arr[0], pv.s_elems)]

\* `e' is within the extrema of slab `a'.  The code's last branch (a new
\* previous slab) is dead: the three before it exhaust the cases.
gen_add_ira(ls, a, e, rep) ==
    LET s   == ls[a]
        i   == slab_bin_srch(e.key, s)
        dup == s.s_arr[i].key = e.key
    IN  CASE dup /\ rep = 0 -> ls
          [] dup /\ rep # 0 -> [ls EXCEPT ![a].s_arr[i] = e]
          [] ~dup /\ (s.s_elems < SELEM_MAX \/ rep # 0) -> AddInto(ls, a, e)
          [] OTHER -> IF HasRoom(ls, a + 1) THEN addsn(ls, a, e, i)
                      ELSE IF HasRoom(ls, a - 1) THEN addsp(ls, a, e, i)
                      ELSE addsn(InsertAt(ls, a + 1, mk_slab), a, e, i)

\* `e' is below the minimum of slab `a'.
gen_add_ura(ls, a, e) ==
    IF HasRoom(ls, a) THEN AddInto(ls, a, e)
    ELSE IF HasRoom(ls, a - 1) THEN AddInto(ls, a - 1, e)
    ELSE IF HasRoom(ls, a + 1) THEN addsn(ls, a, e, slab_bin_srch(e.key, ls[a]))
    ELSE InsertAt(ls, a, add_elem(mk_slab, e, 0))

\* `e' is above the maximum of slab `a'.
gen_add_ora(ls, a, e) ==
    IF HasRoom(ls, a) THEN AddInto(ls, a, e)
    ELSE IF HasRoom(ls, a + 1) THEN AddInto(ls, a + 1, e)
    ELSE IF HasRoom(ls, a - 1) THEN addsp(ls, a, e, slab_bin_srch(e.key, ls[a]))
    ELSE InsertAt(ls, a + 1, add_elem(mk_slab, e, 0))

slab_gen_add(ls, e, rep) ==
    LET a  == find_linear_scan(ls, e.key)
        fs == sl_bnd_elem(e.key, ls[a])
    IN  CASE fs = "IN"    -> gen_add_ira(ls, a, e, rep)
          [] fs = "UNDER" -> gen_add_ura(ls, a, e)
          [] fs = "OVER"  -> gen_add_ora(ls, a, e)

\* Faulty variant of IsEdup: any key within the extrema is taken for a duplicate.
IsEdupWithin(ls, e, rep) ==
    rep = 0 /\ sl_bnd_elem(e.key, ls[find_linear_scan(ls, e.key)]) = "IN"

\* AC_HOW_EDUP: the slab that takes `e' holds its key and `rep' is 0.
IsEdup(ls, e, rep) ==
    LET a == find_linear_scan(ls, e.key)
    IN  /\ rep = 0
        /\ sl_bnd_elem(e.key, ls[a]) = "IN"
        /\ ls[a].s_arr[slab_bin_srch(e.key, ls[a])].key = e.key

-----------------------------------------------------------------------------
(* Merging and reaping slabs *)

\* Move what fits from slab `a' to the next, or to the previous, slab.
ToNext(ls, a) ==
    LET mv == move_to_next(ls[a], ls[a + 1])
    IN  [ls EXCEPT ![a] = mv[1], ![a + 1] = mv[2]]

ToPrev(ls, a) ==
    LET mv == move_to_prev(ls[a], ls[a - 1])
    IN  [ls EXCEPT ![a] = mv[1], ![a - 1] = mv[2]]

\* Faulty variant of slab_generic_rem: it never looks at the next slab.
slab_generic_remPrevOnly(ls, m) ==
    IF ls[m].s_elems = 0 THEN RemoveAt(ls, m)
    ELSE IF m > 1 /\ ls[m].s_elems <= SLAB_FREE_SPACE(ls[m - 1])
    THEN RemoveAt(ToPrev(ls, m), m)
    ELSE ls

\* Make slab `m' or a neighbour superfluous after a removal from `m', and
\* unlink it, if their elements fit into one slab less (a lone slab has no neighbour).
slab_generic_rem(ls, m) ==
    LET n == m + 1
        p == m - 1
        hasN == n \in DOMAIN ls
        hasP == p \in DOMAIN ls
        free(a) == SLAB_FREE_SPACE(ls[a])
    IN  IF ls[m].s_elems = 0 THEN RemoveAt(ls, m)
        ELSE IF hasN /\ ls[m].s_elems <= free(n)
        THEN RemoveAt(ToNext(ls, m), m)
        ELSE IF hasP /\ ls[m].s_elems <= free(p)
        THEN RemoveAt(ToPrev(ls, m), m)
        ELSE IF hasP /\ hasN /\ ls[m].s_elems <= free(p) + free(n)
        THEN RemoveAt(ToPrev(ToNext(ls, m), m), m)
        ELSE IF hasP /\ hasN /\ ls[n].s_elems <= free(m) + free(p)
        THEN RemoveAt(ToPrev(ToPrev(ls, m), n), n)
        ELSE IF hasP /\ hasN /\ ls[p].s_elems <= free(m) + free(n)
        THEN RemoveAt(ToNext(ToNext(ls, m), p), p)
        ELSE ls

\* One iteration of the loop of slablist_reap, at slab `a': fill it from the
\* next slab, unlink that when it is emptied, and go on to what follows.
ReapStep(ls, a) ==
    IF a >= Len(ls) \/ ls[a].s_elems = SELEM_MAX THEN ls
    ELSE LET moved == ToPrev(ls, a + 1)
         IN  IF moved[a + 1].s_elems = 0 THEN RemoveAt(moved, a + 1) ELSE moved

\* Iteration i leaves slab i behind; the loop ends when the last slab is reached.
slablist_reap(ls) ==
    LET after[i \in 0 .. Len(ls)] ==
            IF i = 0 THEN ls ELSE ReapStep(after[i - 1], i)
    IN  after[Len(ls)]

\* Reap when at least `mslabs' slabs, and `mpslabs' percent of them, can be saved.
\* The subtraction is unsigned, so a counter that is too high makes it huge.
ReapDue(slabs_now, elems, mslabs, mpslabs) ==
    LET saveable == slabs_now - (elems \div SELEM_MAX)
        enough   == saveable >= mslabs /\ 100 * saveable >= mpslabs * slabs_now
    IN  saveable < 0 \/ enough

try_reap(ls, elems, mslabs, mpslabs) ==
    IF ls # <<>> /\ ReapDue(Len(ls), elems, mslabs, mpslabs) THEN slablist_reap(ls) ELSE ls

=============================================================================
