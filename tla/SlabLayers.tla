------------------------------ MODULE SlabLayers ------------------------------
(***************************************************************************)
(* The sublayers of a sorted slab list.  Layer 0 is the chain of slabs.    *)
(* Every layer below it is a chain of subslabs whose arrays point to the   *)
(* slabs or subslabs of the layer above; the last one is the baselayer.    *)
(* A slab or subslab points back to the subslab that holds it (s_below,    *)
(* ss_below), and a subslab caches the extrema of its range and the number *)
(* of user elements above it.                                              *)
(*                                                                         *)
(* A list `t' is a heap of slabs and subslabs:                             *)
(*   chain[1]      the slabs in list order; chain[k + 1] those of layer k  *)
(*   slab, sub     the contents, by id (the address of the program)        *)
(*   below         s_below and ss_below, by id                             *)
(* The code has every function twice, for slab_t and for subslab_t; here   *)
(* MinOf, MaxOf and UsrOf read either kind and the functions are one.      *)
(***************************************************************************)
EXTENDS SlabChain

CONSTANT SUBELEM_MAX    \* pointers a subslab can hold (512 in the program)

ASSUME SubslabSizeAssumption == SUBELEM_MAX \in Nat /\ SUBELEM_MAX >= 2

NULL == 0

NoLayers == [chain |-> << <<>> >>, slab |-> <<>>, sub |-> <<>>, below |-> <<>>]

Ids(t) == DOMAIN t.slab \cup DOMAIN t.sub

sl_sublayers(t) == Len(t.chain) - 1
baselayer(t) == Last(t.chain)

IsSlab(t, x) == x \in DOMAIN t.slab
MinOf(t, x) == IF IsSlab(t, x) THEN t.slab[x].s_min ELSE t.sub[x].ss_min
MaxOf(t, x) == IF IsSlab(t, x) THEN t.slab[x].s_max ELSE t.sub[x].ss_max
UsrOf(t, x) == IF IsSlab(t, x) THEN t.slab[x].s_elems ELSE t.sub[x].ss_usr_elems
\* The user elements above the subslabs or slabs `arr'.
UsrOfAll(t, arr) == FoldLeft(LAMBDA n, x : n + UsrOf(t, x), 0, arr)

ElemCount(t, x) == IF IsSlab(t, x) THEN t.slab[x].s_elems ELSE Len(t.sub[x].ss_arr)
FreeSpace(t, x) == (IF IsSlab(t, x) THEN SELEM_MAX ELSE SUBELEM_MAX) - ElemCount(t, x)

\* The chain `x' is a member of, its place there, and its neighbours.
LayerOf(t, x) == CHOOSE k \in DOMAIN t.chain : x \in ToSet(t.chain[k])
PosIn(c, x) == CHOOSE p \in DOMAIN c : c[p] = x
Neighbour(c, p) == IF p \in DOMAIN c THEN c[p] ELSE NULL
NextOf(t, x) == LET c == t.chain[LayerOf(t, x)] IN Neighbour(c, PosIn(c, x) + 1)
PrevOf(t, x) == LET c == t.chain[LayerOf(t, x)] IN Neighbour(c, PosIn(c, x) - 1)

\* What the walk `p = p->ss_below' visits from `p' on.
Down(t, p) ==
    LET at[k \in 1 .. Len(t.chain)] ==
            IF k = 1 THEN p
            ELSE IF at[k - 1] = NULL THEN NULL ELSE t.below[at[k - 1]]
    IN  SelectSeq([k \in 1 .. Len(t.chain) |-> at[k]], LAMBDA x : x # NULL)

-----------------------------------------------------------------------------
(* Counters and extrema below a change *)

\* Add `n' to ss_usr_elems of `p' and of everything below it.
AddUsr(t, p, n) ==
    LET path == ToSet(Down(t, p))
    IN  [t EXCEPT !.sub = [x \in DOMAIN t.sub |->
            IF x \in path THEN [t.sub[x] EXCEPT !.ss_usr_elems = @ + n] ELSE t.sub[x]]]

ripple_inc_usr_elems(t, p) == AddUsr(t, p, 1)

\* subslab_update_extrema of each of `xs', subslabs of one layer or NULL.
UpdateExtrema(t, xs) ==
    LET Updated(s) == [s EXCEPT !.ss_min = MinOf(t, Head(s.ss_arr)),
                                !.ss_max = MaxOf(t, Last(s.ss_arr))]
    IN  [t EXCEPT !.sub = [x \in DOMAIN @ |->
            IF x \in xs /\ @[x].ss_arr # <<>> THEN Updated(@[x]) ELSE @[x]]]

subslab_update_extrema(t, x) == UpdateExtrema(t, {x})

\* Faulty variant of ripple_update_extrema: the neighbours are left alone.
ripple_update_extremaAlone(t, p) == FoldLeft(subslab_update_extrema, t, Down(t, p))

\* Refresh `p', its neighbours, and those below them, downwards.
ripple_update_extrema(t, p) ==
    LET Step(u, x) == UpdateExtrema(u, {x, NextOf(u, x), PrevOf(u, x)})
    IN  FoldLeft(Step, t, Down(t, p))

-----------------------------------------------------------------------------
(* Searching *)

BndOf(t, k, x) ==
    IF k > MaxOf(t, x).key THEN "OVER" ELSE IF k < MinOf(t, x).key THEN "UNDER" ELSE "IN"

\* Faulty variant of subslab_bin_srch: a key between two members goes to the first.
subslab_bin_srchBefore(t, k, s) ==
    LET arr == t.sub[s].ss_arr
    IN  Max({0} \cup {i \in 0 .. Len(arr) - 1 : BndOf(t, k, arr[i + 1]) # "UNDER"})

\* The index of the member of subslab `s' that `k' is in bounds of, or belongs
\* before.  The loop halves min .. max as long as `k' is out of bounds.
subslab_bin_srch(t, k, s) ==
    LET arr == t.sub[s].ss_arr
        n   == Len(arr)
        bnd(i) == BndOf(t, k, arr[i + 1])
        out(min) == LET m == IF min >= n THEN n - 1 ELSE min
                    IN  IF bnd(m) = "OVER" THEN m + 1 ELSE m
        srch[min \in 0 .. n, max \in -1 .. n - 1] ==
            LET mid == (min + max) \div 2
            IN  IF max < min THEN out(min)
                ELSE CASE bnd(mid) = "OVER"  -> srch[mid + 1, max]
                       [] bnd(mid) = "UNDER" -> srch[min, mid - 1]
                       [] bnd(mid) = "IN"    -> mid
    IN  srch[0, n - 1]

\* find_subslab_in_subslab and find_slab_in_subslab.
FindIn(t, k, s) ==
    LET x == subslab_bin_srch(t, k, s)
        n == Len(t.sub[s].ss_arr)
    IN  t.sub[s].ss_arr[IF x > n - 1 THEN n ELSE x + 1]

\* The first member of a layer that `k' is not over, or the last one.
ScanLayer(t, c, k) ==
    c[Min({p \in DOMAIN c : p = Len(c) \/ BndOf(t, k, c[p]) # "OVER"})]

\* The slab for `k': scan the baselayer, then search upwards layer by layer.
\* Without sublayers the baselayer is the slabs: find_linear_scan.
find_bubble_up(t, k) ==
    LET up[n \in 0 .. sl_sublayers(t)] ==
            IF n = 0 THEN ScanLayer(t, baselayer(t), k) ELSE FindIn(t, k, up[n - 1])
    IN  up[sl_sublayers(t)]

-----------------------------------------------------------------------------
(* Linking *)

Fresh(t) == Max({0} \cup Ids(t)) + 1

NoSubslab == [ss_min |-> NoElem, ss_max |-> NoElem, ss_usr_elems |-> 0, ss_arr |-> <<>>]

\* Make a slab or subslab and link it after (`d' = 1) or before (`d' = 0) `y'.
link(t, y, d) ==
    LET k == LayerOf(t, y)
        x == Fresh(t)
        u == [t EXCEPT !.chain[k] = InsertAt(@, PosIn(@, y) + d, x),
                       !.below = @ @@ (x :> t.below[y])]
    IN  IF IsSlab(t, y) THEN [u EXCEPT !.slab = @ @@ (x :> mk_slab)]
        ELSE [u EXCEPT !.sub = @ @@ (x :> NoSubslab)]

unlink(t, x) ==
    [chain |-> [k \in DOMAIN t.chain |-> SelectSeq(t.chain[k], LAMBDA y : y # x)],
     slab  |-> Restrict(t.slab, DOMAIN t.slab \ {x}),
     sub   |-> Restrict(t.sub, DOMAIN t.sub \ {x}),
     below |-> Restrict(t.below, DOMAIN t.below \ {x})]

-----------------------------------------------------------------------------
(* Adding a new slab or subslab to the layers below it *)

\* Faulty variant of add_slab: a slab that was in another subslab still points there.
add_slabKeepsBelow(t, s, x, i) ==
    LET n == Len(t.sub[s].ss_arr)
    IN  [t EXCEPT !.sub[s].ss_arr = InsertAt(@, i + 1, x),
                  !.sub[s].ss_min = IF i = 0 THEN MinOf(t, x) ELSE @,
                  !.sub[s].ss_max = IF i = n THEN MaxOf(t, x) ELSE @]

\* Point to `x' at index `i' of subslab `s'.  Every caller has made room.
add_slab(t, s, x, i) ==
    LET n == Len(t.sub[s].ss_arr)
    IN  [t EXCEPT !.below[x] = s,
                  !.sub[s].ss_arr = InsertAt(@, i + 1, x),
                  !.sub[s].ss_min = IF i = 0 THEN MinOf(t, x) ELSE @,
                  !.sub[s].ss_max = IF i = n THEN MaxOf(t, x) ELSE @]

PlaceOf(t, x, s) == subslab_bin_srch(t, MaxOf(t, x).key, s)

\* Move `n' user elements from the counters below `s' to those below `d'.
ShiftUsr(t, s, d, n) ==
    LET from == ToSet(Down(t, s))
        to   == ToSet(Down(t, d))
        Shifted(x, m) == m + (IF x \in to THEN n ELSE 0) - (IF x \in from THEN n ELSE 0)
    IN  [t EXCEPT !.sub = [x \in DOMAIN @ |-> [@[x] EXCEPT !.ss_usr_elems = Shifted(x, @)]]]

\* Faulty variant of sub_addsn: the counters do not follow the moved pointer.
sub_addsnKeepsUsr(t, s, x) ==
    LET arr   == t.sub[s].ss_arr
        short == [t EXCEPT !.sub[s].ss_arr = Front(arr),
                           !.sub[s].ss_max = MaxOf(t, arr[Len(arr) - 1])]
    IN  add_slab(add_slab(short, NextOf(t, s), Last(arr), 0), s, x, PlaceOf(short, x, s))

\* Insert `x' into the full subslab `s'; its last pointer goes to the next subslab.
sub_addsn(t, s, x) ==
    LET arr   == t.sub[s].ss_arr
        nx    == NextOf(t, s)
        short == [t EXCEPT !.sub[s].ss_arr = Front(arr),
                           !.sub[s].ss_max = MaxOf(t, arr[Len(arr) - 1])]
        moved == add_slab(add_slab(short, nx, Last(arr), 0), s, x, PlaceOf(short, x, s))
    IN  ShiftUsr(moved, s, nx, UsrOf(t, Last(arr)))

\* Insert `x' into the full subslab `s'; its first pointer goes to the previous subslab.
sub_addsp(t, s, x) ==
    LET arr   == t.sub[s].ss_arr
        pv    == PrevOf(t, s)
        short == [t EXCEPT !.sub[s].ss_arr = Tail(arr), !.sub[s].ss_min = MinOf(t, arr[2])]
        j     == IF t.sub[pv].ss_arr = <<>> THEN 0 ELSE PlaceOf(short, Head(arr), pv)
        moved == add_slab(add_slab(short, pv, Head(arr), j), s, x, PlaceOf(short, x, s))
    IN  ShiftUsr(moved, s, pv, UsrOf(t, Head(arr)))

Room(t, y) == y # NULL /\ FreeSpace(t, y) > 0

\* Where an addition to `s', that the added thing is in bounds of, under or over,
\* goes: into `s' or a neighbour, into `s' with its outermost member spilling into
\* a neighbour, or into a new one.  gen_add_ira, gen_add_ura and gen_add_ora decide
\* this the same way for slabs and subslabs; their last branches are dead.
AddWhere(t, s, status) ==
    LET nx == Room(t, NextOf(t, s))
        pv == Room(t, PrevOf(t, s))
    IN  CASE Room(t, s) -> "into"
          [] ~Room(t, s) /\ status = "IN" ->
                IF nx THEN "spillNext" ELSE IF pv THEN "spillPrev" ELSE "new"
          [] ~Room(t, s) /\ status = "UNDER" ->
                IF pv THEN "intoPrev" ELSE IF nx THEN "spillNext" ELSE "new"
          [] ~Room(t, s) /\ status = "OVER" ->
                IF nx THEN "intoNext" ELSE IF pv THEN "spillPrev" ELSE "new"

\* Put `x' where AddWhere says; `status' is what it was asked with.
AddPtr(t, s, x, where, status) ==
    CASE where = "into"      -> add_slab(t, s, x, PlaceOf(t, x, s))
      [] where = "intoNext"  -> add_slab(t, NextOf(t, s), x, PlaceOf(t, x, NextOf(t, s)))
      [] where = "intoPrev"  -> add_slab(t, PrevOf(t, s), x, PlaceOf(t, x, PrevOf(t, s)))
      [] where = "spillPrev" -> sub_addsp(t, s, x)
      [] where = "spillNext" -> sub_addsn(t, s, x)
      [] where = "new" /\ status = "IN"    -> sub_addsn(link(t, s, 1), s, x)
      [] where = "new" /\ status = "UNDER" -> add_slab(link(t, s, 0), Fresh(t), x, 0)
      [] where = "new" /\ status = "OVER"  -> add_slab(link(t, s, 1), Fresh(t), x, 0)

AddPtrAs(t, s, x, where, status) ==
    [t |-> AddPtr(t, s, x, where, status), new |-> IF where = "new" THEN Fresh(t) ELSE NULL]

\* Put `x' into subslab `s', or where its neighbours allow; the result names the
\* subslab made for it, if any.
subslab_gen_add(t, s, x) ==
    LET status == BndOf(t, MinOf(t, x).key, s)
    IN  AddPtrAs(t, s, x, AddWhere(t, s, status), status)

\* Put the new slab or subslab r.new into the layer below it, and whatever is made
\* there into the next one.
RECURSIVE RippleUp(_)
RippleUp(r) ==
    IF r.new = NULL THEN r.t
    ELSE IF r.t.below[r.new] = NULL THEN r.t
    ELSE RippleUp(subslab_gen_add(r.t, r.t.below[r.new], r.new))

\* What ripple_common does after that: the extrema again, and the counters.
RippleCounts(t, p, n) == ripple_inc_usr_elems(ripple_update_extrema(t, p), t.below[n])

\* Tell the layers below of the new slab `n'.
ripple_common(t, n) ==
    LET p == t.below[n]
    IN  IF p = NULL THEN t
        ELSE RippleCounts(RippleUp([t |-> ripple_update_extrema(t, p), new |-> n]), p, n)

-----------------------------------------------------------------------------
(* Adding an element *)

SlabsOf(t) == [p \in DOMAIN t.chain[1] |-> t.slab[t.chain[1][p]]]

\* The list with the contents `ls' in its slabs.
WithSlabs(t, ls) ==
    [t EXCEPT !.slab = [x \in DOMAIN t.slab |-> ls[PosIn(t.chain[1], x)]]]

\* ripple_ai, ripple_aa, ripple_ab, ripple_aisn and ripple_aisp: the extrema below
\* slab `x', and the counters below slab `y' that has grown.
ripple(t, x, y) ==
    IF t.below[x] = NULL THEN t
    ELSE ripple_inc_usr_elems(ripple_update_extrema(t, t.below[x]), t.below[y])

\* Does slab `s' hold the key `k' where an addition of `k' looks?
HoldsKey(t, s, k) ==
    /\ BndOf(t, k, s) = "IN"
    /\ t.slab[s].s_arr[slab_bin_srch(k, t.slab[s])].key = k

\* A new slab beside slab `s', the a-th, with `e' in it; or, when `e' is in the bounds
\* of `s', with what `s' spills to it.
LinkNew(t, e, s, a, fs, q) ==
    LET u == link(t, s, IF fs = "UNDER" THEN 0 ELSE 1)
    IN  IF fs = "IN" THEN WithSlabs(u, addsn(SlabsOf(u), a, e, q))
        ELSE [u EXCEPT !.slab[Fresh(t)] = add_elem(mk_slab, e, 0)]

AddNew(t, e, s, a, fs, q) == ripple_common(LinkNew(t, e, s, a, fs, q), Fresh(t))

Spills(where) == where \in {"spillNext", "spillPrev"}

\* The slab that AddWhere names.
Dest(t, s, where) ==
    CASE where = "into" -> s
      [] where \in {"intoNext", "spillNext"} -> NextOf(t, s)
      [] where \in {"intoPrev", "spillPrev"} -> PrevOf(t, s)

\* Add `e' to slab `s', the a-th, or to its neighbour `d'.
AddOld(t, e, s, a, where, d, q) ==
    LET ls == SlabsOf(t)
        to == CASE where = "spillNext" -> addsn(ls, a, e, q)
                [] where = "spillPrev" -> addsp(ls, a, e, q)
                [] ~Spills(where)      -> AddInto(ls, PosIn(t.chain[1], d), e)
    IN  ripple(WithSlabs(t, to), IF Spills(where) THEN d ELSE s, d)

AddAt(t, e, s, a, fs, where, q) ==
    IF where = "new" THEN AddNew(t, e, s, a, fs, q)
    ELSE AddOld(t, e, s, a, where, Dest(t, s, where), q)

\* slab_gen_add for slab `s', with the ripples of each branch: gen_add_ira, _ura and
\* _ora.  With `rep' set a key in the bounds of a full slab goes into it all the same.
AddIn(t, e, rep, s, fs) ==
    LET q == slab_bin_srch(e.key, t.slab[s])
    IN  IF HoldsKey(t, s, e.key)
        THEN IF rep = 0 THEN t ELSE [t EXCEPT !.slab[s].s_arr[q] = e]
        ELSE AddAt(t, e, s, PosIn(t.chain[1], s), fs,
                   IF fs = "IN" /\ rep # 0 THEN "into" ELSE AddWhere(t, s, fs), q)

AddFound(t, e, rep, s) == AddIn(t, e, rep, s, BndOf(t, e.key, s))

layered_gen_add(t, e, rep) == AddFound(t, e, rep, find_bubble_up(t, e.key))

-----------------------------------------------------------------------------
(* Attaching and detaching the baselayer *)

\* One subslab takes the whole baselayer, however long it is.
attach_sublayer(t) ==
    LET base == baselayer(t)
        x    == Fresh(t)
    IN  [t EXCEPT
            !.chain = Append(@, <<x>>),
            !.sub = @ @@ (x :> [ss_min |-> MinOf(t, Head(base)),
                                ss_max |-> MaxOf(t, Last(base)),
                                ss_usr_elems |-> UsrOfAll(t, base),
                                ss_arr |-> base]),
            !.below = [y \in Ids(t) \cup {x} |->
                          IF y = x THEN NULL
                          ELSE IF y \in ToSet(base) THEN x ELSE t.below[y]]]

\* Attach when the baselayer is as long as the client allows it to be.
TryAttach(t, req) == IF req > 0 /\ Len(baselayer(t)) >= req THEN attach_sublayer(t) ELSE t

\* Free the baselayer.
detach_sublayer(t) ==
    LET gone == ToSet(baselayer(t))
        kept == Ids(t) \ gone
    IN  [t EXCEPT !.chain = Front(@),
                  !.sub = Restrict(@, DOMAIN t.sub \ gone),
                  !.below = [y \in kept |-> IF t.below[y] \in gone THEN NULL ELSE t.below[y]]]

\* Detach when the layer above the baselayer is shorter than the client's
\* requirement: at most one layer per removal.
TryDetach(t, req) ==
    IF sl_sublayers(t) > 0 /\ Len(t.chain[Len(t.chain) - 1]) < req
    THEN detach_sublayer(t) ELSE t

-----------------------------------------------------------------------------
(* Removing *)

\* Faulty variant of RippleMoved: the elements are counted where they came from.
RippleMovedBack(t, s, d, n) ==
    FoldLeft(ripple_update_extrema, ShiftUsr(t, t.below[d], t.below[s], n),
             <<t.below[s], t.below[d]>>)

\* The rest of move_to_next and move_to_prev, after `n' user elements went from
\* slab `s' to slab `d'.
RippleMoved(t, s, d, n) ==
    FoldLeft(ripple_update_extrema, ShiftUsr(t, t.below[s], t.below[d], n),
             <<t.below[s], t.below[d]>>)

\* Move what fits from slab `s' to its next, or to its previous, slab `d'.
MoveElems(t, s, d) ==
    LET a  == PosIn(t.chain[1], s)
        ls == SlabsOf(t)
        to == IF d = NextOf(t, s) THEN ToNext(ls, a) ELSE ToPrev(ls, a)
    IN  IF t.slab[s].s_elems = 0 THEN t
        ELSE RippleMoved(WithSlabs(t, to), s, d, CopyCount(t.slab[s], t.slab[d]))

\* Faulty variant of Split: the first pointers go to the next subslab, not the last.
SplitFront(t, s, d, arr, c) ==
    [part |-> SubSeq(arr, 1, c), rest |-> SubSeq(arr, c + 1, Len(arr)),
     darr |-> IF d = NextOf(t, s) THEN SubSeq(arr, 1, c) \o t.sub[d].ss_arr
              ELSE t.sub[d].ss_arr \o SubSeq(arr, 1, c)]

\* Split the pointers `arr' of subslab `s' for its neighbour `d' that has room for
\* `c': what goes, what stays, and the new array of `d'.
Split(t, s, d, arr, c) ==
    LET n == Len(arr) - c
    IN  IF d = NextOf(t, s)
        THEN [part |-> SubSeq(arr, n + 1, Len(arr)), rest |-> SubSeq(arr, 1, n),
              darr |-> SubSeq(arr, n + 1, Len(arr)) \o t.sub[d].ss_arr]
        ELSE [part |-> SubSeq(arr, 1, c), rest |-> SubSeq(arr, c + 1, Len(arr)),
              darr |-> t.sub[d].ss_arr \o SubSeq(arr, 1, c)]

\* Put the two parts where they belong.  The extrema of `s' are left alone when it
\* is emptied, and so is then the maximum of the previous subslab.
PutPtrs(t, s, d, m) ==
    LET next  == d = NextOf(t, s)
        stays == m.rest # <<>>
        S == t.sub[s]
        D == t.sub[d]
    IN  [t EXCEPT
            !.sub[s] = [S EXCEPT !.ss_arr = m.rest,
                           !.ss_min = IF ~next /\ stays THEN MinOf(t, Head(m.rest)) ELSE @,
                           !.ss_max = IF next /\ stays THEN MaxOf(t, Last(m.rest)) ELSE @],
            !.sub[d] = [D EXCEPT !.ss_arr = m.darr,
                           !.ss_min = IF next THEN MinOf(t, Head(m.darr)) ELSE @,
                           !.ss_max = IF ~next /\ stays THEN MaxOf(t, Last(m.darr)) ELSE @],
            !.below = [y \in DOMAIN @ |-> IF y \in ToSet(m.part) THEN d ELSE @[y]]]

\* The extrema below `d', and below `s' unless it is emptied.
MovedExtrema(t, s, d) ==
    FoldLeft(ripple_update_extrema, t,
             <<IF t.sub[s].ss_arr # <<>> THEN t.below[s] ELSE NULL, t.below[d]>>)

MoveSplit(t, s, d, m) ==
    MovedExtrema(ShiftUsr(PutPtrs(t, s, d, m), s, d, UsrOfAll(t, m.part)), s, d)

\* sub_move_to_next and sub_move_to_prev: the same for the pointers of subslabs.
MovePtrs(t, s, d) ==
    LET n == Len(t.sub[s].ss_arr)
    IN  IF n = 0 THEN t
        ELSE MoveSplit(t, s, d, Split(t, s, d, t.sub[s].ss_arr, Min({n, FreeSpace(t, d)})))

Move(t, s, d) == IF IsSlab(t, s) THEN MoveElems(t, s, d) ELSE MovePtrs(t, s, d)

\* Where slab_generic_rem and subslab_generic_rem move the contents of `x' before
\* they free it; <<NULL>> where they leave it alone.  The two last branches of the
\* code repeat the condition of the third.
RoomFor(t, x) ==
    LET nx == NextOf(t, x)
        pv == PrevOf(t, x)
        n  == ElemCount(t, x)
        free(y) == IF y = NULL THEN 0 ELSE FreeSpace(t, y)
    IN  CASE n = 0 -> <<>>
          [] n > 0 /\ nx # NULL /\ n <= free(nx) -> <<nx>>
          [] n > free(nx) /\ pv # NULL /\ n <= free(pv) -> <<pv>>
          [] n > free(nx) /\ n > free(pv) /\ nx # NULL /\ pv # NULL
                /\ n <= free(pv) + free(nx) -> <<nx, pv>>
          [] OTHER -> <<NULL>>

\* Move what `x' holds to `ds' in turn, and free it.
MoveOut(t, x, ds) ==
    LET MoveTo(u, d) == Move(u, x, d) IN unlink(FoldLeft(MoveTo, t, ds), x)

\* Merge `x' into its neighbours and free it, when they have the room.  The result
\* names what was freed.
generic_rem(t, x) ==
    IF RoomFor(t, x) = <<NULL>> THEN [t |-> t, freed |-> NULL]
    ELSE [t |-> MoveOut(t, x, RoomFor(t, x)), freed |-> x]

\* Take the pointer to `x' out of subslab `s'.
remove_slab(t, x, s) ==
    LET arr == t.sub[s].ss_arr
        new == SelectSeq(arr, LAMBDA y : y # x)
    IN  [t EXCEPT !.sub[s].ss_arr = new,
                  !.sub[s].ss_min =
                      IF new # <<>> /\ x = Head(arr) THEN MinOf(t, Head(new)) ELSE @,
                  !.sub[s].ss_max =
                      IF new # <<>> /\ x = Last(arr) THEN MaxOf(t, Last(new)) ELSE @]

\* The first loop of ripple_rem_to_sublayers: take what was freed out of the subslab
\* below it, which may then be merged and freed in its turn.
RECURSIVE RemovePointers(_, _)
RemovePointers(r, below) ==
    IF r.freed = NULL \/ below = NULL THEN r.t
    ELSE RemovePointers(generic_rem(remove_slab(r.t, r.freed, below), below), r.t.below[below])

\* Refresh `x', if it is still there, and what is below it.
RefreshDown(t, x) ==
    IF x \in DOMAIN t.sub THEN FoldLeft(subslab_update_extrema, t, Down(t, x)) ELSE t

\* Take the freed slab r.freed out of the layers below, and refresh the extrema of
\* the subslab that held it and of its neighbours, as they were at the start.
ripple_rem_to_sublayers(r, below) ==
    FoldLeft(RefreshDown, RemovePointers(r, below),
             <<below, NextOf(r.t, below), PrevOf(r.t, below)>>)

RippleRem(r, below) == IF sl_sublayers(r.t) = 0 THEN r.t ELSE ripple_rem_to_sublayers(r, below)

\* Remove the element at index `i' of slab `s', merge slabs, and tell the layers.
layered_rem(t, s, i) ==
    LET short == [t EXCEPT !.slab[s] = remove_elem(i, t.slab[s])]
    IN  RippleRem(generic_rem(AddUsr(short, t.below[s], 0 - 1), s), t.below[s])

\* Free slab `x' if it is empty.
ReapSlab(t, x) ==
    IF t.slab[x].s_elems > 0 THEN t
    ELSE RippleRem([t |-> unlink(t, x), freed |-> x], t.below[x])

\* slablist_reap from the a-th slab on: fill each from the next.
RECURSIVE ReapFrom(_, _)
ReapFrom(t, a) ==
    LET s  == t.chain[1][a]
        sn == t.chain[1][a + 1]
    IN  IF a >= Len(t.chain[1]) THEN t
        ELSE ReapFrom(IF Room(t, s) THEN ReapSlab(MoveElems(t, sn, s), sn) ELSE t, a + 1)

layered_reap(t) == ReapFrom(t, 1)

-----------------------------------------------------------------------------
\* The same list with its ids renumbered in the order of the chains: ids stand
\* for addresses, which mean nothing.  An id of nothing in the list becomes NULL.
Renumber(t) ==
    LET all == FlattenSeq(t.chain)
        new(x) == IF x \in ToSet(all) THEN PosIn(all, x) ELSE NULL
        Renamed(c) == [p \in DOMAIN c |-> new(c[p])]
        n0 == Len(t.chain[1])
    IN  [chain |-> [k \in DOMAIN t.chain |-> Renamed(t.chain[k])],
         slab  |-> [i \in 1 .. n0 |-> t.slab[all[i]]],
         sub   |-> [i \in n0 + 1 .. Len(all) |->
                       [t.sub[all[i]] EXCEPT !.ss_arr = Renamed(@)]],
         below |-> [i \in 1 .. Len(all) |-> new(t.below[all[i]])]]

=============================================================================
