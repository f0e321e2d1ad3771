--------------------------- MODULE LayeredSlabList ---------------------------
(***************************************************************************)
(* A sorted slab list with its sublayers: what SlabList specifies, as the  *)
(* program really runs it once the list has grown past the attach          *)
(* requirement.  Additions and removals find their slab by bubbling up     *)
(* from the baselayer, and every change of a slab ripples down through all *)
(* layers.  The sublayers are only an index: this module is shown to       *)
(* implement SlabList, where they do not exist.                            *)
(***************************************************************************)
EXTENDS SlabLayers

CONSTANTS
    Reps, RemPastEnd, ReapSlabs, ReapPslabs, CountBound, \* as in SlabList
    AttachReqs,     \* values clients give slablist_set_attach_req
    FirstReq,       \* the requirement of a new list (10 in the program)
    SL_REQ_MAX      \* the largest requirement (255 in the program)

ASSUME AttachAssumption ==
    /\ SL_REQ_MAX \in 1 .. SUBELEM_MAX
    /\ FirstReq \in 1 .. SL_REQ_MAX /\ AttachReqs \subseteq Nat

VARIABLES
    sml,            \* the small list; empty in slab form
    t,              \* the slabs and the layers below them (SlabLayers)
    sl_elems, sl_mslabs, sl_mpslabs,
    sl_req_sublayer,    \* longest baselayer before another is attached
    ret, crashed        \* as in SlabList

vars == <<sml, t, sl_elems, sl_mslabs, sl_mpslabs, sl_req_sublayer, ret, crashed>>

settings == <<sl_mslabs, sl_mpslabs, sl_req_sublayer>>

slabs == SlabsOf(t)

\* What the list is to a user who knows of no sublayers.  The index is not there.
Plain == INSTANCE SlabList

IS_SMALL_LIST == Plain!IS_SMALL_LIST

-----------------------------------------------------------------------------
\* A list without a small list, that has `u' for slabs and layers and `n' elements.
StartsAs(u, n) ==
    /\ sml = <<>> /\ t = u /\ sl_elems = n
    /\ sl_mslabs = 30 /\ sl_mpslabs = 30 /\ sl_req_sublayer = FirstReq
    /\ ret = Plain!Result("SUCCESS")
    /\ crashed = FALSE

Init == StartsAs(NoLayers, 0)

\* small_list_to_slab: the first slab.  It has no s_below, whatever layers there are.
OneSlab(u, l) ==
    LET x == Fresh(u)
    IN  [u EXCEPT !.chain[1] = <<x>>,
                  !.slab = x :> small_list_to_slab(l),
                  !.below = @ @@ (x :> NULL)]

\* try_reap on a list with `elems' elements counted.
TryReap(u, elems) ==
    IF ReapDue(Len(u.chain[1]), elems, sl_mslabs, sl_mpslabs) THEN layered_reap(u) ELSE u

AddSmall(e) == UNCHANGED <<t, sl_req_sublayer>> /\ Plain!AddSmall(e)

\* The slabs that an addition finds: the full small list became one.
Slabbed == IF IS_SMALL_LIST THEN OneSlab(t, sml) ELSE t

SearchSound == IS_SMALL_LIST => Plain!SmallListFull /\ sl_sublayers(t) = 0

\* The baselayer is to get a sublayer and is longer than a subslab's array: its pointers
\* are written past the end of that.  An addition makes it longer by one at most.
Overruns(e, rep) ==
    /\ sl_req_sublayer > 0 /\ Len(baselayer(Slabbed)) >= SUBELEM_MAX
    /\ LET base == baselayer(layered_gen_add(Slabbed, e, rep))
       IN  Len(base) >= sl_req_sublayer /\ Len(base) > SUBELEM_MAX

\* slablist_add to the slabs.
AddSlab(e, rep) ==
    LET u    == Slabbed
        v    == TryAttach(layered_gen_add(u, e, rep), sl_req_sublayer)
        edup == rep = 0 /\ HoldsKey(u, find_bubble_up(u, e.key), e.key)
    IN
    /\ SearchSound /\ ~Overruns(e, rep)
    /\ sml' = <<>>
    /\ t' = Renumber(TryReap(v, sl_elems))
    /\ sl_elems' = IF edup THEN sl_elems ELSE sl_elems + 1
    /\ ret' = Plain!Result(IF edup THEN "EDUP" ELSE "SUCCESS")
    /\ UNCHANGED <<settings, crashed>>

Lose == crashed' = TRUE /\ UNCHANGED <<sml, t, sl_elems, settings, ret>>

AddOverruns(e, rep) == SearchSound /\ Overruns(e, rep) /\ Lose

\* The list grows back into slabs while it still has sublayers: the search starts
\* at subslabs that point to freed slabs.
AddStale == IS_SMALL_LIST /\ Plain!SmallListFull /\ sl_sublayers(t) > 0 /\ Lose

Add(e, rep) == AddSmall(e) \/ AddSlab(e, rep) \/ AddOverruns(e, rep) \/ AddStale

-----------------------------------------------------------------------------
\* slab_to_small_list frees the slabs; sublayers would be left where they are.
WithoutSlabs(u) ==
    [u EXCEPT !.chain[1] = <<>>, !.slab = <<>>, !.below = Restrict(@, DOMAIN u.sub)]

RemSmall(k) ==
    /\ t' = IF IS_SMALL_LIST THEN t ELSE Renumber(WithoutSlabs(t))
    /\ Plain!RemSmall(k)
    /\ UNCHANGED sl_req_sublayer

\* The slab and index where slablist_rem looks for `k'.
RemAt(k) == find_bubble_up(t, k)
RemIndex(k) == slab_bin_srch(k, t.slab[RemAt(k)])
RemDeadSlot(k) == RemIndex(k) = t.slab[RemAt(k)].s_elems
RemFinds(k) == RemIndex(k) \in Index /\ t.slab[RemAt(k)].s_arr[RemIndex(k)].key = k

RemSlab(k) ==
    LET s == RemAt(k)
        i == RemIndex(k)
        u == TryDetach(layered_rem(t, s, i), sl_req_sublayer)
    IN
    /\ Plain!InSlabForm /\ RemFinds(k) /\ ~RemDeadSlot(k)
    /\ t' = Renumber(TryReap(u, sl_elems))
    /\ sl_elems' = sl_elems - 1
    /\ ret' = [st |-> "SUCCESS", rcb |-> {t.slab[s].s_arr[i]}]
    /\ UNCHANGED <<sml, settings, crashed>>

RemAbsent(k) ==
    /\ Plain!InSlabForm /\ ~RemFinds(k) /\ RemIndex(k) \in Index
    /\ ret' = Plain!Result("ENFOUND")
    /\ UNCHANGED <<sml, t, sl_elems, settings, crashed>>

RemDead(k) ==
    /\ Plain!InSlabForm /\ RemDeadSlot(k)
    /\ RemIndex(k) \in Index => RemFinds(k)
    /\ Lose

Rem(k) ==
    /\ RemPastEnd \/ ~Plain!PastEnd(k)
    /\ RemSmall(k) \/ RemSlab(k) \/ RemAbsent(k) \/ RemDead(k)

-----------------------------------------------------------------------------
Reap ==
    /\ t' = IF IS_SMALL_LIST THEN t ELSE Renumber(layered_reap(t))
    /\ UNCHANGED <<sml, sl_elems, settings, ret, crashed>>

slablist_set_reap_slabs(new) ==
    /\ sl_mslabs' = new
    /\ UNCHANGED <<sml, t, sl_elems, sl_mpslabs, sl_req_sublayer, ret, crashed>>

slablist_set_reap_pslabs(new) ==
    /\ sl_mpslabs' = IF new <= 99 THEN new ELSE 99
    /\ UNCHANGED <<sml, t, sl_elems, sl_mslabs, sl_req_sublayer, ret, crashed>>


\* The requirement may change while sublayers are attached; nothing else does.  It is
\* cut to what a subslab can hold.
slablist_set_attach_req(req) ==
    /\ sl_req_sublayer' = IF req <= SL_REQ_MAX THEN req ELSE SL_REQ_MAX
    /\ UNCHANGED <<sml, t, sl_elems, sl_mslabs, sl_mpslabs, ret, crashed>>

Next ==
    /\ ~crashed
    /\ \/ sl_elems < CountBound /\ \E e \in Elem, rep \in Reps : Add(e, rep)
       \/ \E k \in Key : Rem(k)
       \/ Reap
       \/ \E n \in ReapSlabs : slablist_set_reap_slabs(n)
       \/ \E n \in ReapPslabs : slablist_set_reap_pslabs(n)
       \/ \E n \in AttachReqs : slablist_set_attach_req(n)

Spec == Init /\ [][Next]_vars

-----------------------------------------------------------------------------
(* Properties *)

\* What a subslab is: its pointers, extrema and counter, and s_below pointers
\* that are ids of the layer below.
TypeOK ==
    /\ sml \in Seq(Elem) /\ slabs \in Seq(Slab) /\ <<>> \in {sml, slabs}
    /\ \A x \in DOMAIN t.sub :
         /\ t.sub[x].ss_min \in Slot /\ t.sub[x].ss_max \in Slot
         /\ t.sub[x].ss_usr_elems \in Nat /\ t.sub[x].ss_arr \in Seq(Nat)
    /\ DOMAIN t.below = Ids(t) /\ \A x \in Ids(t) : t.below[x] \in {NULL} \cup DOMAIN t.sub
    /\ sl_elems \in Nat /\ sl_mslabs \in Nat /\ sl_mpslabs \in 0 .. 99
    /\ sl_req_sublayer \in 0 .. SL_REQ_MAX

\* While there are slabs, the pointers of a layer's subslabs, read in order, are the
\* chain of the layer above: no slab or subslab is missing, doubled, freed or out of its
\* place.  s_below and ss_below lead back to the subslab that holds the pointer.
IndexExact ==
    slabs # <<>> =>
        /\ \A k \in 2 .. Len(t.chain) :
             FlattenSeq([p \in DOMAIN t.chain[k] |-> t.sub[t.chain[k][p]].ss_arr])
                 = t.chain[k - 1]
        /\ \A s \in DOMAIN t.sub : \A x \in ToSet(t.sub[s].ss_arr) : t.below[x] = s
        /\ \A x \in ToSet(baselayer(t)) : t.below[x] = NULL

\* A subslab's cached extrema are those of its first and last member.
SubExtremaExact ==
    slabs # <<>> =>
        \A s \in DOMAIN t.sub :
            LET arr == t.sub[s].ss_arr
            IN  /\ arr # <<>>
                /\ t.sub[s].ss_min = MinOf(t, Head(arr))
                /\ t.sub[s].ss_max = MaxOf(t, Last(arr))

\* A subslab's counter is the number of user elements reachable from it.
UsrElemsExact ==
    slabs # <<>> =>
        \A s \in DOMAIN t.sub : t.sub[s].ss_usr_elems = UsrOfAll(t, t.sub[s].ss_arr)

\* Bubbling up from the baselayer ends at the slab a scan of the slabs ends at.
BubbleUpExact ==
    slabs # <<>> => \A k \in Key : find_bubble_up(t, k) = ScanLayer(t, t.chain[1], k)

\* No subslab holds more pointers than its array, and two neighbouring subslabs
\* never fit into one.
Packed ==
    /\ \A s \in DOMAIN t.sub : Len(t.sub[s].ss_arr) <= SUBELEM_MAX
    /\ \A k \in 2 .. Len(t.chain) : \A p \in 1 .. Len(t.chain[k]) - 1 :
         Len(t.sub[t.chain[k][p]].ss_arr) + Len(t.sub[t.chain[k][p + 1]].ss_arr)
             > SUBELEM_MAX


\* Seen without its index, the list is a SlabList: every call changes the slabs, the
\* counter and the results as it does where there are no sublayers, except for an
\* addition that overruns a subslab or searches an index whose slabs are gone.
ImplementsSlabList ==
    /\ Plain!Init
    /\ [][Plain!Next \/ AddStale \/ \E e \in Elem, rep \in Reps : AddOverruns(e, rep)]_(Plain!vars)

=============================================================================
