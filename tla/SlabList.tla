------------------------------- MODULE SlabList -------------------------------
(***************************************************************************)
(* A sorted slab list without sublayers: the top layer of every sorted     *)
(* list, and the whole of one whose attach requirement is 0 or not reached *)
(* yet.  The list is stored in one of two forms.  While it is short it is  *)
(* a singly linked list (the small list, IS_SMALL_LIST: sl_slabs = 0); at  *)
(* SMELEM_MAX elements an addition moves it into slabs, and a removal      *)
(* that finds SMELEM_MAX elements in slabs moves it back.                  *)
(*                                                                         *)
(* One action per API call, with everything the call does: the change of   *)
(* form, the search, the insertion or removal with its spilling, merging   *)
(* and unlinking of slabs, the reaping that may follow, and the counting.  *)
(* The linked lists are sequences, sl_slabs is Len(slabs), sl_head and     *)
(* sl_end are its first and last slab.                                     *)
(***************************************************************************)
EXTENDS SlabChain

CONSTANTS
    Reps,           \* values of the `rep' argument that clients pass
    RemPastEnd,     \* do clients remove keys above every key in the list?
    ReapSlabs,      \* values clients give slablist_set_reap_slabs
    ReapPslabs,     \* values clients give slablist_set_reap_pslabs
    CountBound      \* nothing is added once sl_elems is this high

ASSUME ClientAssumption ==
    /\ Reps \subseteq {0, 1} /\ RemPastEnd \in BOOLEAN
    /\ ReapSlabs \subseteq Nat /\ ReapPslabs \subseteq 0 .. 255
    /\ CountBound \in Nat

VARIABLES
    sml,            \* the small list; empty in slab form
    slabs,          \* the chain of slabs; empty in small form
    sl_elems,       \* the element counter
    sl_mslabs,      \* least number of reapable slabs for a reap
    sl_mpslabs,     \* least percentage of reapable slabs for a reap
    ret,            \* result of the last add or removal, and what was
                    \* handed to the removal callback
    crashed         \* the last call ran into undefined behaviour

vars == <<sml, slabs, sl_elems, sl_mslabs, sl_mpslabs, ret, crashed>>

Status == {"SUCCESS", "EDUP", "ENFOUND", "EMPTY"}
Result(st) == [st |-> st, rcb |-> {}]

IS_SMALL_LIST == slabs = <<>>

\* Every element in the list.
Stored == ToSet(sml) \cup UNION {ElemsOf(slabs[a]) : a \in DOMAIN slabs}

-----------------------------------------------------------------------------
(* The small list *)

\* The first node whose data is not smaller than `k', or one past the end.
SmallPos(l, k) == Min({p \in 1 .. Len(l) + 1 : p = Len(l) + 1 \/ k <= l[p].key})

SmallHas(l, k) == \E p \in DOMAIN l : l[p].key = k

-----------------------------------------------------------------------------
(* The API calls *)

Init ==
    /\ sml = <<>> /\ slabs = <<>> /\ sl_elems = 0
    /\ sl_mslabs = 30 /\ sl_mpslabs = 30
    /\ ret = Result("SUCCESS")
    /\ crashed = FALSE

Crash ==
    /\ crashed' = TRUE
    /\ UNCHANGED <<sml, slabs, sl_elems, sl_mslabs, sl_mpslabs, ret>>

\* slablist_add while the small list has room.  `rep' is not passed on:
\* slablist_add_impl calls small_list_add with 0.
AddSmall(e) ==
    LET p == SmallPos(sml, e.key) IN
    /\ IS_SMALL_LIST /\ sl_elems <= SMELEM_MAX - 1
    /\ IF SmallHas(sml, e.key)
       THEN ret' = Result("EDUP") /\ UNCHANGED <<sml, sl_elems>>
       ELSE /\ sml' = InsertAt(sml, p, e)
            /\ sl_elems' = sl_elems + 1
            /\ ret' = Result("SUCCESS")
    /\ UNCHANGED <<slabs, sl_mslabs, sl_mpslabs, crashed>>

\* Faulty variant of SmallListFull: the limit is one off.
SmallListFullLate == sl_elems = SMELEM_MAX + 1 /\ sml # <<>>

\* The small list is about to become a slab.
SmallListFull == sl_elems = SMELEM_MAX /\ sml # <<>>

\* slablist_add to the slabs, made from the small list first if it is full.
AddSlab(e, rep) ==
    LET ls   == IF IS_SMALL_LIST THEN <<small_list_to_slab(sml)>> ELSE slabs
        edup == IsEdup(ls, e, rep)
    IN
    /\ IS_SMALL_LIST => SmallListFull
    /\ sml' = <<>>
    /\ slabs' = try_reap(slab_gen_add(ls, e, rep), sl_elems, sl_mslabs, sl_mpslabs)
    /\ sl_elems' = IF edup THEN sl_elems ELSE sl_elems + 1
    /\ ret' = Result(IF edup THEN "EDUP" ELSE "SUCCESS")
    /\ UNCHANGED <<sl_mslabs, sl_mpslabs, crashed>>

\* slablist_add to a list without slabs whose counter is too high for a small
\* list: the code takes sl_head, NULL or a small list's node, for a slab.
AddMisread ==
    /\ IS_SMALL_LIST /\ sl_elems >= SMELEM_MAX /\ ~SmallListFull
    /\ Crash

Add(e, rep) == AddSmall(e) \/ AddSlab(e, rep) \/ AddMisread

-----------------------------------------------------------------------------
\* Faulty variant of RemBase: the list is made small one element too early.
RemBaseEarly ==
    IF slabs # <<>> /\ sl_elems = SMELEM_MAX + 1
    THEN [sml |-> slab_to_small_list(slabs[1]), slabs |-> <<>>,
          elems |-> slabs[1].s_elems]
    ELSE [sml |-> sml, slabs |-> slabs, elems |-> sl_elems]

\* The list a removal works on: slabs that hold SMELEM_MAX elements become a
\* small list first.  Only the head slab is copied.
RemBase ==
    IF slabs # <<>> /\ sl_elems = SMELEM_MAX
    THEN [sml |-> slab_to_small_list(slabs[1]), slabs |-> <<>>,
          elems |-> slabs[1].s_elems]
    ELSE [sml |-> sml, slabs |-> slabs, elems |-> sl_elems]

\* slablist_rem from a small list.  The callback is not called.
RemSmall(k) ==
    LET l == RemBase.sml
        p == SmallPos(l, k)
        found == SmallHas(l, k)
    IN
    /\ RemBase.slabs = <<>>
    /\ slabs' = <<>>
    /\ sml' = IF found THEN RemoveAt(l, p) ELSE l
    /\ sl_elems' = IF found THEN RemBase.elems - 1 ELSE RemBase.elems
    /\ ret' = Result(IF l = <<>> THEN "EMPTY" ELSE IF found THEN "SUCCESS" ELSE "ENFOUND")
    /\ UNCHANGED <<sl_mslabs, sl_mpslabs, crashed>>

\* The slab and index where slablist_rem looks for `k'.
RemSlabAt(k) == find_linear_scan(slabs, k)
RemIndexAt(k) == slab_bin_srch(k, slabs[RemSlabAt(k)])

\* The slot at that index may be past the live elements: the code compares it
\* all the same.  One past the array it reads unrelated memory.
RemReadsDeadSlot(k) == RemIndexAt(k) = slabs[RemSlabAt(k)].s_elems
RemHits(k) == /\ RemIndexAt(k) \in Index
              /\ slabs[RemSlabAt(k)].s_arr[RemIndexAt(k)].key = k

InSlabForm == RemBase.slabs # <<>>

\* slablist_rem finds the element in a slab.
RemSlab(k) ==
    LET a == RemSlabAt(k)
        i == RemIndexAt(k)
        s == slabs[a]
    IN
    /\ InSlabForm /\ RemHits(k) /\ ~RemReadsDeadSlot(k)
    /\ slabs' = try_reap(slab_generic_rem([slabs EXCEPT ![a] = remove_elem(i, s)], a),
                         sl_elems, sl_mslabs, sl_mpslabs)
    /\ sl_elems' = sl_elems - 1
    /\ ret' = [st |-> "SUCCESS", rcb |-> {s.s_arr[i]}]
    /\ UNCHANGED <<sml, sl_mslabs, sl_mpslabs, crashed>>

\* slablist_rem does not find the element in the slabs.
RemAbsent(k) ==
    /\ InSlabForm /\ ~RemHits(k)
    /\ ret' = Result("ENFOUND")
    /\ UNCHANGED <<sml, slabs, sl_elems, sl_mslabs, sl_mpslabs, crashed>>

\* A dead slot compares equal: remove_elem shifts a negative number of bytes.
RemDead(k) ==
    /\ InSlabForm /\ RemReadsDeadSlot(k)
    /\ RemHits(k) \/ RemIndexAt(k) \notin Index
    /\ Crash

\* Is `k' above every key in the slabs?
PastEnd(k) == InSlabForm /\ \A x \in Stored : x.key < k

Rem(k) ==
    /\ RemPastEnd \/ ~PastEnd(k)
    /\ RemSmall(k) \/ RemSlab(k) \/ RemAbsent(k) \/ RemDead(k)

-----------------------------------------------------------------------------
\* slablist_reap called by the user.
Reap ==
    /\ slabs' = IF IS_SMALL_LIST THEN slabs ELSE slablist_reap(slabs)
    /\ UNCHANGED <<sml, sl_elems, sl_mslabs, sl_mpslabs, ret, crashed>>

slablist_set_reap_slabs(new) ==
    /\ sl_mslabs' = new
    /\ UNCHANGED <<sml, slabs, sl_elems, sl_mpslabs, ret, crashed>>

\* Faulty variant of slablist_set_reap_pslabs: any percentage is taken.
slablist_set_reap_pslabsAny(new) ==
    /\ sl_mpslabs' = new
    /\ UNCHANGED <<sml, slabs, sl_elems, sl_mslabs, ret, crashed>>

slablist_set_reap_pslabs(new) ==
    /\ sl_mpslabs' = IF new <= 99 THEN new ELSE 99
    /\ UNCHANGED <<sml, slabs, sl_elems, sl_mslabs, ret, crashed>>

Next ==
    /\ ~crashed
    /\ \/ sl_elems < CountBound /\ \E e \in Elem, rep \in Reps : Add(e, rep)
       \/ \E k \in Key : Rem(k)
       \/ Reap
       \/ \E n \in ReapSlabs : slablist_set_reap_slabs(n)
       \/ \E n \in ReapPslabs : slablist_set_reap_pslabs(n)

Spec == Init /\ [][Next]_vars

-----------------------------------------------------------------------------
(* Reading the list *)

\* slablist_find: the element found, or nothing.
slablist_find(k) ==
    IF IS_SMALL_LIST
    THEN {sml[p] : p \in {q \in DOMAIN sml : sml[q].key = k}}
    ELSE LET s == slabs[find_linear_scan(slabs, k)]
             i == slab_bin_srch(k, s)
         IN  IF i # s.s_elems /\ s.s_arr[i].key = k THEN {s.s_arr[i]} ELSE {}

\* slablist_head and slablist_end of a list that is not empty.
slablist_head == IF IS_SMALL_LIST THEN sml[1] ELSE slabs[1].s_min
slablist_end == IF IS_SMALL_LIST THEN sml[Len(sml)] ELSE slabs[Len(slabs)].s_max

-----------------------------------------------------------------------------
(* Properties *)

\* The shapes of the state: both forms are never in use at once.
TypeOK ==
    /\ sml \in Seq(Elem) /\ slabs \in Seq(Slab)
    /\ sml = <<>> \/ slabs = <<>>
    /\ sl_elems \in Nat /\ sl_mslabs \in Nat /\ sl_mpslabs \in 0 .. 99
    /\ ret \in [st : Status, rcb : SUBSET Elem]
    /\ crashed \in BOOLEAN

\* Keys rise strictly along the small list and along the slabs, inside a slab
\* and from one slab to the next, whatever was spilled, merged or reaped.
Sorted ==
    /\ \A p, q \in DOMAIN sml : p < q => sml[p].key < sml[q].key
    /\ \A a, b \in DOMAIN slabs :
         \A i \in 0 .. slabs[a].s_elems - 1, j \in 0 .. slabs[b].s_elems - 1 :
             a < b \/ (a = b /\ i < j) =>
                 slabs[a].s_arr[i].key < slabs[b].s_arr[j].key

\* Every slab in the chain holds an element, and its cached extrema are its
\* first and last element: the searches look at nothing else.
ExtremaExact ==
    \A a \in DOMAIN slabs :
        /\ slabs[a].s_elems > 0
        /\ slabs[a].s_min = slabs[a].s_arr[0]
        /\ slabs[a].s_max = slabs[a].s_arr[slabs[a].s_elems - 1]

\* Two neighbouring slabs never fit into one: removals merge or unlink at once.
NeighboursUnmergeable ==
    \A a \in 1 .. Len(slabs) - 1 :
        slabs[a].s_elems + slabs[a + 1].s_elems > SELEM_MAX

\* The counter is the number of elements in the list, in either form.
CountExact == sl_elems = Cardinality(Stored)

\* slabs that slab_to_small_list is about to copy are a single slab, so that
\* copying the head slab copies the list; and slabs never hold fewer elements.
ConversionLossless ==
    /\ IS_SMALL_LIST => sl_elems <= SMELEM_MAX
    /\ ~IS_SMALL_LIST => sl_elems >= SMELEM_MAX
    /\ ~IS_SMALL_LIST /\ sl_elems = SMELEM_MAX => Len(slabs) = 1

\* slablist_find finds exactly the stored elements, and slablist_head and
\* slablist_end return the ones with the least and the greatest key.
ReadsExact ==
    /\ \A k \in Key : slablist_find(k) = {x \in Stored : x.key = k}
    /\ Stored # {} =>
         /\ slablist_head \in Stored /\ \A x \in Stored : slablist_head.key <= x.key
         /\ slablist_end \in Stored /\ \A x \in Stored : x.key <= slablist_end.key

\* No call runs into undefined behaviour.
NeverCrashes == ~crashed

\* What a removal takes out of the slabs is what the removal callback gets.
CallbackGetsRemoved ==
    [][InSlabForm /\ sl_elems' < sl_elems =>
          Stored' \subseteq Stored /\ ret'.rcb = Stored \ Stored']_vars

\* The counter may run ahead of the elements, but never falls behind them, and
\* a list in slab form is never counted shorter than a small list may be.
CountNeverLow ==
    /\ sl_elems >= Cardinality(Stored)
    /\ ~IS_SMALL_LIST => sl_elems >= SMELEM_MAX
    /\ ~IS_SMALL_LIST /\ sl_elems = SMELEM_MAX => Len(slabs) = 1

\* The list, seen from outside, is a set of elements with distinct keys.
Set == INSTANCE KeyedSet WITH store <- Stored, st <- ret.st

ImplementsKeyedSet == Set!Spec

\* An addition that is counted loses no key.
AddKeepsKeys ==
    [][sl_elems' > sl_elems =>
          {x.key : x \in Stored} \subseteq {x.key : x \in Stored'}]_vars

=============================================================================
