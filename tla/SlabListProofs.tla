---------------------------- MODULE SlabListProofs ----------------------------
(***************************************************************************)
(* The theorems about SlabList: for slabs and small lists of every size,   *)
(* every set of keys, and clients that use slablist_add and slablist_rem   *)
(* in every way, the types are right and no two neighbouring slabs fit     *)
(* into one.  The argument is one inductive invariant.                     *)
(***************************************************************************)
EXTENDS SlabList, SlabChainProofs

\* How the counter relates to the form of the list.  A list without elements
\* whose counter is too high is left when a replacement was counted as an
\* addition; everything else is as IS_SMALL_LIST and SMELEM_MAX prescribe.
FormInv ==
    /\ Len(sml) <= SELEM_MAX
    /\ sml # <<>> => sl_elems = Len(sml)
    /\ slabs # <<>> => sl_elems >= SMELEM_MAX
    /\ sml = <<>> /\ slabs = <<>> => sl_elems = 0 \/ sl_elems >= SMELEM_MAX

\* TypeOK is not inductive: emptying a slab or merging two relies on all
\* others holding an element, and counting down on the counter being positive.
IInv == TypeOK /\ Chain(slabs) /\ FormInv

-----------------------------------------------------------------------------
(* Searching a small list *)

LEMMA Sizes ==
    /\ SELEM_MAX \in Nat /\ SELEM_MAX >= 2
    /\ SMELEM_MAX \in Nat /\ SMELEM_MAX >= 1 /\ SMELEM_MAX < SELEM_MAX
BY SlabSizeAssumption, SmallListAssumption

LEMMA SmallPosRange ==
    ASSUME NEW l \in Seq(Elem), NEW k \in Nat
    PROVE  /\ SmallPos(l, k) \in 1 .. Len(l) + 1
           /\ SmallHas(l, k) => SmallPos(l, k) \in 1 .. Len(l)
<1> DEFINE S == {p \in 1 .. Len(l) + 1 : p = Len(l) + 1 \/ k <= l[p].key}
<1>0. Len(l) \in Nat /\ DOMAIN l = 1 .. Len(l)
  BY LenProperties
<1>1. S \in SUBSET Nat /\ Len(l) + 1 \in S
  BY <1>0
<1>2. Min(S) \in S /\ \A y \in S : Min(S) <= y
  BY <1>1, MinOfNats
<1>3. SmallHas(l, k) => Min(S) <= Len(l)
  <2> SUFFICES ASSUME NEW p \in DOMAIN l, l[p].key = k PROVE Min(S) <= Len(l)
    BY DEF SmallHas
  <2>1. p \in S /\ p <= Len(l) /\ p \in Int
    BY <1>0
  <2>2. Min(S) <= p /\ Min(S) \in Int
    BY <1>0, <1>2, <2>1
  <2> HIDE DEF S
  <2> QED
    BY <1>0, <2>1, <2>2
<1>4. SmallPos(l, k) = Min(S)
  BY DEF SmallPos
<1> HIDE DEF S
<1>5. Min(S) \in 1 .. Len(l) + 1
  BY <1>2 DEF S
<1> QED
  BY <1>0, <1>3, <1>4, <1>5

LEMMA ResultType ==
    ASSUME NEW st \in Status, NEW R \in SUBSET Elem
    PROVE  /\ Result(st) \in [st : Status, rcb : SUBSET Elem]
           /\ [st |-> st, rcb |-> R] \in [st : Status, rcb : SUBSET Elem]
BY DEF Result

-----------------------------------------------------------------------------
LEMMA InitIInv == Init => IInv
<1> SUFFICES ASSUME Init PROVE IInv
  OBVIOUS
<1>1. <<>> \in Seq(Elem) /\ <<>> \in Seq(Slab) /\ Len(<<>>) = 0
  BY EmptySeq
<1>2. TypeOK
  <2>1. ret \in [st : Status, rcb : SUBSET Elem]
    BY ResultType DEF Init, Status
  <2>2. sml \in Seq(Elem) /\ slabs \in Seq(Slab) /\ sml = <<>>
    BY <1>1 DEF Init
  <2>3. sl_elems \in Nat /\ sl_mslabs \in Nat /\ sl_mpslabs \in 0 .. 99
    BY DEF Init
  <2>4. crashed \in BOOLEAN
    BY Zenon DEF Init
  <2> QED
    BY <2>1, <2>2, <2>3, <2>4 DEF TypeOK
<1>3. FormInv
  BY <1>1, Sizes DEF Init, FormInv
<1> QED
  BY <1>2, <1>3, NoSlabsChain DEF Init, IInv

\* The list a removal works on when it works on a small list.
LEMMA RemBaseSmall ==
    ASSUME IInv, RemBase.slabs = <<>>
    PROVE  /\ RemBase.sml \in Seq(Elem) /\ RemBase.elems \in Nat
           /\ Len(RemBase.sml) \in 0 .. SELEM_MAX
           /\ RemBase.sml # <<>> => RemBase.elems = Len(RemBase.sml)
           /\ RemBase.sml = <<>> => RemBase.elems = 0 \/ RemBase.elems >= SMELEM_MAX
<1>1. CASE slabs # <<>> /\ sl_elems = SMELEM_MAX
  <2>1. slabs \in Seq(Slab)
    BY DEF IInv, TypeOK
  <2>2. slabs[1] \in Slab
    BY <1>1, <2>1, EmptySeq, LenProperties, SlabAt
  <2>3. /\ RemBase.sml = slab_to_small_list(slabs[1])
        /\ RemBase.elems = slabs[1].s_elems
    BY <1>1 DEF RemBase
  <2>4. slabs[1].s_elems \in 0 .. SELEM_MAX
    BY <2>2, SlabParts
  <2>5. RemBase.sml \in Seq(Elem) /\ Len(RemBase.sml) = RemBase.elems
    BY <2>2, <2>3, slab_to_small_listIsSeq
  <2>6. RemBase.sml = <<>> => Len(RemBase.sml) = 0
    BY EmptySeq
  <2> QED
    BY <2>3, <2>4, <2>5, <2>6, Sizes
<1>2. CASE ~(slabs # <<>> /\ sl_elems = SMELEM_MAX)
  <2>1. RemBase.sml = sml /\ RemBase.elems = sl_elems /\ RemBase.slabs = slabs
    BY <1>2 DEF RemBase
  <2>2. sml \in Seq(Elem) /\ Len(sml) \in Nat
    BY LenProperties DEF IInv, TypeOK
  <2> QED
    BY <2>1, <2>2, Sizes DEF IInv, TypeOK, FormInv
<1> QED
  BY <1>1, <1>2

-----------------------------------------------------------------------------
(* One lemma per action *)

LEMMA AddSmallIInv ==
    ASSUME IInv, NEW e \in Elem, AddSmall(e)
    PROVE  IInv'
<1> DEFINE p == SmallPos(sml, e.key)
<1>0. /\ sml \in Seq(Elem) /\ Len(sml) \in Nat /\ slabs = <<>> /\ sl_elems \in Nat
      /\ sl_elems <= SMELEM_MAX - 1
  BY LenProperties DEF IInv, TypeOK, AddSmall, IS_SMALL_LIST
<1>1. UNCHANGED <<slabs, sl_mslabs, sl_mpslabs, crashed>>
  BY DEF AddSmall
<1>2. ret' \in [st : Status, rcb : SUBSET Elem]
  BY ResultType DEF AddSmall, Status
<1>3. CASE SmallHas(sml, e.key)
  <2>1. UNCHANGED <<sml, sl_elems>>
    BY <1>3 DEF AddSmall
  <2> QED
    BY <1>1, <1>2, <2>1 DEF IInv, TypeOK, FormInv, Chain, Packed
<1>4. CASE ~SmallHas(sml, e.key)
  <2>1. sml' = InsertAt(sml, p, e) /\ sl_elems' = sl_elems + 1
    BY <1>4 DEF AddSmall
  <2>2. p \in 1 .. Len(sml) + 1
    <3>1. e.key \in Nat
      BY ElemIsSlot
    <3> QED
      BY <1>0, <3>1, SmallPosRange
  <2>3. sml' \in Seq(Elem) /\ Len(sml') = Len(sml) + 1
    <3> HIDE DEF p
    <3> QED
      BY <1>0, <2>1, <2>2, InsertAtProperties
  <2>4. sl_elems = Len(sml)
    <3>1. sml = <<>> => Len(sml) = 0
      BY EmptySeq
    <3> QED
      BY <1>0, <3>1, Sizes DEF IInv, FormInv
  <2>5. sml' # <<>>
    <3>1. sml' = <<>> => Len(sml') = 0
      BY EmptySeq
    <3> QED
      BY <1>0, <2>3, <3>1
  <2>6. FormInv'
    BY <1>0, <1>1, <2>1, <2>3, <2>4, <2>5, Sizes DEF FormInv
  <2>7. TypeOK'
    BY <1>0, <1>1, <1>2, <2>1, <2>3 DEF IInv, TypeOK
  <2> QED
    BY <1>1, <2>6, <2>7 DEF IInv, Chain, Packed
<1> QED
  BY <1>3, <1>4

LEMMA AddSlabIInv ==
    ASSUME IInv, NEW e \in Elem, NEW rep, AddSlab(e, rep)
    PROVE  IInv'
<1> DEFINE ls == IF IS_SMALL_LIST THEN <<small_list_to_slab(sml)>> ELSE slabs
           more == slab_gen_add(ls, e, rep)
<1>0. /\ sml \in Seq(Elem) /\ slabs \in Seq(Slab) /\ Chain(slabs) /\ sl_elems \in Nat
  BY DEF IInv, TypeOK
<1>1. /\ IS_SMALL_LIST => sl_elems = SMELEM_MAX /\ sml # <<>>
      /\ sml' = <<>> /\ slabs' = try_reap(more, sl_elems, sl_mslabs, sl_mpslabs)
      /\ sl_elems' \in {sl_elems, sl_elems + 1}
      /\ UNCHANGED <<sl_mslabs, sl_mpslabs, crashed>>
  BY DEF AddSlab, SmallListFull
<1>2. ret' \in [st : Status, rcb : SUBSET Elem]
  BY ResultType DEF AddSlab, Status
<1>3. Chain(ls) /\ Len(ls) > 0
  <2>1. CASE IS_SMALL_LIST
    <3>1. Len(sml) = SMELEM_MAX
      BY <1>1, <2>1 DEF IInv, FormInv
    <3>2. small_list_to_slab(sml) \in Slab /\ small_list_to_slab(sml).s_elems = Len(sml)
      BY <1>0, <3>1, Sizes, small_list_to_slabIsSlab
    <3> QED
      BY <2>1, <3>1, <3>2, Sizes, OneSlabChain
  <2>2. CASE ~IS_SMALL_LIST
    <3>1. Len(slabs) > 0
      BY <1>0, <2>2, EmptySeq, LenProperties DEF IS_SMALL_LIST
    <3> QED
      BY <1>0, <2>2, <3>1
  <2> QED
    BY <2>1, <2>2
<1> HIDE DEF ls
<1>4. Chain(slabs')
  BY <1>1, <1>3, slab_gen_addChain, try_reapChain
<1>5. slabs' \in Seq(Slab)
  BY <1>4 DEF Chain
<1>6. sl_elems' \in Nat /\ sl_elems' >= SMELEM_MAX
  BY <1>0, <1>1, Sizes DEF IInv, FormInv, IS_SMALL_LIST
<1>7. <<>> \in Seq(Elem) /\ Len(<<>>) = 0
  BY EmptySeq
<1>8. TypeOK'
  BY <1>0, <1>1, <1>2, <1>5, <1>6, <1>7 DEF IInv, TypeOK
<1>9. FormInv'
  BY <1>1, <1>6, <1>7, Sizes DEF FormInv
<1>10. Chain(slabs)'
  BY <1>4 DEF Chain, Packed
<1> QED
  BY <1>8, <1>9, <1>10 DEF IInv

LEMMA CrashIInv ==
    ASSUME IInv, Crash
    PROVE  IInv'
BY DEF IInv, TypeOK, FormInv, Chain, Packed, Crash

LEMMA RemSmallIInv ==
    ASSUME IInv, NEW k \in Nat, RemSmall(k)
    PROVE  IInv'
<1> DEFINE l == RemBase.sml
           n == RemBase.elems
           p == SmallPos(l, k)
           found == SmallHas(l, k)
<1>0. /\ l \in Seq(Elem) /\ n \in Nat /\ Len(l) \in 0 .. SELEM_MAX
      /\ l # <<>> => n = Len(l)
      /\ l = <<>> => n = 0 \/ n >= SMELEM_MAX
  BY RemBaseSmall DEF RemSmall
<1>1. /\ slabs' = <<>>
      /\ sml' = IF found THEN RemoveAt(l, p) ELSE l
      /\ sl_elems' = IF found THEN n - 1 ELSE n
      /\ UNCHANGED <<sl_mslabs, sl_mpslabs, crashed>>
  BY DEF RemSmall
<1>2. ret' \in [st : Status, rcb : SUBSET Elem]
  BY ResultType DEF RemSmall, Status
<1>3. Chain(slabs)'
  BY <1>1, NoSlabsChain DEF Chain, Packed
<1>4. slabs' \in Seq(Slab)
  BY <1>1, EmptySeq
<1> HIDE DEF l, n
<1>5. CASE found
  <2>1. p \in 1 .. Len(l)
    BY <1>0, <1>5, SmallPosRange
  <2>2. sml' \in Seq(Elem) /\ Len(sml') = Len(l) - 1
    <3> HIDE DEF p, found
    <3> QED
      BY <1>0, <1>1, <1>5, <2>1, RemoveAtProperties
  <2>3. l # <<>>
    <3>1. l = <<>> => Len(l) = 0
      BY EmptySeq
    <3> QED
      BY <1>0, <2>1, <3>1
  <2>4. sl_elems' \in Nat /\ sl_elems' = Len(sml')
    BY <1>0, <1>1, <1>5, <2>1, <2>2, <2>3
  <2>5. sml' = <<>> => Len(sml') = 0
    BY EmptySeq
  <2>6. TypeOK'
    BY <1>1, <1>2, <1>4, <2>2, <2>4 DEF IInv, TypeOK
  <2>7. FormInv'
    BY <1>0, <1>1, <2>2, <2>4, <2>5, Sizes DEF FormInv
  <2> QED
    BY <1>3, <2>6, <2>7 DEF IInv
<1>6. CASE ~found
  <2>1. sml' = l /\ sl_elems' = n
    BY <1>1, <1>6
  <2>2. TypeOK'
    BY <1>0, <1>1, <1>2, <1>4, <2>1 DEF IInv, TypeOK
  <2>3. FormInv'
    BY <1>0, <1>1, <2>1, Sizes DEF FormInv
  <2> QED
    BY <1>3, <2>2, <2>3 DEF IInv
<1> QED
  BY <1>5, <1>6

LEMMA RemSlabIInv ==
    ASSUME IInv, NEW k \in Nat, RemSlab(k)
    PROVE  IInv'
<1> DEFINE a == RemSlabAt(k)
           i == RemIndexAt(k)
           s == slabs[a]
           x == remove_elem(i, s)
           dent == Put(slabs, a, x)
<1>0. /\ slabs \in Seq(Slab) /\ Chain(slabs) /\ sl_elems \in Nat
      /\ sml = <<>> \/ slabs = <<>>
  BY DEF IInv, TypeOK
<1>1. slabs # <<>> /\ sl_elems > SMELEM_MAX
  <2>1. RemBase.slabs # <<>>
    BY DEF RemSlab, InSlabForm
  <2>2. ~(slabs # <<>> /\ sl_elems = SMELEM_MAX) /\ slabs # <<>>
    BY <2>1 DEF RemBase
  <2> QED
    BY <1>0, <2>2, Sizes DEF IInv, FormInv
<1>2. a \in 1 .. Len(slabs)
  <2>1. Len(slabs) > 0
    BY <1>0, <1>1, EmptySeq, LenProperties
  <2> QED
    BY <1>0, <2>1, find_linear_scanRange DEF RemSlabAt
<1>3. s \in Slab /\ s.s_elems \in 0 .. SELEM_MAX
  BY <1>0, <1>2, SlabAt
<1>4. i \in 0 .. s.s_elems - 1
  <2>1. i \in 0 .. s.s_elems
    BY <1>3, slab_bin_srchRange DEF RemIndexAt
  <2>2. i # s.s_elems
    BY DEF RemSlab, RemReadsDeadSlot
  <2> QED
    BY <1>3, <2>1, <2>2
<1>5. /\ slabs' = try_reap(slab_generic_rem(dent, a), sl_elems, sl_mslabs, sl_mpslabs)
      /\ sl_elems' = sl_elems - 1
      /\ ret' = [st |-> "SUCCESS", rcb |-> {s.s_arr[i]}]
      /\ UNCHANGED <<sml, sl_mslabs, sl_mpslabs, crashed>>
  BY DEF RemSlab, Put
<1> HIDE DEF s, i, a
<1>6. x \in Slab /\ x.s_elems = s.s_elems - 1
  BY <1>3, <1>4, remove_elemIsSlab
<1>7. s.s_arr[i] \in Elem
  BY <1>3, <1>4, SlabParts
<1> HIDE DEF x
<1>8. Dented(dent, a)
  BY <1>0, <1>2, <1>6, DentedChain DEF s
<1>9. Chain(slabs')
  BY <1>5, <1>8, slab_generic_remChain, try_reapChain
<1>10. slabs' \in Seq(Slab)
  BY <1>9 DEF Chain
<1>11. ret' \in [st : Status, rcb : SUBSET Elem]
  <2>1. {s.s_arr[i]} \in SUBSET Elem /\ "SUCCESS" \in Status
    BY <1>7 DEF Status
  <2> QED
    BY <1>5, <2>1, ResultType
<1>12. sl_elems' \in Nat /\ sl_elems' >= SMELEM_MAX
  BY <1>0, <1>1, <1>5, Sizes
<1>13. sml = <<>>
  BY <1>0, <1>1
<1>14. TypeOK'
  BY <1>5, <1>10, <1>11, <1>12, <1>13 DEF IInv, TypeOK
<1>15. FormInv'
  BY <1>5, <1>12, <1>13 DEF IInv, FormInv
<1>16. Chain(slabs)'
  BY <1>9 DEF Chain, Packed
<1> QED
  BY <1>14, <1>15, <1>16 DEF IInv

LEMMA RemAbsentIInv ==
    ASSUME IInv, NEW k, RemAbsent(k)
    PROVE  IInv'
<1>1. ret' \in [st : Status, rcb : SUBSET Elem]
  BY ResultType DEF RemAbsent, Status
<1> QED
  BY <1>1 DEF IInv, TypeOK, FormInv, Chain, Packed, RemAbsent

LEMMA ReapIInv ==
    ASSUME IInv, Reap
    PROVE  IInv'
<1>0. slabs \in Seq(Slab) /\ Chain(slabs)
  BY DEF IInv, TypeOK
<1>1. UNCHANGED <<sml, sl_elems, sl_mslabs, sl_mpslabs, ret, crashed>>
  BY DEF Reap
<1>2. Chain(slabs') /\ (slabs = <<>> => slabs' = <<>>) /\ (slabs' = <<>> => slabs = <<>>)
  <2>1. CASE slabs = <<>>
    BY <1>0, <2>1 DEF Reap, IS_SMALL_LIST
  <2>2. CASE slabs # <<>>
    <3>1. slabs' = slablist_reap(slabs)
      BY <2>2 DEF Reap, IS_SMALL_LIST
    <3>2. Len(slabs) > 0
      BY <1>0, <2>2, EmptySeq, LenProperties
    <3>3. Chain(slabs') /\ Len(slabs') > 0
      BY <1>0, <3>1, <3>2, slablist_reapChain
    <3>4. slabs' # <<>>
      BY <3>3, EmptySeq
    <3> QED
      BY <2>2, <3>3, <3>4
  <2> QED
    BY <2>1, <2>2
<1>3. slabs' \in Seq(Slab)
  BY <1>2 DEF Chain
<1>4. TypeOK'
  BY <1>1, <1>2, <1>3 DEF IInv, TypeOK
<1>5. FormInv'
  BY <1>1, <1>2 DEF IInv, FormInv
<1>6. Chain(slabs)'
  BY <1>2 DEF Chain, Packed
<1> QED
  BY <1>4, <1>5, <1>6 DEF IInv

LEMMA SetReapIInv ==
    ASSUME IInv, NEW n \in Nat,
           slablist_set_reap_slabs(n) \/ slablist_set_reap_pslabs(n)
    PROVE  IInv'
<1>1. UNCHANGED <<sml, slabs, sl_elems, ret, crashed>>
  BY DEF slablist_set_reap_slabs, slablist_set_reap_pslabs
<1>2. sl_mslabs' \in Nat /\ sl_mpslabs' \in 0 .. 99
  <2>1. sl_mslabs \in Nat /\ sl_mpslabs \in 0 .. 99
    BY DEF IInv, TypeOK
  <2>2. CASE slablist_set_reap_slabs(n)
    BY <2>1, <2>2 DEF slablist_set_reap_slabs
  <2>3. CASE slablist_set_reap_pslabs(n)
    BY <2>1, <2>3 DEF slablist_set_reap_pslabs
  <2> QED
    BY <2>2, <2>3
<1> QED
  BY <1>1, <1>2 DEF IInv, TypeOK, FormInv, Chain, Packed

LEMMA NextIInv == IInv /\ [Next]_vars => IInv'
<1> SUFFICES ASSUME IInv, [Next]_vars PROVE IInv'
  OBVIOUS
<1>1. ASSUME NEW e \in Elem, NEW rep \in Reps, Add(e, rep) PROVE IInv'
  BY <1>1, AddSmallIInv, AddSlabIInv, CrashIInv DEF Add, AddMisread
<1>2. ASSUME NEW k \in Key, Rem(k) PROVE IInv'
  <2>1. k \in Nat
    BY ElemAssumption
  <2> QED
    BY <1>2, <2>1, RemSmallIInv, RemSlabIInv, RemAbsentIInv, CrashIInv DEF Rem, RemDead
<1>3. ASSUME Reap PROVE IInv'
  BY <1>3, ReapIInv
<1>4. ASSUME NEW n \in ReapSlabs, slablist_set_reap_slabs(n) PROVE IInv'
  BY <1>4, ClientAssumption, SetReapIInv
<1>5. ASSUME NEW n \in ReapPslabs, slablist_set_reap_pslabs(n) PROVE IInv'
  BY <1>5, ClientAssumption, SetReapIInv
<1>6. ASSUME UNCHANGED vars PROVE IInv'
  BY <1>6 DEF vars, IInv, TypeOK, FormInv, Chain, Packed
<1> QED
  BY <1>1, <1>2, <1>3, <1>4, <1>5, <1>6 DEF Next

LEMMA Invariance == Spec => []IInv
BY InitIInv, NextIInv, PTL DEF Spec

-----------------------------------------------------------------------------
\* Whatever calls a client makes, the list stays in one of its two forms, every
\* slab of the chain is a slab, and every live slot holds a user's element.
THEOREM TypeCorrect == Spec => []TypeOK
<1>1. IInv => TypeOK
  BY DEF IInv
<1> QED
  BY <1>1, Invariance, PTL

\* Whatever is added, replaced, removed or reaped, slab_generic_rem and
\* slablist_reap leave no two neighbouring slabs that fit into one.
THEOREM NeighboursStayUnmergeable == Spec => []NeighboursUnmergeable
<1>1. IInv => NeighboursUnmergeable
  BY DEF IInv, Chain, Packed, NeighboursUnmergeable
<1> QED
  BY <1>1, Invariance, PTL

=============================================================================
