---------------------------- MODULE SlabOrderProofs ----------------------------
(***************************************************************************)
(* What the operations of SlabArray and SlabChain do to the elements of a  *)
(* sorted list: order and extrema are kept, inside a slab and along the    *)
(* chain, and no element appears or is lost but the one that is added or   *)
(* removed.                                                                *)
(*                                                                         *)
(* The elements of a slab and of a chain are sets here.  As keys rise, the *)
(* sets and the order of the slabs determine where every element stands.   *)
(***************************************************************************)
EXTENDS SlabChainProofs

\* Keys rise strictly along the live elements.
Rising(s) ==
    \A i, j \in 0 .. s.s_elems - 1 : i < j => s.s_arr[i].key < s.s_arr[j].key

\* `u' stands for `v': the keys agree, and if `x' holds all the rest as well.
StandsFor(u, v, x) == u.key = v.key /\ (x => u = v)

\* The cached extrema stand for the first and the last live element.  They are
\* these elements (x) unless additions may replace an element: that leaves
\* the extrema alone.
Capped(s, x) ==
    s.s_elems > 0 => /\ StandsFor(s.s_min, s.s_arr[0], x)
                     /\ StandsFor(s.s_max, s.s_arr[s.s_elems - 1], x)

Good(s, x) == s \in Slab /\ Rising(s) /\ Capped(s, x)

\* Every key of `A' is below every key of `B'.
Below(A, B) == \A y \in A, z \in B : y.key < z.key

\* `k' belongs at index `i' of `s', and is not there.
BelongsAt(k, s, i) ==
    /\ \A j \in 0 .. s.s_elems - 1 : j < i => s.s_arr[j].key < k
    /\ \A j \in 0 .. s.s_elems - 1 : i <= j => k < s.s_arr[j].key

-----------------------------------------------------------------------------
(* One slab *)

LEMMA SlabFacts ==
    ASSUME NEW s \in Slab
    PROVE  /\ SELEM_MAX \in Nat /\ SELEM_MAX >= 2 /\ s.s_elems \in 0 .. SELEM_MAX
           /\ \A j \in 0 .. s.s_elems - 1 :
                  j \in Index /\ s.s_arr[j] \in Elem /\ s.s_arr[j].key \in Nat
           /\ \A j \in Index : s.s_arr[j].key \in Nat
           /\ s.s_min.key \in Nat /\ s.s_max.key \in Nat
<1>1. SELEM_MAX \in Nat /\ SELEM_MAX >= 2 /\ s.s_elems \in 0 .. SELEM_MAX
  BY SlabParts, SlabSizeAssumption
<1>2. \A j \in 0 .. s.s_elems - 1 : j \in Index
  BY <1>1 DEF Index
<1> QED
  BY <1>1, <1>2, SlabParts, ElemIsSlot

LEMMA Member ==
    ASSUME NEW s, NEW z
    PROVE  z \in ElemsOf(s) <=> \E j \in 0 .. s.s_elems - 1 : z = s.s_arr[j]
BY DEF ElemsOf

\* Adding to a slab that has room, where the key belongs.
LEMMA add_elemGood ==
    ASSUME NEW x, NEW s, Good(s, x), s.s_elems < SELEM_MAX, NEW e \in Elem,
           NEW i \in 0 .. s.s_elems, BelongsAt(e.key, s, i)
    PROVE  /\ Good(add_elem(s, e, i), x)
           /\ ElemsOf(add_elem(s, e, i)) = ElemsOf(s) \cup {e}
<1> DEFINE n == s.s_elems
           t == add_elem(s, e, i)
<1>0. /\ SELEM_MAX \in Nat /\ SELEM_MAX >= 2 /\ n \in 0 .. SELEM_MAX
      /\ \A j \in 0 .. n - 1 : j \in Index /\ s.s_arr[j].key \in Nat
      /\ s \in Slab /\ Rising(s) /\ Capped(s, x) /\ e.key \in Nat
  BY SlabFacts, ElemIsSlot DEF Good
<1>1. t \in Slab /\ t.s_elems = n + 1
  BY <1>0, add_elemIsSlab
<1>2. \A j \in 0 .. n : t.s_arr[j] =
          IF j < i THEN s.s_arr[j] ELSE IF j = i THEN e ELSE s.s_arr[j - 1]
  <2> SUFFICES ASSUME NEW j \in 0 .. n
               PROVE  t.s_arr[j] = IF j < i THEN s.s_arr[j]
                                   ELSE IF j = i THEN e ELSE s.s_arr[j - 1]
    OBVIOUS
  <2>1. j \in Index
    BY <1>0 DEF Index
  <2>2. t.s_arr[j] = IF j = i THEN e
                     ELSE IF i < j /\ j <= n THEN s.s_arr[j - 1] ELSE s.s_arr[j]
    BY <2>1 DEF add_elem
  <2> QED
    BY <1>0, <2>2
<1>3. /\ t.s_min = IF i = 0 THEN t.s_arr[0] ELSE s.s_min
      /\ t.s_max = IF i = n THEN t.s_arr[n] ELSE s.s_max
  <2>1. n # SELEM_MAX
    BY <1>0
  <2> QED
    BY <2>1 DEF add_elem
<1> HIDE DEF t
<1>4. Rising(t)
  <2> SUFFICES ASSUME NEW a \in 0 .. n, NEW b \in 0 .. n, a < b
               PROVE  t.s_arr[a].key < t.s_arr[b].key
    BY <1>0, <1>1 DEF Rising
  <2>1. CASE b < i
    BY <1>0, <1>2, <2>1 DEF Rising
  <2>2. CASE b = i
    BY <1>0, <1>2, <2>2 DEF BelongsAt
  <2>3. CASE i < b /\ a < i
    BY <1>0, <1>2, <2>3 DEF Rising
  <2>4. CASE i < b /\ a = i
    BY <1>0, <1>2, <2>4 DEF BelongsAt
  <2>5. CASE i < a
    BY <1>0, <1>2, <2>5 DEF Rising
  <2> QED
    BY <1>0, <2>1, <2>2, <2>3, <2>4, <2>5
<1>5. Capped(t, x)
  <2>1. StandsFor(t.s_min, t.s_arr[0], x)
    BY <1>0, <1>2, <1>3 DEF Capped, StandsFor
  <2>2. StandsFor(t.s_max, t.s_arr[n], x)
    BY <1>0, <1>2, <1>3 DEF Capped, StandsFor
  <2> QED
    BY <1>0, <1>1, <2>1, <2>2 DEF Capped
<1>6. ElemsOf(t) = ElemsOf(s) \cup {e}
  <2>1. ASSUME NEW z \in ElemsOf(t) PROVE z \in ElemsOf(s) \cup {e}
    <3>1. PICK j \in 0 .. n : z = t.s_arr[j]
      BY <1>0, <1>1, <2>1, Member
    <3>2. z = e \/ \E k \in 0 .. n - 1 : z = s.s_arr[k]
      BY <1>0, <1>2, <3>1
    <3> QED
      BY <3>2, Member
  <2>2. ASSUME NEW z \in ElemsOf(s) PROVE z \in ElemsOf(t)
    <3>1. PICK k \in 0 .. n - 1 : z = s.s_arr[k]
      BY <2>2, Member
    <3>2. z = t.s_arr[IF k < i THEN k ELSE k + 1]
      BY <1>0, <1>2, <3>1
    <3>3. (IF k < i THEN k ELSE k + 1) \in 0 .. n
      BY <1>0, <3>1
    <3> QED
      BY <1>0, <1>1, <3>2, <3>3, Member
  <2>3. e \in ElemsOf(t)
    <3>1. t.s_arr[i] = e
      BY <1>0, <1>2
    <3> QED
      BY <1>0, <1>1, <3>1, Member
  <2> QED
    BY <2>1, <2>2, <2>3
<1> QED
  BY <1>1, <1>4, <1>5, <1>6 DEF Good, t

\* A slab that lost the element at index `i', the later ones moved down.
LostAt(s, t, i) ==
    /\ t.s_elems = s.s_elems - 1
    /\ \A j \in 0 .. s.s_elems - 2 :
           t.s_arr[j] = IF j < i THEN s.s_arr[j] ELSE s.s_arr[j + 1]

LEMMA LostAtGood ==
    ASSUME NEW x, NEW s, Good(s, x), NEW i \in 0 .. s.s_elems - 1,
           NEW t \in Slab, LostAt(s, t, i),
           s.s_elems > 1 => /\ StandsFor(t.s_min, t.s_arr[0], x)
                            /\ StandsFor(t.s_max, t.s_arr[s.s_elems - 2], x)
    PROVE  Good(t, x) /\ ElemsOf(t) = ElemsOf(s) \ {s.s_arr[i]}
<1> DEFINE n == s.s_elems
<1>0. /\ SELEM_MAX \in Nat /\ n \in 1 .. SELEM_MAX
      /\ \A j \in 0 .. n - 1 : s.s_arr[j].key \in Nat
      /\ s \in Slab /\ Rising(s)
  BY SlabFacts DEF Good
<1>1. /\ t.s_elems = n - 1
      /\ \A j \in 0 .. n - 2 :
             t.s_arr[j] = IF j < i THEN s.s_arr[j] ELSE s.s_arr[j + 1]
  BY DEF LostAt
<1>2. Rising(t)
  <2> SUFFICES ASSUME NEW a \in 0 .. n - 2, NEW b \in 0 .. n - 2, a < b
               PROVE  t.s_arr[a].key < t.s_arr[b].key
    BY <1>0, <1>1 DEF Rising
  <2>1. CASE b < i
    BY <1>0, <1>1, <2>1 DEF Rising
  <2>2. CASE a < i /\ i <= b
    BY <1>0, <1>1, <2>2 DEF Rising
  <2>3. CASE i <= a
    BY <1>0, <1>1, <2>3 DEF Rising
  <2> QED
    BY <1>0, <2>1, <2>2, <2>3
<1>3. Capped(t, x)
  BY <1>0, <1>1 DEF Capped
<1>4. ElemsOf(t) = ElemsOf(s) \ {s.s_arr[i]}
  <2>1. ASSUME NEW z \in ElemsOf(t) PROVE z \in ElemsOf(s) \ {s.s_arr[i]}
    <3>1. PICK j \in 0 .. n - 2 : z = t.s_arr[j]
      BY <1>0, <1>1, <2>1, Member
    <3> DEFINE k == IF j < i THEN j ELSE j + 1
    <3>2. k \in 0 .. n - 1 /\ k # i /\ z = s.s_arr[k]
      BY <1>0, <1>1, <3>1
    <3> HIDE DEF k
    <3>3. z # s.s_arr[i]
      <4>1. s.s_arr[k].key # s.s_arr[i].key
        BY <1>0, <3>2 DEF Rising
      <4> QED
        BY <3>2, <4>1
    <3> QED
      BY <3>2, <3>3, Member
  <2>2. ASSUME NEW z \in ElemsOf(s) \ {s.s_arr[i]} PROVE z \in ElemsOf(t)
    <3>1. PICK k \in 0 .. n - 1 : z = s.s_arr[k]
      BY <2>2, Member
    <3>2. k # i
      BY <2>2, <3>1
    <3> DEFINE j == IF k < i THEN k ELSE k - 1
    <3>3. j \in 0 .. n - 2 /\ z = t.s_arr[j]
      BY <1>0, <1>1, <3>1, <3>2
    <3> QED
      BY <1>0, <1>1, <3>3, Member
  <2> QED
    BY <2>1, <2>2
<1> QED
  BY <1>2, <1>3, <1>4 DEF Good

LEMMA remove_elemLost ==
    ASSUME NEW x, NEW s \in Slab, NEW i \in 0 .. s.s_elems - 1
    PROVE  LET t == remove_elem(i, s)
           IN  /\ t \in Slab /\ LostAt(s, t, i)
               /\ Capped(s, x) /\ s.s_elems > 1 =>
                      /\ StandsFor(t.s_min, t.s_arr[0], x)
                      /\ StandsFor(t.s_max, t.s_arr[s.s_elems - 2], x)
<1> DEFINE n == s.s_elems
           t == remove_elem(i, s)
<1>0. /\ SELEM_MAX \in Nat /\ n \in 1 .. SELEM_MAX /\ s \in Slab
      /\ \A j \in 0 .. n - 1 : j \in Index
  BY SlabFacts
<1>1. t \in Slab /\ t.s_elems = n - 1
  BY <1>0, remove_elemIsSlab
<1>2. \A j \in 0 .. n - 2 : t.s_arr[j] = IF j < i THEN s.s_arr[j] ELSE s.s_arr[j + 1]
  <2> SUFFICES ASSUME NEW j \in 0 .. n - 2
               PROVE  t.s_arr[j] = IF j < i THEN s.s_arr[j] ELSE s.s_arr[j + 1]
    OBVIOUS
  <2>1. j \in Index
    BY <1>0
  <2>2. t.s_arr[j] = IF i <= j /\ j < n - 1 THEN s.s_arr[j + 1] ELSE s.s_arr[j]
    BY <2>1 DEF remove_elem
  <2> QED
    BY <1>0, <2>2
<1>3. /\ t.s_min = IF n - 1 > 0 /\ i = 0 THEN t.s_arr[0] ELSE s.s_min
      /\ t.s_max = IF n - 1 > 0 /\ i = n - 1 THEN t.s_arr[n - 2] ELSE s.s_max
  <2>1. (n - 1) - 1 = n - 2
    BY <1>0
  <2> QED
    BY <2>1 DEF remove_elem
<1> HIDE DEF t
<1>4. LostAt(s, t, i)
  BY <1>1, <1>2 DEF LostAt
<1>5. ASSUME n > 1, Capped(s, x)
      PROVE  StandsFor(t.s_min, t.s_arr[0], x) /\ StandsFor(t.s_max, t.s_arr[n - 2], x)
  <2>1. StandsFor(s.s_min, s.s_arr[0], x) /\ StandsFor(s.s_max, s.s_arr[n - 1], x)
    BY <1>0, <1>5 DEF Capped
  <2>2. StandsFor(t.s_min, t.s_arr[0], x)
    BY <1>0, <1>2, <1>3, <1>5, <2>1 DEF StandsFor
  <2>3. StandsFor(t.s_max, t.s_arr[n - 2], x)
    BY <1>0, <1>2, <1>3, <1>5, <2>1 DEF StandsFor
  <2> QED
    BY <2>2, <2>3
<1> QED
  BY <1>1, <1>4, <1>5 DEF t

LEMMA remove_elemGood ==
    ASSUME NEW x, NEW s, Good(s, x), NEW i \in 0 .. s.s_elems - 1
    PROVE  /\ Good(remove_elem(i, s), x)
           /\ ElemsOf(remove_elem(i, s)) = ElemsOf(s) \ {s.s_arr[i]}
<1> DEFINE t == remove_elem(i, s)
<1>1. s \in Slab /\ Capped(s, x)
  BY DEF Good
<1>2. /\ t \in Slab /\ LostAt(s, t, i)
      /\ s.s_elems > 1 => /\ StandsFor(t.s_min, t.s_arr[0], x)
                          /\ StandsFor(t.s_max, t.s_arr[s.s_elems - 2], x)
  BY <1>1, remove_elemLost
<1> HIDE DEF t
<1>3. Good(t, x) /\ ElemsOf(t) = ElemsOf(s) \ {s.s_arr[i]}
  BY <1>2, LostAtGood
<1> QED
  BY <1>3 DEF t

LEMMA DropLastGood ==
    ASSUME NEW x, NEW s, Good(s, x), s.s_elems = SELEM_MAX
    PROVE  /\ Good(DropLast(s), x)
           /\ DropLast(s).s_elems = SELEM_MAX - 1
           /\ ElemsOf(DropLast(s)) = ElemsOf(s) \ {s.s_arr[SELEM_MAX - 1]}
           /\ \A j \in 0 .. SELEM_MAX - 2 : DropLast(s).s_arr[j] = s.s_arr[j]
<1> DEFINE t == DropLast(s)
           l == SELEM_MAX - 1
<1>0. /\ SELEM_MAX \in Nat /\ SELEM_MAX >= 2 /\ s \in Slab /\ Capped(s, x)
      /\ l \in 0 .. SELEM_MAX - 1 /\ l \in 0 .. s.s_elems - 1
  BY SlabFacts DEF Good
<1>1. t \in Slab /\ t.s_elems = SELEM_MAX - 1
  BY <1>0, DropLastIsSlab
<1>2. t.s_arr = s.s_arr /\ t.s_min = s.s_min /\ t.s_max = s.s_arr[SELEM_MAX - 2]
  BY <1>0 DEF DropLast, Slab
<1> HIDE DEF t
<1>3. LostAt(s, t, l)
  BY <1>0, <1>1, <1>2 DEF LostAt
<1>4. StandsFor(t.s_min, t.s_arr[0], x) /\ StandsFor(t.s_max, t.s_arr[s.s_elems - 2], x)
  BY <1>0, <1>1, <1>2 DEF Capped, StandsFor
<1>5. Good(t, x) /\ ElemsOf(t) = ElemsOf(s) \ {s.s_arr[l]}
  BY <1>0, <1>1, <1>3, <1>4, LostAtGood
<1> QED
  BY <1>1, <1>2, <1>5 DEF t

LEMMA DropFirstGood ==
    ASSUME NEW x, NEW s, Good(s, x), s.s_elems = SELEM_MAX
    PROVE  /\ Good(DropFirst(s), x)
           /\ DropFirst(s).s_elems = SELEM_MAX - 1
           /\ ElemsOf(DropFirst(s)) = ElemsOf(s) \ {s.s_arr[0]}
           /\ \A j \in 0 .. SELEM_MAX - 2 : DropFirst(s).s_arr[j] = s.s_arr[j + 1]
<1> DEFINE t == DropFirst(s)
<1>0. /\ SELEM_MAX \in Nat /\ SELEM_MAX >= 2 /\ s \in Slab /\ Capped(s, x)
      /\ 0 \in 0 .. s.s_elems - 1
      /\ \A j \in 0 .. SELEM_MAX - 1 : j \in Index
  BY SlabFacts DEF Good, Index
<1>1. t \in Slab /\ t.s_elems = SELEM_MAX - 1
  BY <1>0, DropFirstIsSlab
<1>2. /\ \A j \in 0 .. SELEM_MAX - 2 : t.s_arr[j] = s.s_arr[j + 1]
      /\ t.s_min = t.s_arr[0] /\ t.s_max = s.s_max
  <2> DEFINE arr == [j \in Index |->
                        IF j < SELEM_MAX - 1 THEN s.s_arr[j + 1] ELSE s.s_arr[j]]
  <2>1. t = SetFront(s, s.s_elems - 1, arr, arr[0])
    BY DEF DropFirst, SetFront
  <2> HIDE DEF arr, t
  <2>2. t.s_arr = arr /\ t.s_min = arr[0] /\ t.s_max = s.s_max
    BY <1>0, <2>1 DEF SetFront, Slab
  <2>3. \A j \in 0 .. SELEM_MAX - 2 : arr[j] = s.s_arr[j + 1]
    BY <1>0 DEF arr
  <2> QED
    BY <2>2, <2>3
<1> HIDE DEF t
<1>3. LostAt(s, t, 0)
  BY <1>0, <1>1, <1>2 DEF LostAt
<1>4. StandsFor(t.s_min, t.s_arr[0], x) /\ StandsFor(t.s_max, t.s_arr[s.s_elems - 2], x)
  <2>1. t.s_arr[SELEM_MAX - 2] = s.s_arr[SELEM_MAX - 1]
    BY <1>0, <1>2
  <2> QED
    BY <1>0, <1>1, <1>2, <2>1 DEF Capped, StandsFor
<1>5. Good(t, x) /\ ElemsOf(t) = ElemsOf(s) \ {s.s_arr[0]}
  BY <1>0, <1>1, <1>3, <1>4, LostAtGood
<1> QED
  BY <1>1, <1>2, <1>5 DEF t

-----------------------------------------------------------------------------
(* Two neighbours *)

\* The element at index `j' of the live elements of `l' followed by those of `r'.
AtRun(l, r, j) == IF j < l.s_elems THEN l.s_arr[j] ELSE r.s_arr[j - l.s_elems]

\* Two slabs hold the same elements in the same order as two others.
SameRun(l, r, l2, r2) ==
    /\ l2.s_elems + r2.s_elems = l.s_elems + r.s_elems
    /\ \A j \in 0 .. l.s_elems + r.s_elems - 1 : AtRun(l2, r2, j) = AtRun(l, r, j)

LEMMA RunRises ==
    ASSUME NEW l \in Slab, NEW r \in Slab
    PROVE  Rising(l) /\ Rising(r) /\ Below(ElemsOf(l), ElemsOf(r)) <=>
           \A i, j \in 0 .. l.s_elems + r.s_elems - 1 :
               i < j => AtRun(l, r, i).key < AtRun(l, r, j).key
<1> DEFINE n == l.s_elems
           m == r.s_elems
<1>0. /\ n \in Nat /\ m \in Nat
      /\ \A j \in 0 .. n - 1 : l.s_arr[j].key \in Nat
      /\ \A j \in 0 .. m - 1 : r.s_arr[j].key \in Nat
  BY SlabFacts
<1>1. ASSUME Rising(l), Rising(r), Below(ElemsOf(l), ElemsOf(r)),
             NEW i \in 0 .. n + m - 1, NEW j \in 0 .. n + m - 1, i < j
      PROVE  AtRun(l, r, i).key < AtRun(l, r, j).key
  <2>1. CASE j < n
    <3>1. i \in 0 .. n - 1 /\ j \in 0 .. n - 1
      BY <1>0, <1>1, <2>1
    <3>2. AtRun(l, r, i) = l.s_arr[i] /\ AtRun(l, r, j) = l.s_arr[j]
      BY <3>1, <1>0 DEF AtRun
    <3> QED
      BY <1>1, <3>1, <3>2 DEF Rising
  <2>2. CASE i < n /\ n <= j
    <3>1. i \in 0 .. n - 1 /\ j - n \in 0 .. m - 1
      BY <1>0, <1>1, <2>2
    <3>2. AtRun(l, r, i) = l.s_arr[i] /\ AtRun(l, r, j) = r.s_arr[j - n]
      BY <2>2, <1>0 DEF AtRun
    <3>3. l.s_arr[i] \in ElemsOf(l) /\ r.s_arr[j - n] \in ElemsOf(r)
      BY <3>1, Member
    <3> QED
      BY <1>1, <3>2, <3>3 DEF Below
  <2>3. CASE n <= i
    <3>1. i - n \in 0 .. m - 1 /\ j - n \in 0 .. m - 1 /\ i - n < j - n
      BY <1>0, <1>1, <2>3
    <3>2. AtRun(l, r, i) = r.s_arr[i - n] /\ AtRun(l, r, j) = r.s_arr[j - n]
      BY <1>0, <1>1, <2>3 DEF AtRun
    <3> QED
      BY <1>1, <3>1, <3>2 DEF Rising
  <2> QED
    BY <1>0, <1>1, <2>1, <2>2, <2>3
<1>2. ASSUME \A i, j \in 0 .. n + m - 1 : i < j => AtRun(l, r, i).key < AtRun(l, r, j).key
      PROVE  Rising(l) /\ Rising(r) /\ Below(ElemsOf(l), ElemsOf(r))
  <2>1. \A i \in 0 .. n - 1 : i \in 0 .. n + m - 1 /\ AtRun(l, r, i) = l.s_arr[i]
    BY <1>0 DEF AtRun
  <2>2. \A i \in 0 .. m - 1 : /\ n + i \in 0 .. n + m - 1
                              /\ AtRun(l, r, n + i) = r.s_arr[i]
    BY <1>0 DEF AtRun
  <2>3. Rising(l)
    BY <1>0, <1>2, <2>1 DEF Rising
  <2>4. Rising(r)
    BY <1>0, <1>2, <2>2 DEF Rising
  <2>5. Below(ElemsOf(l), ElemsOf(r))
    <3> SUFFICES ASSUME NEW y \in ElemsOf(l), NEW z \in ElemsOf(r) PROVE y.key < z.key
      BY DEF Below
    <3>1. PICK i \in 0 .. n - 1 : y = l.s_arr[i]
      BY Member
    <3>2. PICK j \in 0 .. m - 1 : z = r.s_arr[j]
      BY Member
    <3>3. i < n + j
      BY <1>0
    <3> QED
      BY <1>2, <2>1, <2>2, <3>1, <3>2, <3>3
  <2> QED
    BY <2>3, <2>4, <2>5
<1> QED
  BY <1>1, <1>2

LEMMA RunElems ==
    ASSUME NEW l \in Slab, NEW r \in Slab, NEW z
    PROVE  z \in ElemsOf(l) \cup ElemsOf(r) <=>
           \E j \in 0 .. l.s_elems + r.s_elems - 1 : z = AtRun(l, r, j)
<1> DEFINE n == l.s_elems
           m == r.s_elems
<1>0. n \in Nat /\ m \in Nat
  BY SlabFacts
<1>1. ASSUME z \in ElemsOf(l)
      PROVE  \E j \in 0 .. n + m - 1 : z = AtRun(l, r, j)
  <2>1. PICK j \in 0 .. n - 1 : z = l.s_arr[j]
    BY <1>1, Member
  <2>2. j \in 0 .. n + m - 1 /\ z = AtRun(l, r, j)
    BY <1>0, <2>1 DEF AtRun
  <2> QED
    BY <2>2
<1>2. ASSUME z \in ElemsOf(r)
      PROVE  \E j \in 0 .. n + m - 1 : z = AtRun(l, r, j)
  <2>1. PICK j \in 0 .. m - 1 : z = r.s_arr[j]
    BY <1>2, Member
  <2>2. n + j \in 0 .. n + m - 1 /\ z = AtRun(l, r, n + j)
    BY <1>0, <2>1 DEF AtRun
  <2> QED
    BY <2>2
<1>3. ASSUME NEW j \in 0 .. n + m - 1, z = AtRun(l, r, j)
      PROVE  z \in ElemsOf(l) \cup ElemsOf(r)
  <2>1. CASE j < n
    BY <1>0, <1>3, <2>1, Member DEF AtRun
  <2>2. CASE n <= j
    <3>1. j - n \in 0 .. m - 1 /\ z = r.s_arr[j - n]
      BY <1>0, <1>3, <2>2 DEF AtRun
    <3> QED
      BY <3>1, Member
  <2> QED
    BY <1>0, <2>1, <2>2
<1> QED
  BY <1>1, <1>2, <1>3

\* What holds of two neighbours before and after elements are moved between them.
LEMMA MovedGood ==
    ASSUME NEW x, NEW l, NEW r, Good(l, x), Good(r, x), Below(ElemsOf(l), ElemsOf(r)),
           NEW l2 \in Slab, NEW r2 \in Slab, SameRun(l, r, l2, r2),
           Capped(l2, x), Capped(r2, x)
    PROVE  /\ Good(l2, x) /\ Good(r2, x) /\ Below(ElemsOf(l2), ElemsOf(r2))
           /\ ElemsOf(l2) \cup ElemsOf(r2) = ElemsOf(l) \cup ElemsOf(r)
<1> DEFINE N == l.s_elems + r.s_elems - 1
           N2 == l2.s_elems + r2.s_elems - 1
<1>0. l \in Slab /\ r \in Slab /\ Rising(l) /\ Rising(r)
  BY DEF Good
<1>1. \A i, j \in 0 .. N : i < j => AtRun(l, r, i).key < AtRun(l, r, j).key
  BY <1>0, RunRises
<1>2. N2 = N /\ \A j \in 0 .. N : AtRun(l2, r2, j) = AtRun(l, r, j)
  <2>1. /\ l.s_elems \in Nat /\ r.s_elems \in Nat
        /\ l2.s_elems \in Nat /\ r2.s_elems \in Nat
    BY <1>0, SlabFacts
  <2>2. l2.s_elems + r2.s_elems = l.s_elems + r.s_elems
    BY DEF SameRun
  <2>3. N2 = N
    BY <2>1, <2>2
  <2>4. \A j \in 0 .. N : AtRun(l2, r2, j) = AtRun(l, r, j)
    BY Zenon DEF SameRun
  <2> QED
    BY <2>3, <2>4
<1>3. \A i, j \in 0 .. N2 : i < j => AtRun(l2, r2, i).key < AtRun(l2, r2, j).key
  <2> HIDE DEF N, N2
  <2> QED
    BY <1>1, <1>2
<1>4. Rising(l2) /\ Rising(r2) /\ Below(ElemsOf(l2), ElemsOf(r2))
  BY <1>3, RunRises
<1>5. \A z : z \in ElemsOf(l2) \cup ElemsOf(r2) <=> z \in ElemsOf(l) \cup ElemsOf(r)
  <2> SUFFICES ASSUME NEW z
               PROVE  z \in ElemsOf(l2) \cup ElemsOf(r2) <=> z \in ElemsOf(l) \cup ElemsOf(r)
    OBVIOUS
  <2>1. z \in ElemsOf(l2) \cup ElemsOf(r2) <=>
        \E j \in 0 .. l2.s_elems + r2.s_elems - 1 : z = AtRun(l2, r2, j)
    BY RunElems
  <2>2. z \in ElemsOf(l) \cup ElemsOf(r) <=>
        \E j \in 0 .. l.s_elems + r.s_elems - 1 : z = AtRun(l, r, j)
    BY <1>0, RunElems
  <2> HIDE DEF N, N2
  <2>4. (\E j \in 0 .. N2 : z = AtRun(l2, r2, j)) <=> \E j \in 0 .. N : z = AtRun(l, r, j)
    BY <1>2
  <2> QED
    BY <2>1, <2>2, <2>4 DEF N, N2
<1> QED
  BY <1>4, <1>5 DEF Good

\* Moving to a next slab that is not empty: the moved elements keep their order.
LEMMA move_to_nextRun ==
    ASSUME NEW x, NEW s \in Slab, NEW d \in Slab, d.s_elems > 0
    PROVE  /\ SameRun(s, d, move_to_next(s, d)[1], move_to_next(s, d)[2])
           /\ Capped(s, x) /\ Capped(d, x) =>
                  Capped(move_to_next(s, d)[1], x) /\ Capped(move_to_next(s, d)[2], x)
<1> DEFINE n == s.s_elems
           m == d.s_elems
           c == CopyCount(s, d)
           t == move_to_next(s, d)[1]
           u == move_to_next(s, d)[2]
           arr == [j \in Index |->
                      IF j < c THEN s.s_arr[(n - c) + j]
                      ELSE IF j < c + m THEN d.s_arr[j - c] ELSE d.s_arr[j]]
<1>0. /\ SELEM_MAX \in Nat /\ SELEM_MAX >= 2 /\ n \in 0 .. SELEM_MAX
      /\ m \in 1 .. SELEM_MAX /\ c \in 0 .. n /\ c + m <= SELEM_MAX
  <2>1. SELEM_MAX \in Nat /\ SELEM_MAX >= 2 /\ n \in 0 .. SELEM_MAX /\ m \in 0 .. SELEM_MAX
    BY SlabFacts
  <2>2. c \in 0 .. n /\ c <= SELEM_MAX - m
    BY CopyCountRange
  <2> HIDE DEF n, m, c
  <2> QED
    BY <2>1, <2>2 DEF m
<1>1. CASE n = 0
  <2>1. t = s /\ u = d
    BY <1>1 DEF move_to_next
  <2> QED
    BY <2>1 DEF SameRun
<1>2. CASE n # 0
  <2>1. /\ t = SetEnd(s, n - c, MaxAfter(s.s_arr, n - c, s.s_max))
        /\ u = SetFront(d, m + c, arr, arr[0])
    BY <1>2 DEF move_to_next, SetEnd, SetFront
  <2>2. \A j \in 0 .. m + c - 1 : arr[j] = IF j < c THEN s.s_arr[(n - c) + j]
                                           ELSE d.s_arr[j - c]
    <3>1. \A j \in 0 .. m + c - 1 : j \in Index
      BY <1>0 DEF Index
    <3> QED
      BY <1>0, <3>1
  <2> HIDE DEF t, u, arr, n, m, c
  <2>3. /\ t.s_elems = n - c /\ t.s_arr = s.s_arr /\ t.s_min = s.s_min
        /\ t.s_max = MaxAfter(s.s_arr, n - c, s.s_max)
    BY <2>1 DEF SetEnd, Slab
  <2>4. /\ u.s_elems = m + c /\ u.s_arr = arr /\ u.s_min = arr[0]
        /\ u.s_max = d.s_max
    BY <2>1 DEF SetFront, Slab
  <2>5. SameRun(s, d, t, u)
    <3>1. t.s_elems + u.s_elems = n + m
      BY <1>0, <2>3, <2>4
    <3>2. ASSUME NEW j \in 0 .. n + m - 1 PROVE AtRun(t, u, j) = AtRun(s, d, j)
      <4>1. CASE j < n - c
        BY <1>0, <2>3, <4>1 DEF AtRun, n
      <4>2. CASE n - c <= j /\ j < n
        <5>1. /\ j - (n - c) \in 0 .. m + c - 1 /\ j - (n - c) < c
              /\ (n - c) + (j - (n - c)) = j
          BY <1>0, <4>2
        <5>2. arr[j - (n - c)] = s.s_arr[j]
          BY <2>2, <5>1
        <5> QED
          BY <1>0, <2>3, <2>4, <4>2, <5>2 DEF AtRun, n
      <4>3. CASE n <= j
        <5>1. /\ j - (n - c) \in 0 .. m + c - 1 /\ ~(j - (n - c) < c)
              /\ (j - (n - c)) - c = j - n
          BY <1>0, <4>3
        <5>2. arr[j - (n - c)] = d.s_arr[j - n]
          BY <2>2, <5>1
        <5> QED
          BY <1>0, <2>3, <2>4, <4>3, <5>2 DEF AtRun, n
      <4> QED
        BY <1>0, <4>1, <4>2, <4>3
    <3> QED
      BY <3>1, <3>2 DEF SameRun, n, m
  <2>6. Capped(s, x) => Capped(t, x)
    BY <1>0, <2>3 DEF Capped, StandsFor, MaxAfter, n
  <2>7. ASSUME Capped(d, x) PROVE Capped(u, x)
    <3>1. arr[(m + c) - 1] = d.s_arr[m - 1]
      <4>1. /\ (m + c) - 1 \in 0 .. m + c - 1 /\ ~((m + c) - 1 < c)
            /\ ((m + c) - 1) - c = m - 1
        BY <1>0
      <4> QED
        BY <2>2, <4>1
    <3>2. StandsFor(d.s_max, d.s_arr[m - 1], x)
      BY <1>0, <2>7 DEF Capped, m
    <3> QED
      BY <2>4, <3>1, <3>2 DEF Capped, StandsFor
  <2> QED
    BY <2>5, <2>6, <2>7 DEF t, u
<1> QED
  BY <1>1, <1>2

\* The same for a previous slab.
LEMMA move_to_prevRun ==
    ASSUME NEW x, NEW s \in Slab, NEW d \in Slab
    PROVE  /\ SameRun(d, s, move_to_prev(s, d)[2], move_to_prev(s, d)[1])
           /\ Capped(s, x) /\ Capped(d, x) =>
                  Capped(move_to_prev(s, d)[1], x) /\ Capped(move_to_prev(s, d)[2], x)
<1> DEFINE n == s.s_elems
           m == d.s_elems
           c == CopyCount(s, d)
           t == move_to_prev(s, d)[1]
           u == move_to_prev(s, d)[2]
           parr == [j \in Index |-> IF m <= j /\ j < m + c THEN s.s_arr[j - m]
                                    ELSE d.s_arr[j]]
           arr  == [j \in Index |-> IF j < n - c THEN s.s_arr[j + c] ELSE s.s_arr[j]]
<1>0. /\ SELEM_MAX \in Nat /\ SELEM_MAX >= 2 /\ n \in 0 .. SELEM_MAX
      /\ m \in 0 .. SELEM_MAX /\ c \in 0 .. n /\ c + m <= SELEM_MAX
  <2>1. SELEM_MAX \in Nat /\ SELEM_MAX >= 2 /\ n \in 0 .. SELEM_MAX /\ m \in 0 .. SELEM_MAX
    BY SlabFacts
  <2>2. c \in 0 .. n /\ c <= SELEM_MAX - m
    BY CopyCountRange
  <2> HIDE DEF n, m, c
  <2> QED
    BY <2>1, <2>2
<1>1. CASE n = 0
  <2>1. t = s /\ u = d
    BY <1>1 DEF move_to_prev
  <2> QED
    BY <2>1 DEF SameRun
<1>2. CASE n # 0
  <2>1. /\ t.s_elems = n - c /\ t.s_arr = arr /\ t.s_min = arr[0]
        /\ t.s_max = MaxAfter(arr, n - c, s.s_max)
        /\ u.s_elems = m + c /\ u.s_arr = parr /\ u.s_min = parr[0]
        /\ u.s_max = MaxAfter(parr, m + c, d.s_max)
    BY <1>2 DEF move_to_prev
  <2>2. \A j \in 0 .. m + c - 1 : parr[j] = IF m <= j THEN s.s_arr[j - m] ELSE d.s_arr[j]
    <3>1. \A j \in 0 .. m + c - 1 : j \in Index
      BY <1>0 DEF Index
    <3> QED
      BY <1>0, <3>1
  <2>3. \A j \in 0 .. n - c - 1 : arr[j] = s.s_arr[j + c]
    <3>1. \A j \in 0 .. n - c - 1 : j \in Index
      BY <1>0 DEF Index
    <3> QED
      BY <1>0, <3>1
  <2> HIDE DEF t, u, arr, parr, n, m, c
  <2>4. SameRun(d, s, u, t)
    <3>1. u.s_elems + t.s_elems = m + n
      BY <1>0, <2>1
    <3>2. ASSUME NEW j \in 0 .. m + n - 1 PROVE AtRun(u, t, j) = AtRun(d, s, j)
      <4>1. CASE j < m
        BY <1>0, <2>1, <2>2, <4>1 DEF AtRun, m
      <4>2. CASE m <= j /\ j < m + c
        BY <1>0, <2>1, <2>2, <4>2 DEF AtRun, m
      <4>3. CASE m + c <= j
        <5>1. j - (m + c) \in 0 .. n - c - 1 /\ (j - (m + c)) + c = j - m
          BY <1>0, <4>3
        <5>2. arr[j - (m + c)] = s.s_arr[j - m]
          BY <2>3, <5>1
        <5> QED
          BY <1>0, <2>1, <4>3, <5>2 DEF AtRun, m
      <4> QED
        BY <1>0, <4>1, <4>2, <4>3
    <3> QED
      BY <3>1, <3>2 DEF SameRun, n, m
  <2>5. Capped(s, x) => Capped(t, x)
    BY <1>0, <2>1 DEF Capped, StandsFor, MaxAfter
  <2>6. Capped(d, x) => Capped(u, x)
    BY <1>0, <2>1 DEF Capped, StandsFor, MaxAfter
  <2> QED
    BY <2>4, <2>5, <2>6 DEF t, u
<1> QED
  BY <1>1, <1>2

-----------------------------------------------------------------------------
(* The chain *)

\* A chain in order: every slab is, and keys rise from slab to slab.
Filed(ls, x) ==
    /\ ls \in Seq(Slab)
    /\ \A a \in 1 .. Len(ls) : Good(ls[a], x)
    /\ \A a, b \in 1 .. Len(ls) : a < b => Below(ElemsOf(ls[a]), ElemsOf(ls[b]))

\* The elements of a chain.
Stock(ls) == UNION {ElemsOf(ls[a]) : a \in DOMAIN ls}

\* Keys of `X' are above those of the slabs before `a' and below those of the
\* slabs after `b'.
Between(X, ls, a, b) ==
    /\ \A j \in 1 .. Len(ls) : j < a => Below(ElemsOf(ls[j]), X)
    /\ \A j \in 1 .. Len(ls) : b < j => Below(X, ElemsOf(ls[j]))

\* The same of one element.
Fits(e, ls, a, b) == Between({e}, ls, a, b)

LEMMA StockMember ==
    ASSUME NEW ls \in Seq(Slab), NEW z
    PROVE  z \in Stock(ls) <=> \E a \in 1 .. Len(ls) : z \in ElemsOf(ls[a])
BY SlabAt DEF Stock

LEMMA FiledFacts ==
    ASSUME NEW x, NEW ls, Filed(ls, x)
    PROVE  /\ ls \in Seq(Slab) /\ Len(ls) \in Nat
           /\ SELEM_MAX \in Nat /\ SELEM_MAX >= 2
           /\ \A a \in 1 .. Len(ls) : /\ Good(ls[a], x) /\ ls[a] \in Slab
                                      /\ ls[a].s_elems \in 0 .. SELEM_MAX
           /\ \A a, b \in 1 .. Len(ls) : a < b => Below(ElemsOf(ls[a]), ElemsOf(ls[b]))
BY SlabAt DEF Filed

\* One slab changes: it may gain elements that stand between its neighbours.
LEMMA OneChangedFiled ==
    ASSUME NEW x, NEW ls, Filed(ls, x), NEW a \in 1 .. Len(ls), NEW X,
           NEW t, Good(t, x), ElemsOf(t) \subseteq ElemsOf(ls[a]) \cup X,
           Between(X, ls, a, a)
    PROVE  /\ Filed(Put(ls, a, t), x)
           /\ \A z : z \in Stock(Put(ls, a, t)) <=>
                  z \in ElemsOf(t) \/ \E j \in 1 .. Len(ls) : j # a /\ z \in ElemsOf(ls[j])
<1> DEFINE r == Put(ls, a, t)
<1>0. /\ ls \in Seq(Slab) /\ Len(ls) \in Nat /\ t \in Slab
      /\ \A j \in 1 .. Len(ls) : Good(ls[j], x)
      /\ \A i, j \in 1 .. Len(ls) : i < j => Below(ElemsOf(ls[i]), ElemsOf(ls[j]))
  BY FiledFacts DEF Good
<1>1. /\ r \in Seq(Slab) /\ Len(r) = Len(ls)
      /\ \A j \in 1 .. Len(ls) : r[j] = IF j = a THEN t ELSE ls[j]
  BY ZenonT(60), <1>0, PutProperties
<1> HIDE DEF r
<1>2. \A j \in 1 .. Len(r) : Good(r[j], x)
  BY <1>0, <1>1
<1>3. ASSUME NEW i \in 1 .. Len(ls), NEW j \in 1 .. Len(ls), i < j
      PROVE  Below(ElemsOf(r[i]), ElemsOf(r[j]))
  <2>1. CASE i = a
    <3>1. /\ r[i] = t /\ r[j] = ls[j] /\ Below(X, ElemsOf(ls[j]))
          /\ Below(ElemsOf(ls[a]), ElemsOf(ls[j]))
      BY <1>0, <1>1, <1>3, <2>1 DEF Between
    <3> QED
      BY <3>1 DEF Below
  <2>2. CASE j = a
    <3>1. /\ r[j] = t /\ r[i] = ls[i] /\ Below(ElemsOf(ls[i]), X)
          /\ Below(ElemsOf(ls[i]), ElemsOf(ls[a]))
      BY <1>0, <1>1, <1>3, <2>2 DEF Between
    <3> QED
      BY <3>1 DEF Below
  <2>3. CASE i # a /\ j # a
    BY <1>0, <1>1, <1>3, <2>3
  <2> QED
    BY <2>1, <2>2, <2>3
<1>4. Filed(r, x)
  BY <1>1, <1>2, <1>3 DEF Filed
<1>5. \A z : z \in Stock(r) <=>
          z \in ElemsOf(t) \/ \E j \in 1 .. Len(ls) : j # a /\ z \in ElemsOf(ls[j])
  <2>1. \A z : z \in Stock(r) <=> \E j \in 1 .. Len(ls) : z \in ElemsOf(r[j])
    BY <1>1, StockMember
  <2> QED
    BY <1>1, <2>1
<1> QED
  BY <1>4, <1>5 DEF r

LEMMA OneGainsFiled ==
    ASSUME NEW x, NEW ls, Filed(ls, x), NEW a \in 1 .. Len(ls), NEW e,
           NEW t, Good(t, x), ElemsOf(t) = ElemsOf(ls[a]) \cup {e},
           Fits(e, ls, a, a)
    PROVE  Filed(Put(ls, a, t), x) /\ Stock(Put(ls, a, t)) = Stock(ls) \cup {e}
<1>0. ls \in Seq(Slab)
  BY FiledFacts
<1>1. /\ Filed(Put(ls, a, t), x)
      /\ \A z : z \in Stock(Put(ls, a, t)) <=>
             z \in ElemsOf(t) \/ \E j \in 1 .. Len(ls) : j # a /\ z \in ElemsOf(ls[j])
  <2>1. ElemsOf(t) \subseteq ElemsOf(ls[a]) \cup {e}
    OBVIOUS
  <2>2. Between({e}, ls, a, a)
    BY DEF Fits
  <2> QED
    BY <2>1, <2>2, OneChangedFiled
<1>2. \A z : z \in Stock(ls) <=> \E j \in 1 .. Len(ls) : z \in ElemsOf(ls[j])
  BY <1>0, StockMember
<1>3. \A z : z \in Stock(Put(ls, a, t)) <=> z \in Stock(ls) \cup {e}
  BY <1>1, <1>2
<1> QED
  BY <1>1, <1>3

LEMMA OneLosesFiled ==
    ASSUME NEW x, NEW ls, Filed(ls, x), NEW a \in 1 .. Len(ls),
           NEW y \in ElemsOf(ls[a]),
           NEW t, Good(t, x), ElemsOf(t) = ElemsOf(ls[a]) \ {y}
    PROVE  Filed(Put(ls, a, t), x) /\ Stock(Put(ls, a, t)) = Stock(ls) \ {y}
<1>0. /\ ls \in Seq(Slab) /\ Len(ls) \in Nat /\ ls[a] \in Slab
      /\ \A i, j \in 1 .. Len(ls) : i < j => Below(ElemsOf(ls[i]), ElemsOf(ls[j]))
  BY FiledFacts
<1>1. /\ Filed(Put(ls, a, t), x)
      /\ \A z : z \in Stock(Put(ls, a, t)) <=>
             z \in ElemsOf(t) \/ \E j \in 1 .. Len(ls) : j # a /\ z \in ElemsOf(ls[j])
  <2>1. ElemsOf(t) \subseteq ElemsOf(ls[a]) \cup {}
    OBVIOUS
  <2>2. Between({}, ls, a, a)
    BY DEF Between, Below
  <2> QED
    BY <2>1, <2>2, OneChangedFiled
<1>2. \A z : z \in Stock(ls) <=> \E j \in 1 .. Len(ls) : z \in ElemsOf(ls[j])
  BY <1>0, StockMember
<1>3. \A j \in 1 .. Len(ls) : j # a => y \notin ElemsOf(ls[j])
  <2>1. y.key \in Nat
    BY SMTT(60), <1>0, Member, SlabFacts
  <2>2. ~(y.key < y.key)
    BY <2>1
  <2>3. \A j \in 1 .. Len(ls) : j # a => j < a \/ a < j
    BY <1>0
  <2> QED
    BY <1>0, <2>2, <2>3 DEF Below
<1>4. \A z : z \in Stock(Put(ls, a, t)) <=> z \in Stock(ls) \ {y}
  BY <1>1, <1>2, <1>3
<1> QED
  BY <1>1, <1>4

\* Two neighbours change: together they keep their elements, and may gain some.
LEMMA TwoChangedFiled ==
    ASSUME NEW x, NEW ls, Filed(ls, x), NEW a \in 1 .. Len(ls), a + 1 \in 1 .. Len(ls),
           NEW X, Between(X, ls, a, a + 1),
           NEW r \in Seq(Slab), Len(r) = Len(ls),
           \A j \in 1 .. Len(ls) : j # a /\ j # a + 1 => r[j] = ls[j],
           Good(r[a], x), Good(r[a + 1], x), Below(ElemsOf(r[a]), ElemsOf(r[a + 1])),
           ElemsOf(r[a]) \cup ElemsOf(r[a + 1]) =
               (ElemsOf(ls[a]) \cup ElemsOf(ls[a + 1])) \cup X
    PROVE  Filed(r, x) /\ Stock(r) = Stock(ls) \cup X
<1> DEFINE b == a + 1
<1>0. /\ ls \in Seq(Slab) /\ Len(ls) \in Nat /\ b \in 1 .. Len(ls) /\ a # b
      /\ \A j \in 1 .. Len(ls) : Good(ls[j], x)
      /\ \A i, j \in 1 .. Len(ls) : i < j => Below(ElemsOf(ls[i]), ElemsOf(ls[j]))
      /\ \A j \in 1 .. Len(ls) : j # a /\ j # b => j < a \/ b < j
      /\ \A j \in 1 .. Len(ls) : b < j => a < j
      /\ \A j \in 1 .. Len(ls) : j < a => j < b
      /\ a < b
  BY FiledFacts
<1>1. /\ \A j \in 1 .. Len(ls) : j # a /\ j # b => r[j] = ls[j]
      /\ ElemsOf(r[a]) \cup ElemsOf(r[b]) = (ElemsOf(ls[a]) \cup ElemsOf(ls[b])) \cup X
      /\ Below(ElemsOf(r[a]), ElemsOf(r[b]))
      /\ Good(r[a], x) /\ Good(r[b], x)
      /\ Between(X, ls, a, b)
  OBVIOUS
<1> HIDE DEF b
<1>2. \A j \in 1 .. Len(r) : Good(r[j], x)
  BY <1>0, <1>1
<1>3. \A j \in 1 .. Len(ls) : j < a =>
          Below(ElemsOf(ls[j]), (ElemsOf(ls[a]) \cup ElemsOf(ls[b])) \cup X)
  BY <1>0, <1>1 DEF Between, Below
<1>4. \A j \in 1 .. Len(ls) : b < j =>
          Below((ElemsOf(ls[a]) \cup ElemsOf(ls[b])) \cup X, ElemsOf(ls[j]))
  BY <1>0, <1>1 DEF Between, Below
<1>5. \A j \in 1 .. Len(ls) : j < a => /\ Below(ElemsOf(ls[j]), ElemsOf(r[a]))
                                       /\ Below(ElemsOf(ls[j]), ElemsOf(r[b]))
  <2>1. \A j \in 1 .. Len(ls) : j < a => Below(ElemsOf(ls[j]), ElemsOf(r[a]) \cup ElemsOf(r[b]))
    BY <1>1, <1>3
  <2> QED
    BY <2>1 DEF Below
<1>6. \A j \in 1 .. Len(ls) : b < j => /\ Below(ElemsOf(r[a]), ElemsOf(ls[j]))
                                       /\ Below(ElemsOf(r[b]), ElemsOf(ls[j]))
  <2>1. \A j \in 1 .. Len(ls) : b < j => Below(ElemsOf(r[a]) \cup ElemsOf(r[b]), ElemsOf(ls[j]))
    BY <1>1, <1>4
  <2> QED
    BY <2>1 DEF Below
<1>7. ASSUME NEW i \in 1 .. Len(ls), NEW j \in 1 .. Len(ls), i < j
      PROVE  Below(ElemsOf(r[i]), ElemsOf(r[j]))
  <2>1. CASE i = a \/ i = b
    <3>1. CASE j = b
      <4>1. i = a
        BY <1>0, <1>7, <2>1, <3>1
      <4> QED
        BY <1>1, <3>1, <4>1
    <3>2. CASE j # b
      <4>1. b < j /\ j # a
        BY <1>0, <1>7, <2>1, <3>2 DEF b
      <4>2. r[j] = ls[j]
        BY <1>1, <3>2, <4>1
      <4> QED
        BY <1>6, <2>1, <4>1, <4>2
    <3> QED
      BY <3>1, <3>2
  <2>2. CASE i # a /\ i # b
    <3>1. r[i] = ls[i]
      BY <1>1, <2>2
    <3>2. CASE j = a \/ j = b
      <4>1. i < a
        BY <1>0, <1>7, <2>2, <3>2 DEF b
      <4> QED
        BY <1>5, <3>1, <3>2, <4>1
    <3>3. CASE j # a /\ j # b
      <4>1. r[j] = ls[j]
        BY <1>1, <3>3
      <4> QED
        BY <1>0, <1>7, <3>1, <4>1
    <3> QED
      BY <3>2, <3>3
  <2> QED
    BY <2>1, <2>2
<1>8. Filed(r, x)
  BY <1>2, <1>7 DEF Filed
<1>9. ASSUME NEW z PROVE z \in Stock(r) <=> z \in Stock(ls) \cup X
  <2>1. z \in Stock(r) <=> \E j \in 1 .. Len(ls) : z \in ElemsOf(r[j])
    BY StockMember
  <2>2. z \in Stock(ls) <=> \E j \in 1 .. Len(ls) : z \in ElemsOf(ls[j])
    BY <1>0, StockMember
  <2>3. z \in ElemsOf(r[a]) \/ z \in ElemsOf(r[b]) <=>
        z \in ElemsOf(ls[a]) \/ z \in ElemsOf(ls[b]) \/ z \in X
    BY <1>1
  <2> QED
    BY <1>0, <1>1, <2>1, <2>2, <2>3
<1> QED
  BY <1>8, <1>9

\* A slab is linked in where its elements belong.
LEMMA LinkedFiled ==
    ASSUME NEW x, NEW ls, Filed(ls, x), NEW p \in 1 .. Len(ls) + 1,
           NEW t, Good(t, x), Between(ElemsOf(t), ls, p, p - 1)
    PROVE  /\ Filed(InsertAt(ls, p, t), x)
           /\ Stock(InsertAt(ls, p, t)) = Stock(ls) \cup ElemsOf(t)
<1> DEFINE r == InsertAt(ls, p, t)
<1>0. /\ ls \in Seq(Slab) /\ Len(ls) \in Nat /\ t \in Slab
      /\ \A j \in 1 .. Len(ls) : Good(ls[j], x)
      /\ \A i, j \in 1 .. Len(ls) : i < j => Below(ElemsOf(ls[i]), ElemsOf(ls[j]))
  BY FiledFacts DEF Good
<1>1. /\ r \in Seq(Slab) /\ Len(r) = Len(ls) + 1
      /\ \A j \in 1 .. Len(ls) + 1 :
             r[j] = IF j < p THEN ls[j] ELSE IF j = p THEN t ELSE ls[j - 1]
  BY <1>0, InsertAtProperties
<1> HIDE DEF r
<1>2. ASSUME NEW j \in 1 .. Len(ls) + 1 PROVE Good(r[j], x)
  <2>1. CASE j < p
    <3>1. j \in 1 .. Len(ls) /\ r[j] = ls[j]
      BY <1>0, <1>1, <2>1
    <3> QED
      BY <1>0, <3>1
  <2>2. CASE j = p
    BY <1>1, <2>2
  <2>3. CASE p < j
    <3>1. j - 1 \in 1 .. Len(ls) /\ r[j] = ls[j - 1]
      BY <1>0, <1>1, <2>3
    <3> QED
      BY <1>0, <3>1
  <2> QED
    BY <1>0, <2>1, <2>2, <2>3
<1>3. ASSUME NEW i \in 1 .. Len(ls) + 1, NEW j \in 1 .. Len(ls) + 1, i < j
      PROVE  Below(ElemsOf(r[i]), ElemsOf(r[j]))
  <2>1. CASE j < p
    <3>1. /\ r[j] = ls[j] /\ r[i] = ls[i] /\ i \in 1 .. Len(ls)
          /\ j \in 1 .. Len(ls)
      BY <1>0, <1>1, <1>3, <2>1
    <3> QED
      BY <1>0, <1>3, <3>1
  <2>2. CASE j = p
    <3>1. r[j] = t /\ r[i] = ls[i] /\ i \in 1 .. Len(ls) /\ i < p
      BY <1>0, <1>1, <1>3, <2>2
    <3> QED
      BY <3>1 DEF Between
  <2>3. CASE i < p /\ p < j
    <3>1. r[j] = ls[j - 1] /\ r[i] = ls[i] /\ i \in 1 .. Len(ls) /\ j - 1 \in 1 .. Len(ls)
          /\ i < j - 1
      BY <1>0, <1>1, <1>3, <2>3
    <3> QED
      BY <1>0, <3>1
  <2>4. CASE i = p
    <3>1. r[j] = ls[j - 1] /\ r[i] = t /\ j - 1 \in 1 .. Len(ls) /\ p - 1 < j - 1
      BY <1>0, <1>1, <1>3, <2>4
    <3> QED
      BY <3>1 DEF Between
  <2>5. CASE p < i
    <3>1. /\ r[j] = ls[j - 1] /\ r[i] = ls[i - 1] /\ i - 1 \in 1 .. Len(ls)
          /\ j - 1 \in 1 .. Len(ls) /\ i - 1 < j - 1
      BY <1>0, <1>1, <1>3, <2>5
    <3> QED
      BY <1>0, <3>1
  <2> QED
    BY <1>0, <1>3, <2>1, <2>2, <2>3, <2>4, <2>5
<1>4. Filed(r, x)
  BY <1>1, <1>2, <1>3 DEF Filed
<1>5. ASSUME NEW z PROVE z \in Stock(r) <=> z \in Stock(ls) \cup ElemsOf(t)
  <2>1. z \in Stock(r) <=> \E j \in 1 .. Len(ls) + 1 : z \in ElemsOf(r[j])
    BY <1>1, StockMember
  <2>2. z \in Stock(ls) <=> \E j \in 1 .. Len(ls) : z \in ElemsOf(ls[j])
    BY <1>0, StockMember
  <2>3. ASSUME NEW j \in 1 .. Len(ls) + 1, z \in ElemsOf(r[j])
        PROVE  z \in Stock(ls) \cup ElemsOf(t)
    <3>1. \/ j = p /\ r[j] = t
          \/ j \in 1 .. Len(ls) /\ r[j] = ls[j]
          \/ j - 1 \in 1 .. Len(ls) /\ r[j] = ls[j - 1]
      BY <1>0, <1>1
    <3> QED
      BY <2>2, <2>3, <3>1
  <2>4. ASSUME NEW j \in 1 .. Len(ls), z \in ElemsOf(ls[j])
        PROVE  \E i \in 1 .. Len(ls) + 1 : z \in ElemsOf(r[i])
    <3> DEFINE i == IF j < p THEN j ELSE j + 1
    <3>1. i \in 1 .. Len(ls) + 1 /\ r[i] = ls[j]
      BY <1>0, <1>1
    <3> QED
      BY <2>4, <3>1
  <2>5. z \in ElemsOf(t) => \E i \in 1 .. Len(ls) + 1 : z \in ElemsOf(r[i])
    BY <1>0, <1>1
  <2> QED
    BY <2>1, <2>2, <2>3, <2>4, <2>5
<1> QED
  BY <1>4, <1>5 DEF r

\* An empty slab is unlinked.
LEMMA UnlinkedFiled ==
    ASSUME NEW x, NEW ls, Filed(ls, x), NEW p \in 1 .. Len(ls), ls[p].s_elems = 0
    PROVE  Filed(RemoveAt(ls, p), x) /\ Stock(RemoveAt(ls, p)) = Stock(ls)
<1> DEFINE r == RemoveAt(ls, p)
           old(j) == IF j < p THEN j ELSE j + 1
<1>0. /\ ls \in Seq(Slab) /\ Len(ls) \in Nat
      /\ \A j \in 1 .. Len(ls) : Good(ls[j], x)
      /\ \A i, j \in 1 .. Len(ls) : i < j => Below(ElemsOf(ls[i]), ElemsOf(ls[j]))
  BY FiledFacts
<1>1. /\ r \in Seq(Slab) /\ Len(r) = Len(ls) - 1
      /\ \A j \in 1 .. Len(ls) - 1 : r[j] = IF j < p THEN ls[j] ELSE ls[j + 1]
  BY <1>0, RemoveAtProperties
<1> HIDE DEF r
<1>2. \A j \in 1 .. Len(ls) - 1 : old(j) \in 1 .. Len(ls) /\ r[j] = ls[old(j)]
  BY <1>0, <1>1
<1>3. \A i, j \in 1 .. Len(ls) - 1 : i < j => old(i) < old(j)
  BY <1>0
<1>4. \A j \in 1 .. Len(ls) : j # p => \E i \in 1 .. Len(ls) - 1 : old(i) = j
  <2> SUFFICES ASSUME NEW j \in 1 .. Len(ls), j # p
               PROVE  \E i \in 1 .. Len(ls) - 1 : old(i) = j
    OBVIOUS
  <2>1. CASE j < p
    <3>1. j \in 1 .. Len(ls) - 1 /\ old(j) = j
      BY <1>0, <2>1
    <3> QED
      BY <3>1
  <2>2. CASE p < j
    <3>1. j - 1 \in 1 .. Len(ls) - 1 /\ old(j - 1) = j
      BY <1>0, <2>2
    <3> QED
      BY <3>1
  <2> QED
    BY <1>0, <2>1, <2>2
<1> HIDE DEF old
<1>5. Filed(r, x)
  BY SMTT(60), <1>0, <1>1, <1>2, <1>3 DEF Filed
<1>6. ASSUME NEW z PROVE z \in Stock(r) <=> z \in Stock(ls)
  <2>1. z \in Stock(r) <=> \E j \in 1 .. Len(ls) - 1 : z \in ElemsOf(r[j])
    BY <1>1, StockMember
  <2>2. z \in Stock(ls) <=> \E j \in 1 .. Len(ls) : z \in ElemsOf(ls[j])
    BY <1>0, StockMember
  <2>3. z \notin ElemsOf(ls[p])
    BY Member
  <2> QED
    BY SMTT(60), <1>2, <1>4, <2>1, <2>2, <2>3
<1> QED
  BY <1>5, <1>6 DEF r

-----------------------------------------------------------------------------
(* Where the searches end *)

LEMMA slab_bin_srchFacts ==
    ASSUME NEW s \in Slab, Rising(s), NEW k \in Nat
    PROVE  /\ slab_bin_srch(k, s) \in 0 .. s.s_elems
           /\ \A j \in 0 .. s.s_elems - 1 : j < slab_bin_srch(k, s) => s.s_arr[j].key < k
           /\ \A j \in 0 .. s.s_elems - 1 : slab_bin_srch(k, s) <= j => k <= s.s_arr[j].key
<1> DEFINE n == s.s_elems
           S == {i \in 0 .. n : i = n \/ k <= s.s_arr[i].key}
           m == Min(S)
<1>0. n \in Nat /\ \A j \in 0 .. n - 1 : s.s_arr[j].key \in Nat
  BY SlabFacts
<1>1. S \in SUBSET Nat /\ n \in S
  BY <1>0
<1>2. m \in S /\ \A y \in S : m <= y
  BY <1>1, MinOfNats
<1>3. \A j \in 0 .. n - 1 : j \notin S => s.s_arr[j].key < k
  BY <1>0
<1>4. slab_bin_srch(k, s) = m
  BY DEF slab_bin_srch
<1> HIDE DEF m
<1>5. m \in 0 .. n /\ (m < n => k <= s.s_arr[m].key)
  BY <1>0, <1>2
<1> HIDE DEF S
<1>6. \A j \in 0 .. n - 1 : j < m => s.s_arr[j].key < k
  BY <1>0, <1>2, <1>3, <1>5
<1>7. \A j \in 0 .. n - 1 : m <= j => k <= s.s_arr[j].key
  <2> SUFFICES ASSUME NEW j \in 0 .. n - 1, m <= j PROVE k <= s.s_arr[j].key
    OBVIOUS
  <2>1. m \in 0 .. n - 1 /\ k <= s.s_arr[m].key
    BY <1>0, <1>5
  <2>2. m < j => s.s_arr[m].key < s.s_arr[j].key
    BY <2>1 DEF Rising
  <2> QED
    BY <1>0, <2>1, <2>2
<1> QED
  BY <1>4, <1>5, <1>6, <1>7

\* The slab that find_linear_scan ends at.
LEMMA find_linear_scanFacts ==
    ASSUME NEW x, NEW ls, Filed(ls, x), Len(ls) > 0, NEW k \in Nat
    PROVE  LET a == find_linear_scan(ls, k)
           IN  /\ a \in 1 .. Len(ls)
               /\ \A j \in 1 .. Len(ls) : j < a => ls[j].s_max.key < k
               /\ a = Len(ls) \/ k <= ls[a].s_max.key
<1> DEFINE S == {a \in DOMAIN ls : a = Len(ls) \/ k <= ls[a].s_max.key}
           a == find_linear_scan(ls, k)
<1>1. ls \in Seq(Slab) /\ DOMAIN ls = 1 .. Len(ls) /\ Len(ls) \in Nat
  BY FiledFacts, SlabAt
<1>2. S \in SUBSET Nat /\ Len(ls) \in S
  BY <1>1
<1>3. Min(S) \in S /\ \A y \in S : Min(S) <= y
  BY <1>2, MinOfNats
<1>4. a = Min(S)
  BY DEF find_linear_scan
<1>5. \A j \in 1 .. Len(ls) : ls[j].s_max.key \in Nat
  BY <1>1, SlabAt, SlabFacts
<1>6. \A j \in 1 .. Len(ls) : j \notin S => ls[j].s_max.key < k
  BY <1>1, <1>5
<1>7. a \in S /\ \A y \in S : a <= y
  BY <1>3, <1>4
<1> HIDE DEF a
<1>8. a \in 1 .. Len(ls) /\ (a = Len(ls) \/ k <= ls[a].s_max.key)
  BY <1>1, <1>7
<1> HIDE DEF S
<1>9. ASSUME NEW j \in 1 .. Len(ls), j < a PROVE ls[j].s_max.key < k
  <2>1. j \notin S
    BY <1>1, <1>7, <1>8, <1>9
  <2> QED
    BY <1>6, <2>1
<1> QED
  BY <1>8, <1>9 DEF a

\* The cached extrema of a slab bound its keys.
LEMMA CappedBounds ==
    ASSUME NEW x, NEW s, Good(s, x), s.s_elems > 0
    PROVE  /\ s.s_min.key = s.s_arr[0].key /\ s.s_max.key = s.s_arr[s.s_elems - 1].key
           /\ s.s_arr[0] \in ElemsOf(s) /\ s.s_arr[s.s_elems - 1] \in ElemsOf(s)
           /\ \A y \in ElemsOf(s) : /\ y \in Elem /\ y.key \in Nat
                                    /\ s.s_min.key <= y.key /\ y.key <= s.s_max.key
<1> DEFINE n == s.s_elems
<1>0. /\ s \in Slab /\ n \in Nat /\ n > 0
      /\ \A j \in 0 .. n - 1 : s.s_arr[j] \in Elem /\ s.s_arr[j].key \in Nat
  BY SlabFacts DEF Good
<1>1. s.s_min.key = s.s_arr[0].key /\ s.s_max.key = s.s_arr[n - 1].key
  BY DEF Good, Capped, StandsFor
<1>2. s.s_arr[0] \in ElemsOf(s) /\ s.s_arr[n - 1] \in ElemsOf(s)
  BY <1>0, Member
<1>3. ASSUME NEW y \in ElemsOf(s)
      PROVE  /\ y \in Elem /\ y.key \in Nat
             /\ s.s_min.key <= y.key /\ y.key <= s.s_max.key
  <2>1. PICK j \in 0 .. n - 1 : y = s.s_arr[j]
    BY Member
  <2>2. j > 0 => s.s_arr[0].key < s.s_arr[j].key
    BY <1>0 DEF Good, Rising
  <2>3. j < n - 1 => s.s_arr[j].key < s.s_arr[n - 1].key
    BY <1>0 DEF Good, Rising
  <2> QED
    BY <1>0, <1>1, <2>1, <2>2, <2>3
<1> QED
  BY <1>1, <1>2, <1>3

\* A key above every cached maximum before slab `a' is above the elements there;
\* one below what is in slab `a' is below the elements after it.
LEMMA KeyBetween ==
    ASSUME NEW x, NEW ls, Filed(ls, x), \A j \in 1 .. Len(ls) : ls[j].s_elems > 0,
           NEW e \in Elem, NEW a \in Nat, NEW b \in Nat,
           \A j \in 1 .. Len(ls) : j < a => ls[j].s_max.key < e.key,
           b < Len(ls) => b > 0 /\ \E y \in ElemsOf(ls[b]) : e.key <= y.key
    PROVE  Fits(e, ls, a, b)
<1>0. /\ Len(ls) \in Nat /\ \A j \in 1 .. Len(ls) : Good(ls[j], x) /\ ls[j] \in Slab
      /\ \A i, j \in 1 .. Len(ls) : i < j => Below(ElemsOf(ls[i]), ElemsOf(ls[j]))
      /\ e.key \in Nat
  BY FiledFacts, ElemIsSlot
<1>1. ASSUME NEW j \in 1 .. Len(ls), j < a PROVE Below(ElemsOf(ls[j]), {e})
  <2> SUFFICES ASSUME NEW y \in ElemsOf(ls[j]) PROVE y.key < e.key
    BY DEF Below
  <2>1. y.key \in Nat /\ y.key <= ls[j].s_max.key /\ ls[j].s_max.key \in Nat
    BY <1>0, CappedBounds, SlabFacts
  <2>2. ls[j].s_max.key < e.key
    BY <1>1
  <2> QED
    BY <1>0, <2>1, <2>2
<1>2. ASSUME NEW j \in 1 .. Len(ls), b < j PROVE Below({e}, ElemsOf(ls[j]))
  <2> SUFFICES ASSUME NEW y \in ElemsOf(ls[j]) PROVE e.key < y.key
    BY DEF Below
  <2>1. b \in 1 .. Len(ls) /\ b < Len(ls)
    BY <1>0, <1>2
  <2>2. PICK z \in ElemsOf(ls[b]) : e.key <= z.key
    BY <2>1
  <2>3. z.key < y.key
    BY <1>0, <1>2, <2>1 DEF Below
  <2>4. z.key \in Nat /\ y.key \in Nat
    BY <1>0, <2>1, CappedBounds
  <2> QED
    BY <1>0, <2>2, <2>3, <2>4
<1> QED
  BY <1>1, <1>2 DEF Fits, Between

\* Where a key that is not in the slab belongs.
LEMMA SearchedPosition ==
    ASSUME NEW x, NEW s, Good(s, x), NEW k \in Nat, \A y \in ElemsOf(s) : y.key # k
    PROVE  /\ slab_bin_srch(k, s) \in 0 .. s.s_elems
           /\ BelongsAt(k, s, slab_bin_srch(k, s))
<1> DEFINE i == slab_bin_srch(k, s)
<1>0. /\ s \in Slab /\ Rising(s)
      /\ \A j \in 0 .. s.s_elems - 1 : s.s_arr[j].key \in Nat
  BY SlabFacts DEF Good
<1>1. /\ i \in 0 .. s.s_elems
      /\ \A j \in 0 .. s.s_elems - 1 : j < i => s.s_arr[j].key < k
      /\ \A j \in 0 .. s.s_elems - 1 : i <= j => k <= s.s_arr[j].key
  BY <1>0, slab_bin_srchFacts
<1> HIDE DEF i
<1>2. \A j \in 0 .. s.s_elems - 1 : s.s_arr[j].key # k
  BY Member
<1>3. BelongsAt(k, s, i)
  BY <1>0, <1>1, <1>2 DEF BelongsAt
<1> QED
  BY <1>1, <1>3 DEF i

\* find_linear_scan and slab_bin_srch find a key if it is anywhere in the chain.
LEMMA SearchFinds ==
    ASSUME NEW x, NEW ls, Filed(ls, x), \A j \in 1 .. Len(ls) : ls[j].s_elems > 0,
           NEW k \in Nat, NEW y \in Stock(ls), y.key = k
    PROVE  LET a == find_linear_scan(ls, k)
               i == slab_bin_srch(k, ls[a])
           IN  i \in 0 .. ls[a].s_elems - 1 /\ y = ls[a].s_arr[i]
<1> DEFINE a == find_linear_scan(ls, k)
           s == ls[a]
           i == slab_bin_srch(k, s)
<1>0. /\ ls \in Seq(Slab) /\ Len(ls) \in Nat
      /\ \A j \in 1 .. Len(ls) : Good(ls[j], x) /\ ls[j] \in Slab
      /\ \A h, j \in 1 .. Len(ls) : h < j => Below(ElemsOf(ls[h]), ElemsOf(ls[j]))
  BY FiledFacts
<1>1. PICK b \in 1 .. Len(ls) : y \in ElemsOf(ls[b])
  BY <1>0, StockMember
<1>2. Len(ls) > 0
  BY <1>0, <1>1
<1>3. /\ a \in 1 .. Len(ls)
      /\ \A j \in 1 .. Len(ls) : j < a => ls[j].s_max.key < k
      /\ a = Len(ls) \/ k <= s.s_max.key
  BY <1>2, find_linear_scanFacts
<1> HIDE DEF a
<1>4. ~(b < a)
  <2> SUFFICES ASSUME b < a PROVE FALSE
    OBVIOUS
  <2>1. y.key <= ls[b].s_max.key /\ ls[b].s_max.key < k
    BY <1>0, <1>1, <1>3, CappedBounds
  <2>2. ls[b].s_max.key \in Nat
    BY <1>0, SlabFacts
  <2> QED
    BY <2>1, <2>2
<1>5. ~(a < b)
  <2> SUFFICES ASSUME a < b PROVE FALSE
    OBVIOUS
  <2>1. k <= s.s_max.key
    BY <1>0, <1>3
  <2> DEFINE z == s.s_arr[s.s_elems - 1]
  <2>2. z \in ElemsOf(s) /\ s.s_max.key = z.key /\ z.key \in Nat
    BY <1>0, <1>3, CappedBounds
  <2>3. z.key < y.key
    BY <1>0, <1>1, <1>3, <2>2 DEF Below
  <2> QED
    BY <2>1, <2>2, <2>3
<1>6. y \in ElemsOf(s)
  <2>1. a = b
    BY <1>0, <1>3, <1>4, <1>5
  <2> QED
    BY <1>1, <2>1
<1>7. s \in Slab /\ Rising(s) /\ \A j \in 0 .. s.s_elems - 1 : s.s_arr[j].key \in Nat
  BY <1>0, <1>3, SlabFacts DEF Good
<1> HIDE DEF s
<1>8. /\ i \in 0 .. s.s_elems
      /\ \A j \in 0 .. s.s_elems - 1 : j < i => s.s_arr[j].key < k
      /\ \A j \in 0 .. s.s_elems - 1 : i <= j => k <= s.s_arr[j].key
  BY <1>7, slab_bin_srchFacts
<1>9. PICK p \in 0 .. s.s_elems - 1 : y = s.s_arr[p]
  BY <1>6, Member
<1> HIDE DEF i
<1>10. ~(p < i)
  BY <1>7, <1>8, <1>9
<1>11. ~(i < p)
  <2> SUFFICES ASSUME i < p PROVE FALSE
    OBVIOUS
  <2>0. s.s_elems \in Nat
    BY <1>7, SlabFacts
  <2>1. i \in 0 .. s.s_elems - 1
    BY <1>8, <1>9, <2>0
  <2>3. k <= s.s_arr[i].key
    BY <1>8, <2>0, <2>1
  <2>2. s.s_arr[i].key < s.s_arr[p].key
    BY <1>7, <2>1 DEF Rising
  <2>4. s.s_arr[i].key \in Nat /\ s.s_arr[p].key = k
    BY <1>7, <1>9, <2>1
  <2> QED
    BY <2>2, <2>3, <2>4
<1>12. i = p
  BY <1>8, <1>9, <1>10, <1>11
<1> QED
  BY <1>9, <1>12 DEF a, s, i

\* A hit of the two searches is in the chain.
LEMMA SearchHits ==
    ASSUME NEW x, NEW ls, Filed(ls, x), Len(ls) > 0, NEW k \in Nat,
           LET a == find_linear_scan(ls, k)
               i == slab_bin_srch(k, ls[a])
           IN  i # ls[a].s_elems
    PROVE  LET a == find_linear_scan(ls, k)
               i == slab_bin_srch(k, ls[a])
           IN  /\ i \in 0 .. ls[a].s_elems - 1 /\ ls[a].s_arr[i] \in ElemsOf(ls[a])
               /\ ls[a].s_arr[i] \in Stock(ls)
<1> DEFINE a == find_linear_scan(ls, k)
           s == ls[a]
           i == slab_bin_srch(k, s)
<1>1. a \in 1 .. Len(ls)
  BY find_linear_scanFacts
<1> HIDE DEF a
<1>2. s \in Slab /\ s.s_elems \in Nat
  BY <1>1, FiledFacts, SlabFacts
<1>3. i \in 0 .. s.s_elems - 1
  <2>1. i \in 0 .. s.s_elems
    BY <1>2, slab_bin_srchRange
  <2>2. i # s.s_elems
    BY DEF a
  <2> QED
    BY <1>2, <2>1, <2>2
<1>4. s.s_arr[i] \in ElemsOf(s)
  BY <1>3, Member
<1>5. s.s_arr[i] \in Stock(ls)
  <2>1. ls \in Seq(Slab)
    BY FiledFacts
  <2> QED
    BY <1>1, <1>4, <2>1, StockMember
<1> QED
  BY <1>3, <1>4, <1>5 DEF a

-----------------------------------------------------------------------------
(* Adding *)

LEMMA mk_slabGood ==
    ASSUME NEW x
    PROVE  Good(mk_slab, x) /\ ElemsOf(mk_slab) = {}
<1>1. mk_slab \in Slab /\ mk_slab.s_elems = 0
  BY mk_slabIsSlab
<1>2. Rising(mk_slab) /\ Capped(mk_slab, x)
  BY <1>1 DEF Rising, Capped
<1>3. \A z : z \notin ElemsOf(mk_slab)
  BY <1>1, Member
<1> QED
  BY <1>1, <1>2, <1>3 DEF Good

LEMMA OneElemGood ==
    ASSUME NEW x, NEW e \in Elem
    PROVE  Good(add_elem(mk_slab, e, 0), x) /\ ElemsOf(add_elem(mk_slab, e, 0)) = {e}
<1>1. Good(mk_slab, x) /\ ElemsOf(mk_slab) = {} /\ mk_slab.s_elems = 0
  BY mk_slabGood, mk_slabIsSlab
<1>2. BelongsAt(e.key, mk_slab, 0) /\ 0 \in 0 .. mk_slab.s_elems
  BY <1>1 DEF BelongsAt
<1>3. mk_slab.s_elems < SELEM_MAX
  BY <1>1, SlabSizeAssumption
<1>4. /\ Good(add_elem(mk_slab, e, 0), x)
      /\ ElemsOf(add_elem(mk_slab, e, 0)) = ElemsOf(mk_slab) \cup {e}
  BY <1>1, <1>2, <1>3, add_elemGood
<1> QED
  BY <1>1, <1>4

LEMMA AddIntoFiled ==
    ASSUME NEW x, NEW ls, Filed(ls, x), NEW a \in 1 .. Len(ls), ls[a].s_elems < SELEM_MAX,
           NEW e \in Elem, \A y \in ElemsOf(ls[a]) : y.key # e.key,
           Fits(e, ls, a, a)
    PROVE  Filed(AddInto(ls, a, e), x) /\ Stock(AddInto(ls, a, e)) = Stock(ls) \cup {e}
<1> DEFINE i == slab_bin_srch(e.key, ls[a])
           t == add_elem(ls[a], e, i)
<1>1. Good(ls[a], x) /\ e.key \in Nat
  BY FiledFacts, ElemIsSlot
<1>2. i \in 0 .. ls[a].s_elems /\ BelongsAt(e.key, ls[a], i)
  BY <1>1, SearchedPosition
<1> HIDE DEF i
<1>3. Good(t, x) /\ ElemsOf(t) = ElemsOf(ls[a]) \cup {e}
  BY <1>1, <1>2, add_elemGood
<1> HIDE DEF t
<1>4. Filed(Put(ls, a, t), x) /\ Stock(Put(ls, a, t)) = Stock(ls) \cup {e}
  <2>1. Filed(ls, x) /\ a \in 1 .. Len(ls) /\ Fits(e, ls, a, a)
    OBVIOUS
  <2>2. Filed(Put(ls, a, t), x)
    BY <1>3, <2>1, OneGainsFiled
  <2>3. Stock(Put(ls, a, t)) = Stock(ls) \cup {e}
    BY <1>3, <2>1, OneGainsFiled
  <2> QED
    BY <2>2, <2>3
<1> QED
  BY <1>4 DEF AddInto, Put, t, i

\* Spilling the maximum of a full slab into the next slab.
LEMMA addsnFiled ==
    ASSUME NEW x, NEW ls, Filed(ls, x), NEW a \in 1 .. Len(ls), a + 1 \in 1 .. Len(ls),
           ls[a].s_elems = SELEM_MAX, ls[a + 1].s_elems < SELEM_MAX,
           NEW e \in Elem, NEW q \in 0 .. SELEM_MAX - 1, BelongsAt(e.key, ls[a], q),
           Fits(e, ls, a, a)
    PROVE  Filed(addsn(ls, a, e, q), x) /\ Stock(addsn(ls, a, e, q)) = Stock(ls) \cup {e}
<1> DEFINE b     == a + 1
           s     == ls[a]
           short == DropLast(s)
           at    == IF q > short.s_elems THEN q - 1 ELSE q
           last  == s.s_arr[s.s_elems - 1]
           t     == add_elem(short, e, at)
           u     == add_elem(ls[b], last, 0)
           r     == addsn(ls, a, e, q)
<1>0. /\ ls \in Seq(Slab) /\ Len(ls) \in Nat /\ SELEM_MAX \in Nat /\ SELEM_MAX >= 2
      /\ Good(s, x) /\ s \in Slab /\ s.s_elems = SELEM_MAX
      /\ Good(ls[b], x) /\ ls[b] \in Slab /\ ls[b].s_elems < SELEM_MAX
      /\ ls[b].s_elems \in 0 .. SELEM_MAX
      /\ Below(ElemsOf(s), ElemsOf(ls[b])) /\ e.key \in Nat
      /\ b \in 1 .. Len(ls) /\ a # b
  <2>1. Below(ElemsOf(ls[a]), ElemsOf(ls[a + 1]))
    <3>1. \A i, j \in 1 .. Len(ls) : i < j => Below(ElemsOf(ls[i]), ElemsOf(ls[j]))
      BY Zenon, FiledFacts
    <3>2. a \in 1 .. Len(ls) /\ a + 1 \in 1 .. Len(ls) /\ a < a + 1
      OBVIOUS
    <3> QED
      BY Zenon, <3>1, <3>2
  <2> QED
    BY <2>1, FiledFacts, ElemIsSlot
<1>1. BelongsAt(e.key, s, q) /\ Fits(e, ls, a, a)
  OBVIOUS
<1>2. r = Put2(ls, a, t, b, u)
  BY DEF addsn, Put2
<1>3. \A j \in 0 .. SELEM_MAX - 1 : s.s_arr[j] \in ElemsOf(s) /\ s.s_arr[j].key \in Nat
  BY <1>0, Member, SlabFacts
<1> HIDE DEF s, r
<1>4. /\ Good(short, x) /\ short.s_elems = SELEM_MAX - 1
      /\ ElemsOf(short) = ElemsOf(s) \ {last}
      /\ \A j \in 0 .. SELEM_MAX - 2 : short.s_arr[j] = s.s_arr[j]
  BY <1>0, DropLastGood
<1> HIDE DEF short
<1>5. at = q /\ at \in 0 .. short.s_elems
  BY <1>0, <1>4
<1>6. BelongsAt(e.key, short, at)
  BY SMTT(60), <1>0, <1>1, <1>4, <1>5 DEF BelongsAt
<1>7. last \in ElemsOf(s) /\ last \in Elem /\ last.key \in Nat /\ e.key < last.key
  <2>1. SELEM_MAX - 1 \in 0 .. s.s_elems - 1 /\ q <= SELEM_MAX - 1
    BY <1>0
  <2>2. e.key < s.s_arr[SELEM_MAX - 1].key
    BY <1>1, <2>1 DEF BelongsAt
  <2>3. last \in Elem
    BY <1>0, <2>1, SlabFacts
  <2> QED
    BY <1>0, <1>3, <2>1, <2>2, <2>3
<1>8. Good(t, x) /\ ElemsOf(t) = (ElemsOf(s) \ {last}) \cup {e}
  <2> HIDE DEF at, last
  <2>1. short.s_elems < SELEM_MAX
    BY <1>0, <1>4
  <2>2. /\ Good(add_elem(short, e, at), x)
        /\ ElemsOf(add_elem(short, e, at)) = ElemsOf(short) \cup {e}
    BY <1>4, <1>5, <1>6, <2>1, add_elemGood
  <2> QED
    BY <1>4, <2>2
<1>9. Good(u, x) /\ ElemsOf(u) = ElemsOf(ls[b]) \cup {last}
  <2>1. BelongsAt(last.key, ls[b], 0)
    <3>1. \A j \in 0 .. ls[b].s_elems - 1 : ls[b].s_arr[j] \in ElemsOf(ls[b])
      BY Member
    <3>2. \A j \in 0 .. ls[b].s_elems - 1 : last.key < ls[b].s_arr[j].key
      BY <1>0, <1>7, <3>1 DEF Below
    <3>3. \A j \in 0 .. ls[b].s_elems - 1 : ~(j < 0)
      BY <1>0
    <3> QED
      BY <3>2, <3>3 DEF BelongsAt
  <2>2. 0 \in 0 .. ls[b].s_elems
    BY <1>0
  <2> HIDE DEF last, b
  <2> QED
    BY <1>0, <1>7, <2>1, <2>2, add_elemGood
<1> HIDE DEF t, u, last
<1>10. Below(ElemsOf(t), ElemsOf(u))
  <2> SUFFICES ASSUME NEW y \in ElemsOf(t), NEW z \in ElemsOf(u) PROVE y.key < z.key
    BY DEF Below
  <2>1. y.key < last.key /\ y.key \in Nat
    <3>1. CASE y = e
      BY <1>0, <1>7, <3>1
    <3>2. CASE y # e
      <4>1. y \in ElemsOf(short) /\ y \in ElemsOf(s) /\ y # last
        BY <1>4, <1>8, <3>2
      <4>2. PICK j \in 0 .. SELEM_MAX - 2 : y = s.s_arr[j]
        <5>1. PICK h \in 0 .. short.s_elems - 1 : y = short.s_arr[h]
          BY <4>1, Member
        <5>2. h \in 0 .. SELEM_MAX - 2
          BY <1>0, <1>4
        <5> QED
          BY <1>4, <5>1, <5>2
      <4>3. j \in 0 .. s.s_elems - 1 /\ s.s_elems - 1 \in 0 .. s.s_elems - 1 /\ j < s.s_elems - 1
        BY <1>0
      <4>4. s.s_arr[j].key < s.s_arr[s.s_elems - 1].key
        BY <1>0, <4>3 DEF Good, Rising
      <4> QED
        BY <1>0, <1>3, <4>2, <4>4 DEF last
    <3> QED
      BY <3>1, <3>2
  <2>2. CASE z = last
    BY <2>1, <2>2
  <2>3. CASE z # last
    <3>1. z \in ElemsOf(ls[b])
      BY <1>9, <2>3
    <3>2. last.key < z.key
      BY <1>0, <1>7, <3>1 DEF Below
    <3>3. z.key \in Nat
      <4>1. PICK j \in 0 .. ls[b].s_elems - 1 : z = ls[b].s_arr[j]
        BY <3>1, Member
      <4> QED
        BY <1>0, <4>1, SlabFacts
    <3> QED
      BY <1>7, <2>1, <3>2, <3>3
  <2> QED
    BY <2>2, <2>3
<1>11. ElemsOf(t) \cup ElemsOf(u) = (ElemsOf(s) \cup ElemsOf(ls[b])) \cup {e}
  BY <1>7, <1>8, <1>9
<1>12. t \in Slab /\ u \in Slab
  BY <1>8, <1>9 DEF Good
<1>13. /\ r \in Seq(Slab) /\ Len(r) = Len(ls)
       /\ \A j \in 1 .. Len(ls) : r[j] = IF j = a THEN t ELSE IF j = b THEN u ELSE ls[j]
  <2>1. /\ ls \in Seq(Slab) /\ a \in 1 .. Len(ls) /\ b \in 1 .. Len(ls) /\ a # b
        /\ t \in Slab /\ u \in Slab
    BY <1>0, <1>12
  <2> HIDE DEF b, at
  <2>2. Put2(ls, a, t, b, u) \in Seq(Slab)
    BY <2>1, Put2Properties
  <2>3. Len(Put2(ls, a, t, b, u)) = Len(ls)
    BY <2>1, Put2Properties
  <2>4. ASSUME NEW j \in 1 .. Len(ls)
        PROVE  Put2(ls, a, t, b, u)[j] = IF j = a THEN t ELSE IF j = b THEN u ELSE ls[j]
    BY SMTT(60), <2>1, Put2Properties
  <2> QED
    BY <1>2, <2>2, <2>3, <2>4
<1>14. r[a] = t /\ r[b] = u /\ \A j \in 1 .. Len(ls) : j # a /\ j # b => r[j] = ls[j]
  BY <1>0, <1>13
<1>15. Fits(e, ls, a, b)
  <2>1. \A j \in 1 .. Len(ls) : b < j => a < j
    BY <1>0
  <2> QED
    BY <1>1, <2>1 DEF Fits, Between
<1>16. Filed(r, x) /\ Stock(r) = Stock(ls) \cup {e}
  <2>1. /\ Filed(ls, x) /\ a \in 1 .. Len(ls) /\ a + 1 \in 1 .. Len(ls)
        /\ Fits(e, ls, a, a + 1) /\ r \in Seq(Slab) /\ Len(r) = Len(ls)
        /\ \A j \in 1 .. Len(ls) : j # a /\ j # a + 1 => r[j] = ls[j]
        /\ r[a] = t /\ r[a + 1] = u
    BY <1>13, <1>14, <1>15
  <2>2. /\ Good(r[a], x) /\ Good(r[a + 1], x)
        /\ Below(ElemsOf(r[a]), ElemsOf(r[a + 1]))
        /\ ElemsOf(r[a]) \cup ElemsOf(r[a + 1]) =
               (ElemsOf(ls[a]) \cup ElemsOf(ls[a + 1])) \cup {e}
    BY <1>8, <1>9, <1>10, <1>11, <2>1 DEF s
  <2> QED
    BY <2>1, <2>2, TwoChangedFiled DEF Fits
<1> QED
  BY <1>16 DEF r

\* Spilling the minimum of a full slab into the previous slab.
LEMMA addspFiled ==
    ASSUME NEW x, NEW ls, Filed(ls, x), NEW a \in 1 .. Len(ls), a - 1 \in 1 .. Len(ls),
           ls[a].s_elems = SELEM_MAX, ls[a - 1].s_elems < SELEM_MAX,
           NEW e \in Elem, NEW q \in 1 .. SELEM_MAX, BelongsAt(e.key, ls[a], q),
           Fits(e, ls, a, a)
    PROVE  Filed(addsp(ls, a, e, q), x) /\ Stock(addsp(ls, a, e, q)) = Stock(ls) \cup {e}
<1> DEFINE b     == a - 1
           s     == ls[a]
           short == DropFirst(s)
           at    == IF q > 0 THEN q - 1 ELSE q
           first == s.s_arr[0]
           t     == add_elem(short, e, at)
           u     == add_elem(ls[b], first, ls[b].s_elems)
           r     == addsp(ls, a, e, q)
<1>0. /\ ls \in Seq(Slab) /\ Len(ls) \in Nat /\ SELEM_MAX \in Nat /\ SELEM_MAX >= 2
      /\ Good(s, x) /\ s \in Slab /\ s.s_elems = SELEM_MAX
      /\ Good(ls[b], x) /\ ls[b] \in Slab /\ ls[b].s_elems < SELEM_MAX
      /\ ls[b].s_elems \in 0 .. SELEM_MAX
      /\ Below(ElemsOf(ls[b]), ElemsOf(s)) /\ e.key \in Nat
      /\ b \in 1 .. Len(ls) /\ a # b /\ b + 1 = a
  <2>1. Below(ElemsOf(ls[a - 1]), ElemsOf(ls[a]))
    <3>1. \A i, j \in 1 .. Len(ls) : i < j => Below(ElemsOf(ls[i]), ElemsOf(ls[j]))
      BY Zenon, FiledFacts
    <3>2. a - 1 \in 1 .. Len(ls) /\ a \in 1 .. Len(ls) /\ a - 1 < a
      OBVIOUS
    <3> QED
      BY Zenon, <3>1, <3>2
  <2> QED
    BY <2>1, FiledFacts, ElemIsSlot
<1>1. BelongsAt(e.key, s, q) /\ Fits(e, ls, a, a)
  OBVIOUS
<1>2. r = Put2(ls, a, t, b, u)
  BY DEF addsp, Put2
<1>3. \A j \in 0 .. SELEM_MAX - 1 : s.s_arr[j] \in ElemsOf(s) /\ s.s_arr[j].key \in Nat
  BY <1>0, Member, SlabFacts
<1> HIDE DEF s, r
<1>4. /\ Good(short, x) /\ short.s_elems = SELEM_MAX - 1
      /\ ElemsOf(short) = ElemsOf(s) \ {first}
      /\ \A j \in 0 .. SELEM_MAX - 2 : short.s_arr[j] = s.s_arr[j + 1]
  BY <1>0, DropFirstGood
<1> HIDE DEF short
<1>5. at = q - 1 /\ at \in 0 .. short.s_elems
  BY <1>0, <1>4
<1>6. BelongsAt(e.key, short, at)
  <2>1. \A j \in 0 .. short.s_elems - 1 :
            j \in 0 .. SELEM_MAX - 2 /\ j + 1 \in 0 .. s.s_elems - 1
    BY <1>0, <1>4
  <2> QED
    <3>1. ASSUME NEW j \in 0 .. short.s_elems - 1, j < at
          PROVE  short.s_arr[j].key < e.key
      <4>1. j + 1 < q
        BY <1>0, <1>5, <2>1, <3>1
      <4> QED
        BY <1>1, <1>4, <2>1, <4>1 DEF BelongsAt
    <3>2. ASSUME NEW j \in 0 .. short.s_elems - 1, at <= j
          PROVE  e.key < short.s_arr[j].key
      <4>1. q <= j + 1
        BY <1>0, <1>5, <2>1, <3>2
      <4> QED
        BY <1>1, <1>4, <2>1, <4>1 DEF BelongsAt
    <3> QED
      BY <3>1, <3>2 DEF BelongsAt
<1>7. first \in ElemsOf(s) /\ first \in Elem /\ first.key \in Nat /\ first.key < e.key
  <2>1. 0 \in 0 .. s.s_elems - 1 /\ 0 < q
    BY <1>0
  <2>2. s.s_arr[0].key < e.key
    BY <1>1, <2>1 DEF BelongsAt
  <2>3. first \in Elem
    BY <1>0, <2>1, SlabFacts
  <2> QED
    BY <1>0, <1>3, <2>1, <2>2, <2>3
<1>8. Good(t, x) /\ ElemsOf(t) = (ElemsOf(s) \ {first}) \cup {e}
  <2> HIDE DEF at, first
  <2>1. short.s_elems < SELEM_MAX
    BY <1>0, <1>4
  <2>2. /\ Good(add_elem(short, e, at), x)
        /\ ElemsOf(add_elem(short, e, at)) = ElemsOf(short) \cup {e}
    BY <1>4, <1>5, <1>6, <2>1, add_elemGood
  <2> QED
    BY <1>4, <2>2
<1>9. Good(u, x) /\ ElemsOf(u) = ElemsOf(ls[b]) \cup {first}
  <2>1. BelongsAt(first.key, ls[b], ls[b].s_elems)
    <3>1. \A j \in 0 .. ls[b].s_elems - 1 : ls[b].s_arr[j] \in ElemsOf(ls[b])
      BY Member
    <3>2. \A j \in 0 .. ls[b].s_elems - 1 : ls[b].s_arr[j].key < first.key
      BY <1>0, <1>7, <3>1 DEF Below
    <3>3. \A j \in 0 .. ls[b].s_elems - 1 : ~(ls[b].s_elems <= j)
      BY <1>0
    <3> QED
      BY <3>2, <3>3 DEF BelongsAt
  <2>2. ls[b].s_elems \in 0 .. ls[b].s_elems
    BY <1>0
  <2> HIDE DEF first, b
  <2> QED
    BY <1>0, <1>7, <2>1, <2>2, add_elemGood
<1> HIDE DEF t, u, first
<1>10. Below(ElemsOf(u), ElemsOf(t))
  <2> SUFFICES ASSUME NEW y \in ElemsOf(t), NEW z \in ElemsOf(u) PROVE z.key < y.key
    BY DEF Below
  <2>1. first.key < y.key /\ y.key \in Nat
    <3>1. CASE y = e
      BY <1>0, <1>7, <3>1
    <3>2. CASE y # e
      <4>1. y \in ElemsOf(short) /\ y \in ElemsOf(s) /\ y # first
        BY <1>4, <1>8, <3>2
      <4>2. PICK j \in 1 .. SELEM_MAX - 1 : y = s.s_arr[j]
        <5>1. PICK h \in 0 .. short.s_elems - 1 : y = short.s_arr[h]
          BY <4>1, Member
        <5>2. h \in 0 .. SELEM_MAX - 2 /\ h + 1 \in 1 .. SELEM_MAX - 1
          BY <1>0, <1>4
        <5> QED
          BY <1>4, <5>1, <5>2
      <4>3. j \in 0 .. s.s_elems - 1 /\ 0 \in 0 .. s.s_elems - 1 /\ 0 < j
        BY <1>0
      <4>4. s.s_arr[0].key < s.s_arr[j].key
        BY <1>0, <4>3 DEF Good, Rising
      <4> QED
        BY <1>0, <1>3, <4>2, <4>4 DEF first
    <3> QED
      BY <3>1, <3>2
  <2>2. CASE z = first
    BY <2>1, <2>2
  <2>3. CASE z # first
    <3>1. z \in ElemsOf(ls[b])
      BY <1>9, <2>3
    <3>2. z.key < first.key
      BY <1>0, <1>7, <3>1 DEF Below
    <3>3. z.key \in Nat
      <4>1. PICK j \in 0 .. ls[b].s_elems - 1 : z = ls[b].s_arr[j]
        BY <3>1, Member
      <4> QED
        BY <1>0, <4>1, SlabFacts
    <3> QED
      BY <1>7, <2>1, <3>2, <3>3
  <2> QED
    BY <2>2, <2>3
<1>11. ElemsOf(u) \cup ElemsOf(t) = (ElemsOf(ls[b]) \cup ElemsOf(s)) \cup {e}
  BY <1>7, <1>8, <1>9
<1>12. t \in Slab /\ u \in Slab
  BY <1>8, <1>9 DEF Good
<1>13. /\ r \in Seq(Slab) /\ Len(r) = Len(ls)
       /\ \A j \in 1 .. Len(ls) : r[j] = IF j = a THEN t ELSE IF j = b THEN u ELSE ls[j]
  <2>1. /\ ls \in Seq(Slab) /\ a \in 1 .. Len(ls) /\ b \in 1 .. Len(ls) /\ a # b
        /\ t \in Slab /\ u \in Slab
    BY <1>0, <1>12
  <2> HIDE DEF b, at
  <2>2. Put2(ls, a, t, b, u) \in Seq(Slab)
    BY <2>1, Put2Properties
  <2>3. Len(Put2(ls, a, t, b, u)) = Len(ls)
    BY <2>1, Put2Properties
  <2>4. ASSUME NEW j \in 1 .. Len(ls)
        PROVE  Put2(ls, a, t, b, u)[j] = IF j = a THEN t ELSE IF j = b THEN u ELSE ls[j]
    <3>1. j \in DOMAIN ls /\ DOMAIN ls = 1 .. Len(ls)
      BY <2>1, LenProperties
    <3> QED
      BY <2>1, <3>1 DEF Put2
  <2> QED
    BY <1>2, <2>2, <2>3, <2>4
<1>14. r[a] = t /\ r[b] = u /\ \A j \in 1 .. Len(ls) : j # a /\ j # b => r[j] = ls[j]
  BY <1>0, <1>13
<1>15. Fits(e, ls, b, a)
  <2>1. \A j \in 1 .. Len(ls) : j < b => j < a
    BY <1>0
  <2> QED
    BY <1>1, <2>1 DEF Fits, Between
<1>16. Filed(r, x) /\ Stock(r) = Stock(ls) \cup {e}
  <2>1. /\ Filed(ls, x) /\ b \in 1 .. Len(ls) /\ b + 1 \in 1 .. Len(ls)
        /\ Fits(e, ls, b, b + 1) /\ r \in Seq(Slab) /\ Len(r) = Len(ls)
        /\ \A j \in 1 .. Len(ls) : j # b /\ j # b + 1 => r[j] = ls[j]
        /\ r[b] = u /\ r[b + 1] = t /\ ls[b + 1] = s
    BY <1>0, <1>13, <1>14, <1>15 DEF s
  <2> HIDE DEF b, at
  <2>2. /\ Good(r[b], x) /\ Good(r[b + 1], x)
        /\ Below(ElemsOf(r[b]), ElemsOf(r[b + 1]))
        /\ ElemsOf(r[b]) \cup ElemsOf(r[b + 1]) =
               (ElemsOf(ls[b]) \cup ElemsOf(ls[b + 1])) \cup {e}
    BY <1>8, <1>9, <1>10, <1>11, <2>1
  <2> QED
    BY <2>1, <2>2, TwoChangedFiled DEF Fits
<1> QED
  BY <1>16 DEF r

\* What an addition does to a chain: it gains `e'.
Gains(r, ls, e, x) == Filed(r, x) /\ Stock(r) = Stock(ls) \cup {e}

LEMMA FitsWider ==
    ASSUME NEW ls \in Seq(Slab), NEW e, NEW a \in Nat, NEW b \in Nat, Fits(e, ls, a, b),
           NEW a2 \in Nat, NEW b2 \in Nat, a2 <= a, b <= b2
    PROVE  Fits(e, ls, a2, b2)
<1>0. Len(ls) \in Nat
  BY LenProperties
<1>1. /\ \A j \in 1 .. Len(ls) : j < a2 => j < a
      /\ \A j \in 1 .. Len(ls) : b2 < j => b < j
  BY <1>0
<1> QED
  BY <1>1 DEF Fits, Between

\* An element that stands between slabs is in neither.
LEMMA FitsNew ==
    ASSUME NEW x, NEW ls, Filed(ls, x), NEW e \in Elem, NEW a \in Nat, NEW b \in Nat,
           Fits(e, ls, a, b), NEW c \in 1 .. Len(ls), c < a \/ b < c
    PROVE  \A y \in ElemsOf(ls[c]) : y.key # e.key
<1>0. e.key \in Nat
  BY ElemIsSlot
<1>1. ASSUME NEW y \in ElemsOf(ls[c]) PROVE y.key # e.key
  <2>1. y.key < e.key \/ e.key < y.key
    BY DEF Fits, Between, Below
  <2>2. y.key \in Nat
    <3>1. ls[c] \in Slab
      BY FiledFacts
    <3>2. PICK j \in 0 .. ls[c].s_elems - 1 : y = ls[c].s_arr[j]
      BY Member
    <3> QED
      BY <3>1, <3>2, SlabFacts
  <2> QED
    BY <1>0, <2>1, <2>2
<1> QED
  BY <1>1

LEMMA NewSlabGains ==
    ASSUME NEW x, NEW ls, Filed(ls, x), NEW e \in Elem, NEW p \in 1 .. Len(ls) + 1,
           Fits(e, ls, p, p - 1)
    PROVE  Gains(InsertAt(ls, p, add_elem(mk_slab, e, 0)), ls, e, x)
<1> DEFINE t == add_elem(mk_slab, e, 0)
<1>0. Good(t, x)
  BY OneElemGood
<1>1. ElemsOf(t) = {e}
  BY OneElemGood
<1> HIDE DEF t
<1>2. Between(ElemsOf(t), ls, p, p - 1)
  BY <1>1 DEF Fits
<1>3. Filed(InsertAt(ls, p, t), x)
  BY <1>0, <1>2, LinkedFiled
<1>4. Stock(InsertAt(ls, p, t)) = Stock(ls) \cup ElemsOf(t)
  BY <1>0, <1>2, LinkedFiled
<1> QED
  BY <1>1, <1>3, <1>4 DEF Gains, t

\* Spilling into a slab made for it.
LEMMA SpillNewGains ==
    ASSUME NEW x, NEW ls, Filed(ls, x), NEW a \in 1 .. Len(ls),
           ls[a].s_elems = SELEM_MAX,
           NEW e \in Elem, NEW q \in 0 .. SELEM_MAX - 1, BelongsAt(e.key, ls[a], q),
           Fits(e, ls, a, a)
    PROVE  Gains(addsn(InsertAt(ls, a + 1, mk_slab), a, e, q), ls, e, x)
<1> DEFINE m == InsertAt(ls, a + 1, mk_slab)
<1>0. /\ ls \in Seq(Slab) /\ Len(ls) \in Nat /\ SELEM_MAX >= 2 /\ SELEM_MAX \in Nat
      /\ mk_slab \in Slab /\ mk_slab.s_elems = 0
      /\ Good(mk_slab, x) /\ ElemsOf(mk_slab) = {} /\ a + 1 \in 1 .. Len(ls) + 1
  BY FiledFacts, mk_slabIsSlab, mk_slabGood
<1>1. Between(ElemsOf(mk_slab), ls, a + 1, a)
  BY <1>0 DEF Between, Below
<1>2. Filed(m, x) /\ Stock(m) = Stock(ls)
  <2>1. (a + 1) - 1 = a
    BY <1>0
  <2> DEFINE t == mk_slab
             p == a + 1
  <2>2. p \in 1 .. Len(ls) + 1 /\ Good(t, x) /\ Between(ElemsOf(t), ls, p, p - 1)
    BY <1>0, <1>1, <2>1
  <2> HIDE DEF t, p
  <2>3. Filed(InsertAt(ls, p, t), x)
    BY <2>2, LinkedFiled
  <2>4. Stock(InsertAt(ls, p, t)) = Stock(ls) \cup ElemsOf(t)
    BY <2>2, LinkedFiled
  <2> QED
    BY <1>0, <2>3, <2>4 DEF t, p
<1>3. /\ m \in Seq(Slab) /\ Len(m) = Len(ls) + 1
      /\ \A j \in 1 .. Len(ls) + 1 :
             m[j] = IF j < a + 1 THEN ls[j] ELSE IF j = a + 1 THEN mk_slab ELSE ls[j - 1]
  BY SMTT(60), <1>0, InsertAtProperties
<1> HIDE DEF m
<1>4. m[a] = ls[a] /\ m[a + 1] = mk_slab /\ a \in 1 .. Len(m) /\ a + 1 \in 1 .. Len(m)
  BY <1>0, <1>3
<1>5. Fits(e, m, a, a)
  <2>1. ASSUME NEW j \in 1 .. Len(m), j < a PROVE Below(ElemsOf(m[j]), {e})
    <3>1. j \in 1 .. Len(ls) /\ m[j] = ls[j]
      BY <1>0, <1>3, <2>1
    <3> QED
      BY <2>1, <3>1 DEF Fits, Between
  <2>2. ASSUME NEW j \in 1 .. Len(m), a < j PROVE Below({e}, ElemsOf(m[j]))
    <3>1. CASE j = a + 1
      BY <1>0, <1>4, <3>1 DEF Below
    <3>2. CASE j # a + 1
      <4>1. j - 1 \in 1 .. Len(ls) /\ m[j] = ls[j - 1] /\ a < j - 1
        BY <1>0, <1>3, <2>2, <3>2
      <4> QED
        BY <4>1 DEF Fits, Between
    <3> QED
      BY <3>1, <3>2
  <2> QED
    BY <2>1, <2>2 DEF Fits, Between
<1>6. m[a + 1].s_elems < SELEM_MAX /\ m[a].s_elems = SELEM_MAX /\ BelongsAt(e.key, m[a], q)
  BY <1>0, <1>4
<1>7. Filed(addsn(m, a, e, q), x) /\ Stock(addsn(m, a, e, q)) = Stock(m) \cup {e}
  BY <1>2, <1>4, <1>5, <1>6, addsnFiled
<1> QED
  BY <1>2, <1>7 DEF Gains, m

\* What an addition that may replace an element does: it gains nothing but `e'.
AtMost(r, ls, e, x) == Filed(r, x) /\ Stock(r) \subseteq Stock(ls) \cup {e}

LEMMA GainsAtMost ==
    ASSUME NEW r, NEW ls, NEW e, NEW x, Gains(r, ls, e, x)
    PROVE  AtMost(r, ls, e, x)
BY DEF Gains, AtMost

LEMMA OneAtMost ==
    ASSUME NEW x, NEW ls, Filed(ls, x), NEW a \in 1 .. Len(ls), NEW e,
           NEW t, Good(t, x), ElemsOf(t) \subseteq ElemsOf(ls[a]) \cup {e},
           Fits(e, ls, a, a)
    PROVE  AtMost(Put(ls, a, t), ls, e, x)
<1>0. ls \in Seq(Slab)
  BY FiledFacts
<1>1. Between({e}, ls, a, a)
  BY DEF Fits
<1>2. /\ Filed(Put(ls, a, t), x)
      /\ \A z : z \in Stock(Put(ls, a, t)) <=>
             z \in ElemsOf(t) \/ \E j \in 1 .. Len(ls) : j # a /\ z \in ElemsOf(ls[j])
  BY <1>1, OneChangedFiled
<1>3. \A z : z \in Stock(ls) <=> \E j \in 1 .. Len(ls) : z \in ElemsOf(ls[j])
  BY <1>0, StockMember
<1>4. \A z : z \in Stock(Put(ls, a, t)) => z \in Stock(ls) \cup {e}
  BY <1>2, <1>3
<1> QED
  BY <1>2, <1>4 DEF AtMost

\* An element replaced by one with its key.
LEMMA ReplaceFiled ==
    ASSUME NEW x, ~x, NEW ls, Filed(ls, x), NEW a \in 1 .. Len(ls), NEW e \in Elem,
           NEW i \in 0 .. ls[a].s_elems - 1, ls[a].s_arr[i].key = e.key
    PROVE  AtMost(Replaced(ls, a, i, e), ls, e, x)
<1> DEFINE s == ls[a]
           n == s.s_elems
           arr == [s.s_arr EXCEPT ![i] = e]
           t == [s EXCEPT !.s_arr = arr]
<1>0. /\ s \in Slab /\ Rising(s) /\ Capped(s, x) /\ n \in 0 .. SELEM_MAX
      /\ SELEM_MAX \in Nat /\ ls \in Seq(Slab) /\ Len(ls) \in Nat
      /\ \A h, j \in 1 .. Len(ls) : h < j => Below(ElemsOf(ls[h]), ElemsOf(ls[j]))
      /\ i \in 0 .. n - 1 /\ s.s_arr[i].key = e.key
  BY FiledFacts DEF Good
<1>1. s.s_arr \in [Index -> Slot] /\ \A j \in 0 .. n - 1 : j \in Index /\ s.s_arr[j] \in Elem
  BY <1>0, SlabParts DEF Index
<1>2. Replaced(ls, a, i, e) = Put(ls, a, t)
  BY DEF Put, Replaced
<1>3. Fits(e, ls, a, a)
  <2>1. s.s_arr[i] \in ElemsOf(s)
    BY <1>0, Member
  <2>2. ASSUME NEW j \in 1 .. Len(ls), j < a PROVE Below(ElemsOf(ls[j]), {e})
    BY <1>0, <2>1, <2>2 DEF Below
  <2>3. ASSUME NEW j \in 1 .. Len(ls), a < j PROVE Below({e}, ElemsOf(ls[j]))
    BY <1>0, <2>1, <2>3 DEF Below
  <2> QED
    BY <2>2, <2>3 DEF Fits, Between
<1> HIDE DEF s
<1>4. arr \in [Index -> Slot]
  BY <1>1, ElemIsSlot
<1>5. \A j \in 0 .. n - 1 : arr[j] = IF j = i THEN e ELSE s.s_arr[j]
  BY <1>1
<1> HIDE DEF arr
<1>6. \A j \in 0 .. n - 1 : arr[j] \in Elem /\ arr[j].key = s.s_arr[j].key
  BY <1>0, <1>1, <1>5
<1>7. /\ t \in Slab /\ t.s_elems = n /\ t.s_arr = arr
      /\ t.s_min = s.s_min /\ t.s_max = s.s_max
  <2>1. /\ t \in [s_min : Slot, s_max : Slot, s_elems : 0 .. SELEM_MAX,
                  s_arr : [Index -> Slot]]
        /\ t.s_arr = arr /\ t.s_elems = n /\ t.s_min = s.s_min /\ t.s_max = s.s_max
    BY <1>0, <1>4 DEF Slab
  <2> QED
    BY <1>6, <2>1, RawSlab
<1> HIDE DEF t
<1>8. Rising(t)
  BY <1>0, <1>6, <1>7 DEF Rising
<1>9. Capped(t, x)
  <2> SUFFICES ASSUME n > 0
               PROVE  t.s_min.key = t.s_arr[0].key /\ t.s_max.key = t.s_arr[n - 1].key
    BY <1>7 DEF Capped, StandsFor
  <2>1. 0 \in 0 .. n - 1 /\ n - 1 \in 0 .. n - 1
    BY <1>0
  <2>2. s.s_min.key = s.s_arr[0].key /\ s.s_max.key = s.s_arr[n - 1].key
    BY <1>0 DEF Capped, StandsFor
  <2> QED
    BY <1>6, <1>7, <2>1, <2>2
<1>10. ElemsOf(t) \subseteq ElemsOf(s) \cup {e}
  <2> SUFFICES ASSUME NEW z \in ElemsOf(t) PROVE z \in ElemsOf(s) \cup {e}
    OBVIOUS
  <2>1. PICK j \in 0 .. n - 1 : z = arr[j]
    BY <1>7, Member
  <2> QED
    BY <1>5, <2>1, Member
<1>11. AtMost(Put(ls, a, t), ls, e, x)
  BY <1>3, <1>7, <1>8, <1>9, <1>10, OneAtMost DEF Good, s
<1> QED
  BY <1>2, <1>11

\* An addition inside a full slab, done because the caller asked to replace:
\* the last element is shifted out.
LEMMA AddFullFiled ==
    ASSUME NEW x, ~x, NEW ls, Filed(ls, x), NEW a \in 1 .. Len(ls), NEW e \in Elem,
           ls[a].s_elems = SELEM_MAX, \A y \in ElemsOf(ls[a]) : y.key # e.key,
           slab_bin_srch(e.key, ls[a]) < SELEM_MAX, Fits(e, ls, a, a)
    PROVE  AtMost(AddInto(ls, a, e), ls, e, x)
<1> DEFINE s == ls[a]
           i == slab_bin_srch(e.key, s)
           t == add_elem(s, e, i)
<1>0. /\ s \in Slab /\ Good(s, x) /\ Rising(s)
      /\ SELEM_MAX \in Nat /\ SELEM_MAX >= 2 /\ e.key \in Nat
      /\ s.s_elems = SELEM_MAX /\ \A y \in ElemsOf(s) : y.key # e.key
  BY FiledFacts, ElemIsSlot DEF Good
<1>1. i \in 0 .. SELEM_MAX - 1 /\ BelongsAt(e.key, s, i)
  <2>1. i \in 0 .. s.s_elems /\ BelongsAt(e.key, s, i)
    BY <1>0, SearchedPosition
  <2>2. i < SELEM_MAX
    OBVIOUS
  <2> HIDE DEF i, s
  <2> QED
    BY <1>0, <2>1, <2>2
<1>2. AddInto(ls, a, e) = Put(ls, a, t)
  BY DEF AddInto, Put
<1> HIDE DEF i, s
<1>3. t \in Slab /\ t.s_elems = SELEM_MAX
  <2>1. i \in 0 .. s.s_elems
    BY <1>0, <1>1
  <2> QED
    BY <1>0, <2>1, add_elemIsSlab
<1>4. \A j \in 0 .. SELEM_MAX - 1 :
          t.s_arr[j] = IF j < i THEN s.s_arr[j] ELSE IF j = i THEN e ELSE s.s_arr[j - 1]
  <2> SUFFICES ASSUME NEW j \in 0 .. SELEM_MAX - 1
               PROVE  t.s_arr[j] = IF j < i THEN s.s_arr[j]
                                   ELSE IF j = i THEN e ELSE s.s_arr[j - 1]
    OBVIOUS
  <2>1. j \in Index
    BY <1>0 DEF Index
  <2>2. t.s_arr[j] = IF j = i THEN e
                     ELSE IF i < j /\ j <= s.s_elems THEN s.s_arr[j - 1] ELSE s.s_arr[j]
    BY <2>1 DEF add_elem
  <2> QED
    BY <1>0, <1>1, <2>2
<1>5. t.s_min = t.s_arr[0] /\ t.s_max = t.s_arr[SELEM_MAX - 1]
  BY <1>0 DEF add_elem
<1> HIDE DEF t
<1>6. \A j \in 0 .. SELEM_MAX - 1 : s.s_arr[j].key \in Nat /\ s.s_arr[j] \in ElemsOf(s)
  BY <1>0, SlabFacts, Member
<1>7. Rising(t)
  <2> SUFFICES ASSUME NEW h \in 0 .. SELEM_MAX - 1, NEW j \in 0 .. SELEM_MAX - 1, h < j
               PROVE  t.s_arr[h].key < t.s_arr[j].key
    BY <1>0, <1>3 DEF Rising
  <2>1. CASE j < i
    BY <1>0, <1>1, <1>4, <2>1 DEF Rising
  <2>2. CASE j = i
    BY <1>0, <1>1, <1>4, <2>2 DEF BelongsAt
  <2>3. CASE i < j /\ h < i
    BY <1>0, <1>1, <1>4, <2>3 DEF Rising
  <2>4. CASE i < j /\ h = i
    BY <1>0, <1>1, <1>4, <2>4 DEF BelongsAt
  <2>5. CASE i < h
    <3>1. /\ h - 1 \in 0 .. s.s_elems - 1 /\ j - 1 \in 0 .. s.s_elems - 1 /\ h - 1 < j - 1
          /\ ~(h < i) /\ h # i /\ ~(j < i) /\ j # i
      BY <1>0, <1>1, <2>5
    <3>2. t.s_arr[h] = s.s_arr[h - 1] /\ t.s_arr[j] = s.s_arr[j - 1]
      BY <1>4, <3>1
    <3> QED
      BY <1>0, <3>1, <3>2 DEF Rising
  <2> QED
    BY <1>0, <1>1, <2>1, <2>2, <2>3, <2>4, <2>5
<1>8. Capped(t, x)
  BY <1>3, <1>5 DEF Capped, StandsFor
<1>9. ElemsOf(t) \subseteq ElemsOf(s) \cup {e}
  <2> SUFFICES ASSUME NEW z \in ElemsOf(t) PROVE z \in ElemsOf(s) \cup {e}
    OBVIOUS
  <2>1. PICK j \in 0 .. SELEM_MAX - 1 : z = t.s_arr[j]
    BY <1>3, Member
  <2>2. z = e \/ \E h \in 0 .. SELEM_MAX - 1 : z = s.s_arr[h]
    <3>1. CASE j < i
      BY <1>0, <1>1, <1>4, <2>1, <3>1
    <3>2. CASE j = i
      BY <1>0, <1>1, <1>4, <2>1, <3>2
    <3>3. CASE i < j
      <4>1. j - 1 \in 0 .. SELEM_MAX - 1 /\ ~(j < i) /\ j # i
        BY <1>0, <1>1, <3>3
      <4>2. z = s.s_arr[j - 1]
        BY <1>4, <2>1, <4>1
      <4> QED
        BY <4>1, <4>2
    <3> QED
      BY <1>0, <1>1, <3>1, <3>2, <3>3
  <2> QED
    BY <1>6, <2>2
<1>10. AtMost(Put(ls, a, t), ls, e, x)
  BY <1>3, <1>7, <1>8, <1>9, OneAtMost DEF Good, s
<1> QED
  BY <1>2, <1>10

\* Where the search for a key inside the extrema of a slab ends.
LEMMA InsideFacts ==
    ASSUME NEW x, NEW s, Good(s, x), s.s_elems > 0, NEW k \in Nat,
           sl_bnd_elem(k, s) = "IN"
    PROVE  LET i == slab_bin_srch(k, s)
           IN  /\ i \in 0 .. s.s_elems - 1
               /\ k <= s.s_arr[s.s_elems - 1].key
               /\ s.s_arr[i].key # k =>
                      /\ i >= 1 /\ BelongsAt(k, s, i)
                      /\ \A y \in ElemsOf(s) : y.key # k
<1> DEFINE i == slab_bin_srch(k, s)
           n == s.s_elems
<1>0. /\ s \in Slab /\ Rising(s) /\ n \in Nat /\ n > 0
      /\ \A j \in 0 .. n - 1 : s.s_arr[j].key \in Nat
      /\ s.s_min.key \in Nat /\ s.s_max.key \in Nat
      /\ s.s_min.key = s.s_arr[0].key /\ s.s_max.key = s.s_arr[n - 1].key
  BY SlabFacts, CappedBounds DEF Good
<1>1. s.s_min.key <= k /\ k <= s.s_max.key
  BY <1>0 DEF sl_bnd_elem
<1>2. /\ i \in 0 .. n
      /\ \A j \in 0 .. n - 1 : j < i => s.s_arr[j].key < k
      /\ \A j \in 0 .. n - 1 : i <= j => k <= s.s_arr[j].key
  BY <1>0, slab_bin_srchFacts
<1> HIDE DEF i
<1>3. i \in 0 .. n - 1
  <2>1. i # n
    BY <1>0, <1>1, <1>2
  <2> QED
    BY <1>0, <1>2, <2>1
<1>4. ASSUME s.s_arr[i].key # k
      PROVE  i >= 1 /\ BelongsAt(k, s, i) /\ \A y \in ElemsOf(s) : y.key # k
  <2>1. i # 0
    BY <1>0, <1>1, <1>2, <1>4
  <2>2. ASSUME NEW j \in 0 .. n - 1, i <= j PROVE k < s.s_arr[j].key
    <3>1. k <= s.s_arr[i].key /\ s.s_arr[i].key \in Nat
      BY <1>0, <1>2, <1>3
    <3>2. i < j => s.s_arr[i].key < s.s_arr[j].key
      BY <1>0, <1>3 DEF Rising
    <3> QED
      BY <1>0, <1>3, <1>4, <2>2, <3>1, <3>2
  <2>3. BelongsAt(k, s, i)
    BY <1>2, <2>2 DEF BelongsAt
  <2>4. ASSUME NEW y \in ElemsOf(s) PROVE y.key # k
    <3>1. PICK j \in 0 .. n - 1 : y = s.s_arr[j]
      BY Member
    <3>2. j < i \/ i <= j
      BY <1>3
    <3> QED
      BY <1>0, <1>2, <2>2, <3>1, <3>2
  <2> QED
    BY <1>3, <2>1, <2>3, <2>4
<1> QED
  BY <1>0, <1>1, <1>3, <1>4 DEF i

LEMMA FitsInside ==
    ASSUME NEW x, NEW ls, Filed(ls, x), \A j \in 1 .. Len(ls) : ls[j].s_elems > 0,
           NEW e \in Elem, NEW a \in 1 .. Len(ls),
           \A j \in 1 .. Len(ls) : j < a => ls[j].s_max.key < e.key,
           sl_bnd_elem(e.key, ls[a]) = "IN"
    PROVE  Fits(e, ls, a, a)
<1> DEFINE s == ls[a]
           y == s.s_arr[s.s_elems - 1]
<1>0. Good(s, x) /\ s.s_elems > 0 /\ e.key \in Nat /\ Len(ls) \in Nat
  BY FiledFacts, ElemIsSlot
<1>1. y \in ElemsOf(s) /\ e.key <= y.key
  BY <1>0, InsideFacts, CappedBounds
<1> HIDE DEF y
<1>2. a \in Nat /\ a > 0
  BY <1>0
<1> QED
  BY <1>1, <1>2, KeyBetween DEF s

LEMMA gen_add_iraFiled ==
    ASSUME NEW x, NEW ls, Filed(ls, x), \A j \in 1 .. Len(ls) : ls[j].s_elems > 0,
           NEW e \in Elem, NEW a \in 1 .. Len(ls), NEW rep, rep # 0 => ~x,
           \A j \in 1 .. Len(ls) : j < a => ls[j].s_max.key < e.key,
           sl_bnd_elem(e.key, ls[a]) = "IN"
    PROVE  LET dup == ls[a].s_arr[slab_bin_srch(e.key, ls[a])].key = e.key
           IN  /\ dup /\ rep = 0 => gen_add_ira(ls, a, e, rep) = ls
               /\ ~dup /\ rep = 0 => Gains(gen_add_ira(ls, a, e, rep), ls, e, x)
               /\ rep # 0 => AtMost(gen_add_ira(ls, a, e, rep), ls, e, x)
<1> DEFINE s   == ls[a]
           i   == slab_bin_srch(e.key, s)
           dup == s.s_arr[i].key = e.key
<1>0. /\ ls \in Seq(Slab) /\ s \in Slab /\ s.s_elems \in 0 .. SELEM_MAX /\ Good(s, x)
      /\ SELEM_MAX \in Nat /\ e.key \in Nat /\ Len(ls) \in Nat
      /\ \A j \in 1 .. Len(ls) : ls[j].s_elems \in 0 .. SELEM_MAX
  BY FiledFacts, ElemIsSlot
<1>1. /\ i \in 0 .. s.s_elems - 1
      /\ ~dup => /\ i >= 1 /\ BelongsAt(e.key, s, i)
                 /\ \A y \in ElemsOf(s) : y.key # e.key
  BY <1>0, InsideFacts
<1>2. Fits(e, ls, a, a)
  BY FitsInside
<1>3. CASE dup /\ rep = 0
  <2>1. gen_add_ira(ls, a, e, rep) = ls
    BY <1>3 DEF gen_add_ira
  <2> QED
    BY <1>3, <2>1
<1>4. CASE dup /\ rep # 0
  <2>1. gen_add_ira(ls, a, e, rep) = Replaced(ls, a, i, e)
    BY <1>4 DEF gen_add_ira, Replaced
  <2> HIDE DEF i
  <2>2. AtMost(Replaced(ls, a, i, e), ls, e, x)
    BY <1>1, <1>4, ReplaceFiled
  <2> QED
    BY <1>4, <2>1, <2>2 DEF i
<1>5. CASE ~dup /\ (s.s_elems < SELEM_MAX \/ rep # 0)
  <2>1. gen_add_ira(ls, a, e, rep) = AddInto(ls, a, e)
    BY <1>5 DEF gen_add_ira
  <2>2. CASE s.s_elems < SELEM_MAX
    <3>1. Gains(AddInto(ls, a, e), ls, e, x)
      BY <1>1, <1>2, <1>5, <2>2, AddIntoFiled DEF Gains
    <3> QED
      BY <1>5, <2>1, <3>1, GainsAtMost
  <2>3. CASE ~(s.s_elems < SELEM_MAX)
    <3>1. s.s_elems = SELEM_MAX /\ i < SELEM_MAX
      <4> HIDE DEF i
      <4> QED
        BY <1>0, <1>1, <2>3
    <3>2. AtMost(AddInto(ls, a, e), ls, e, x)
      BY <1>1, <1>2, <1>5, <2>3, <3>1, AddFullFiled
    <3> QED
      BY <1>5, <2>1, <2>3, <3>2
  <2> QED
    BY <2>2, <2>3
<1>6. CASE ~dup /\ ~(s.s_elems < SELEM_MAX \/ rep # 0)
  <2>1. gen_add_ira(ls, a, e, rep) =
            IF HasRoom(ls, a + 1) THEN addsn(ls, a, e, i)
            ELSE IF HasRoom(ls, a - 1) THEN addsp(ls, a, e, i)
            ELSE addsn(InsertAt(ls, a + 1, mk_slab), a, e, i)
    BY <1>6 DEF gen_add_ira
  <2>2. /\ s.s_elems = SELEM_MAX /\ i \in 0 .. SELEM_MAX - 1 /\ i \in 1 .. SELEM_MAX
        /\ BelongsAt(e.key, s, i)
    <3>1. s.s_elems = SELEM_MAX
      BY <1>0, <1>6
    <3>2. i >= 1 /\ BelongsAt(e.key, s, i)
      BY <1>1, <1>6
    <3> HIDE DEF i, s
    <3> QED
      BY <1>0, <1>1, <3>1, <3>2
  <2> HIDE DEF i
  <2>3. \A j \in Int : HasRoom(ls, j) <=> j \in 1 .. Len(ls) /\ ls[j].s_elems < SELEM_MAX
    BY <1>0, HasRoomAt
  <2>4. HasRoom(ls, a + 1) => Gains(addsn(ls, a, e, i), ls, e, x)
    BY <1>2, <2>2, <2>3, addsnFiled DEF Gains
  <2>5. HasRoom(ls, a - 1) => Gains(addsp(ls, a, e, i), ls, e, x)
    BY <1>2, <2>2, <2>3, addspFiled DEF Gains
  <2>6. Gains(addsn(InsertAt(ls, a + 1, mk_slab), a, e, i), ls, e, x)
    BY <1>2, <2>2, SpillNewGains
  <2>7. Gains(gen_add_ira(ls, a, e, rep), ls, e, x)
    BY <2>1, <2>4, <2>5, <2>6
  <2> QED
    BY <1>6, <2>7 DEF i
<1> QED
  BY <1>3, <1>4, <1>5, <1>6

LEMMA gen_add_uraFiled ==
    ASSUME NEW x, NEW ls, Filed(ls, x), \A j \in 1 .. Len(ls) : ls[j].s_elems > 0,
           NEW e \in Elem, NEW a \in 1 .. Len(ls),
           \A j \in 1 .. Len(ls) : j < a => ls[j].s_max.key < e.key,
           sl_bnd_elem(e.key, ls[a]) = "UNDER"
    PROVE  /\ Gains(gen_add_ura(ls, a, e), ls, e, x)
           /\ Fits(e, ls, a, a - 1)
<1> DEFINE q == slab_bin_srch(e.key, ls[a])
           one == add_elem(mk_slab, e, 0)
           s == ls[a]
<1>0. /\ ls \in Seq(Slab) /\ s \in Slab /\ s.s_elems \in 0 .. SELEM_MAX /\ Good(s, x)
      /\ SELEM_MAX \in Nat /\ SELEM_MAX >= 2 /\ e.key \in Nat /\ Len(ls) \in Nat
      /\ \A j \in 1 .. Len(ls) : ls[j].s_elems \in 0 .. SELEM_MAX
      /\ \A h, j \in 1 .. Len(ls) : h < j => Below(ElemsOf(ls[h]), ElemsOf(ls[j]))
      /\ s.s_elems > 0
  BY FiledFacts, ElemIsSlot
<1>1. e.key < s.s_min.key /\ s.s_min.key \in Nat
  BY <1>0, SlabFacts DEF sl_bnd_elem
<1>2. \A y \in ElemsOf(s) : e.key < y.key /\ y.key \in Nat
  <2> SUFFICES ASSUME NEW y \in ElemsOf(s) PROVE e.key < y.key /\ y.key \in Nat
    OBVIOUS
  <2>1. y.key \in Nat /\ s.s_min.key <= y.key
    BY <1>0, CappedBounds
  <2> QED
    BY <1>0, <1>1, <2>1
<1>3. Fits(e, ls, a, a - 1)
  <2>1. ASSUME NEW j \in 1 .. Len(ls), j < a PROVE Below(ElemsOf(ls[j]), {e})
    <3> SUFFICES ASSUME NEW y \in ElemsOf(ls[j]) PROVE y.key < e.key
      BY DEF Below
    <3>1. y.key \in Nat /\ y.key <= ls[j].s_max.key /\ ls[j].s_max.key \in Nat
      <4>1. Good(ls[j], x) /\ ls[j].s_elems > 0 /\ ls[j] \in Slab
        BY FiledFacts
      <4> QED
        BY <4>1, CappedBounds, SlabFacts
    <3> QED
      BY <1>0, <2>1, <3>1
  <2>2. ASSUME NEW j \in 1 .. Len(ls), a - 1 < j PROVE Below({e}, ElemsOf(ls[j]))
    <3> SUFFICES ASSUME NEW y \in ElemsOf(ls[j]) PROVE e.key < y.key
      BY DEF Below
    <3>1. CASE j = a
      BY <1>2, <3>1
    <3>2. CASE j # a
      <4> DEFINE z == s.s_arr[0]
      <4>1. z \in ElemsOf(s)
        BY <1>0, CappedBounds
      <4>2. z.key < y.key
        BY <1>0, <2>2, <3>2, <4>1 DEF Below
      <4>3. y.key \in Nat
        <5>1. Good(ls[j], x) /\ ls[j].s_elems > 0
          BY FiledFacts
        <5> QED
          BY <5>1, CappedBounds
      <4> HIDE DEF z
      <4> QED
        BY <1>0, <1>2, <4>1, <4>2, <4>3
    <3> QED
      BY <3>1, <3>2
  <2> QED
    BY <2>1, <2>2 DEF Fits, Between
<1>4. Fits(e, ls, a, a) /\ (a > 1 => Fits(e, ls, a - 1, a - 1))
  BY <1>0, <1>3, FitsWider
<1>5. q = 0 /\ BelongsAt(e.key, s, 0)
  <2>1. \A y \in ElemsOf(s) : y.key # e.key
    BY <1>0, <1>2
  <2>2. q \in 0 .. s.s_elems /\ BelongsAt(e.key, s, q)
    BY <1>0, <2>1, SearchedPosition
  <2> HIDE DEF q
  <2>3. q = 0
    <3> SUFFICES ASSUME q > 0 PROVE FALSE
      BY <1>0, <2>2
    <3>1. s.s_arr[0].key < e.key
      BY <1>0, <2>2 DEF BelongsAt
    <3>2. s.s_arr[0] \in ElemsOf(s)
      BY <1>0, CappedBounds
    <3> QED
      BY <1>0, <1>2, <3>1, <3>2
  <2> QED
    BY <2>2, <2>3
<1>6. gen_add_ura(ls, a, e) =
          IF HasRoom(ls, a) THEN AddInto(ls, a, e)
          ELSE IF HasRoom(ls, a - 1) THEN AddInto(ls, a - 1, e)
          ELSE IF HasRoom(ls, a + 1) THEN addsn(ls, a, e, q)
          ELSE InsertAt(ls, a, one)
  BY DEF gen_add_ura
<1>7. \A j \in Int : HasRoom(ls, j) <=> j \in 1 .. Len(ls) /\ ls[j].s_elems < SELEM_MAX
  BY <1>0, HasRoomAt
<1> HIDE DEF q, one
<1>8. HasRoom(ls, a) => Gains(AddInto(ls, a, e), ls, e, x)
  <2>1. \A y \in ElemsOf(ls[a]) : y.key # e.key
    BY <1>0, <1>2
  <2> QED
    BY <1>4, <1>7, <2>1, AddIntoFiled DEF Gains
<1>9. HasRoom(ls, a - 1) => Gains(AddInto(ls, a - 1, e), ls, e, x)
  <2> SUFFICES ASSUME HasRoom(ls, a - 1) PROVE Gains(AddInto(ls, a - 1, e), ls, e, x)
    OBVIOUS
  <2> DEFINE b == a - 1
  <2>1. b \in 1 .. Len(ls) /\ b < a /\ ls[b].s_elems < SELEM_MAX /\ a \in Nat /\ b \in Nat
    BY <1>0, <1>7
  <2>2. Fits(e, ls, b, b) /\ Fits(e, ls, a, b)
    BY <1>0, <1>3, <1>4, <2>1
  <2> HIDE DEF b
  <2>3. \A y \in ElemsOf(ls[b]) : y.key # e.key
    BY <2>1, <2>2, FitsNew
  <2>4. Gains(AddInto(ls, b, e), ls, e, x)
    BY <2>1, <2>2, <2>3, AddIntoFiled DEF Gains
  <2> QED
    BY <2>4 DEF b
<1>10. ~HasRoom(ls, a) => s.s_elems = SELEM_MAX
  BY <1>0, <1>7
<1>11. ~HasRoom(ls, a) /\ HasRoom(ls, a + 1) => Gains(addsn(ls, a, e, q), ls, e, x)
  <2>1. q \in 0 .. SELEM_MAX - 1 /\ BelongsAt(e.key, ls[a], q)
    BY <1>0, <1>5
  <2> QED
    BY <1>4, <1>7, <1>10, <2>1, addsnFiled DEF Gains
<1>12. Gains(InsertAt(ls, a, one), ls, e, x)
  <2>1. a \in 1 .. Len(ls) + 1
    BY <1>0
  <2> QED
    BY <1>3, <2>1, NewSlabGains DEF one
<1> QED
  BY <1>3, <1>6, <1>8, <1>9, <1>11, <1>12

LEMMA gen_add_oraFiled ==
    ASSUME NEW x, NEW ls, Filed(ls, x), \A j \in 1 .. Len(ls) : ls[j].s_elems > 0,
           NEW e \in Elem, NEW a \in 1 .. Len(ls), a = Len(ls),
           \A j \in 1 .. Len(ls) : j < a => ls[j].s_max.key < e.key,
           sl_bnd_elem(e.key, ls[a]) = "OVER"
    PROVE  /\ Gains(gen_add_ora(ls, a, e), ls, e, x)
           /\ Fits(e, ls, a + 1, a)
<1> DEFINE q == slab_bin_srch(e.key, ls[a])
           one == add_elem(mk_slab, e, 0)
           s == ls[a]
           n == a + 1
<1>0. /\ ls \in Seq(Slab) /\ s \in Slab /\ s.s_elems \in 0 .. SELEM_MAX /\ Good(s, x)
      /\ SELEM_MAX \in Nat /\ SELEM_MAX >= 2 /\ e.key \in Nat /\ Len(ls) \in Nat
      /\ \A j \in 1 .. Len(ls) : ls[j].s_elems \in 0 .. SELEM_MAX
      /\ s.s_elems > 0
  BY FiledFacts, ElemIsSlot
<1>1. s.s_max.key < e.key
  <2>1. s.s_max.key \in Nat
    BY <1>0, SlabFacts
  <2> QED
    BY <1>0, <2>1 DEF sl_bnd_elem
<1>2. Fits(e, ls, n, a)
  <2>1. ASSUME NEW j \in 1 .. Len(ls) PROVE Below(ElemsOf(ls[j]), {e})
    <3> SUFFICES ASSUME NEW y \in ElemsOf(ls[j]) PROVE y.key < e.key
      BY DEF Below
    <3>1. y.key \in Nat /\ y.key <= ls[j].s_max.key /\ ls[j].s_max.key \in Nat
      <4>1. Good(ls[j], x) /\ ls[j].s_elems > 0 /\ ls[j] \in Slab
        BY FiledFacts
      <4> QED
        BY <4>1, CappedBounds, SlabFacts
    <3>2. ls[j].s_max.key < e.key
      BY <1>0, <1>1
    <3> QED
      BY <1>0, <3>1, <3>2
  <2>2. \A j \in 1 .. Len(ls) : ~(a < j)
    BY <1>0
  <2> QED
    BY <2>1, <2>2 DEF Fits, Between
<1>3. Fits(e, ls, a, a)
  BY <1>0, <1>2, FitsWider
<1>4. \A y \in ElemsOf(s) : y.key # e.key
  <2>1. a \in Nat /\ n \in Nat /\ a < n
    BY <1>0
  <2> HIDE DEF n
  <2> QED
    BY <1>2, <2>1, FitsNew
<1>5. q = s.s_elems /\ BelongsAt(e.key, s, q)
  <2>1. q \in 0 .. s.s_elems /\ BelongsAt(e.key, s, q)
    BY <1>0, <1>4, SearchedPosition
  <2> HIDE DEF q
  <2>2. ASSUME q < s.s_elems PROVE FALSE
    <3>1. s.s_elems - 1 \in 0 .. s.s_elems - 1 /\ q <= s.s_elems - 1
      BY <1>0, <2>1, <2>2
    <3>2. e.key < s.s_arr[s.s_elems - 1].key
      BY <2>1, <3>1 DEF BelongsAt
    <3>3. s.s_max.key = s.s_arr[s.s_elems - 1].key /\ s.s_max.key \in Nat
      BY <1>0, CappedBounds, SlabFacts
    <3> QED
      BY <1>0, <1>1, <3>2, <3>3
  <2> QED
    BY <1>0, <2>1, <2>2
<1>6. gen_add_ora(ls, a, e) =
          IF HasRoom(ls, a) THEN AddInto(ls, a, e)
          ELSE IF HasRoom(ls, n) THEN AddInto(ls, n, e)
          ELSE IF HasRoom(ls, a - 1) THEN addsp(ls, a, e, q)
          ELSE InsertAt(ls, n, one)
  BY DEF gen_add_ora
<1>7. \A j \in Int : HasRoom(ls, j) <=> j \in 1 .. Len(ls) /\ ls[j].s_elems < SELEM_MAX
  BY <1>0, HasRoomAt
<1> HIDE DEF q, one
<1>8. HasRoom(ls, a) => Gains(AddInto(ls, a, e), ls, e, x)
  BY <1>3, <1>4, <1>7, AddIntoFiled DEF Gains
<1>9. ~HasRoom(ls, n)
  BY <1>0, <1>7
<1>10. ~HasRoom(ls, a) => s.s_elems = SELEM_MAX
  BY <1>0, <1>7
<1>11. ~HasRoom(ls, a) /\ HasRoom(ls, a - 1) => Gains(addsp(ls, a, e, q), ls, e, x)
  <2> SUFFICES ASSUME ~HasRoom(ls, a), HasRoom(ls, a - 1)
               PROVE  Gains(addsp(ls, a, e, q), ls, e, x)
    OBVIOUS
  <2>1. q \in 1 .. SELEM_MAX /\ BelongsAt(e.key, ls[a], q) /\ ls[a].s_elems = SELEM_MAX
    BY <1>0, <1>5, <1>10
  <2>2. a - 1 \in 1 .. Len(ls) /\ ls[a - 1].s_elems < SELEM_MAX
    BY <1>0, <1>7
  <2> QED
    BY <1>3, <2>1, <2>2, addspFiled DEF Gains
<1>12. Gains(InsertAt(ls, n, one), ls, e, x)
  <2>1. n \in 1 .. Len(ls) + 1 /\ n - 1 = a
    BY <1>0
  <2> HIDE DEF n
  <2> QED
    BY <1>2, <2>1, NewSlabGains DEF one
<1> QED
  BY <1>2, <1>6, <1>8, <1>9, <1>11, <1>12

\* What an addition does to the elements of a chain, and to its order.
LEMMA slab_gen_addFiled ==
    ASSUME NEW x, NEW ls, Filed(ls, x), Len(ls) > 0,
           \A j \in 1 .. Len(ls) : ls[j].s_elems > 0,
           NEW e \in Elem, NEW rep, rep # 0 => ~x
    PROVE  /\ AtMost(slab_gen_add(ls, e, rep), ls, e, x)
           /\ IsEdup(ls, e, rep) => /\ rep = 0 /\ slab_gen_add(ls, e, rep) = ls
                                    /\ \E y \in Stock(ls) : y.key = e.key
           /\ rep = 0 /\ ~IsEdup(ls, e, rep) =>
                  /\ Gains(slab_gen_add(ls, e, rep), ls, e, x)
                  /\ \A y \in Stock(ls) : y.key # e.key
<1> DEFINE a == find_linear_scan(ls, e.key)
           i == slab_bin_srch(e.key, ls[a])
           fs == sl_bnd_elem(e.key, ls[a])
           r == slab_gen_add(ls, e, rep)
<1>0. /\ ls \in Seq(Slab) /\ e.key \in Nat /\ Len(ls) \in Nat
      /\ \A j \in 1 .. Len(ls) : Good(ls[j], x) /\ ls[j] \in Slab
  BY FiledFacts, ElemIsSlot
<1>1. /\ a \in 1 .. Len(ls)
      /\ \A j \in 1 .. Len(ls) : j < a => ls[j].s_max.key < e.key
      /\ a = Len(ls) \/ e.key <= ls[a].s_max.key
  BY <1>0, find_linear_scanFacts
<1>2. /\ fs \in {"IN", "UNDER", "OVER"}
      /\ fs = "OVER" <=> e.key > ls[a].s_max.key
  BY DEF sl_bnd_elem
<1>3. IsEdup(ls, e, rep) <=>
          rep = 0 /\ fs = "IN" /\ ls[a].s_arr[i].key = e.key
  BY DEF IsEdup
<1>4. /\ fs = "IN" => r = gen_add_ira(ls, a, e, rep)
      /\ fs = "UNDER" => r = gen_add_ura(ls, a, e)
      /\ fs = "OVER" => r = gen_add_ora(ls, a, e)
  BY DEF slab_gen_add
<1>5. AtMost(ls, ls, e, x)
  BY DEF AtMost
<1> HIDE DEF a, r
\* No element has the key if it stands between the slabs.
<1>6. ASSUME fs = "UNDER" \/ fs = "OVER"
      PROVE  Gains(r, ls, e, x) /\ \A y \in Stock(ls) : y.key # e.key
  <2>1. CASE fs = "UNDER"
    <3>1. Gains(gen_add_ura(ls, a, e), ls, e, x) /\ Fits(e, ls, a, a - 1)
      BY <1>1, <2>1, gen_add_uraFiled
    <3>2. ASSUME NEW y \in Stock(ls) PROVE y.key # e.key
      <4>1. PICK c \in 1 .. Len(ls) : y \in ElemsOf(ls[c])
        BY <1>0, StockMember
      <4>2. c < a \/ a - 1 < c
        BY <1>1
      <4>3. a \in Nat /\ a - 1 \in Nat
        BY <1>1
      <4> QED
        BY <3>1, <4>1, <4>2, <4>3, FitsNew
    <3> QED
      BY <1>4, <2>1, <3>1, <3>2
  <2>2. CASE fs = "OVER"
    <3>0. a = Len(ls)
      <4>1. ls[a].s_max.key \in Nat
        BY <1>0, <1>1, SlabFacts
      <4> QED
        BY <1>0, <1>1, <1>2, <2>2, <4>1
    <3>1. Gains(gen_add_ora(ls, a, e), ls, e, x) /\ Fits(e, ls, a + 1, a)
      BY <1>1, <2>2, <3>0, gen_add_oraFiled
    <3>2. ASSUME NEW y \in Stock(ls) PROVE y.key # e.key
      <4>1. PICK c \in 1 .. Len(ls) : y \in ElemsOf(ls[c])
        BY <1>0, StockMember
      <4>2. c < a + 1
        BY <1>0, <3>0
      <4>3. a \in Nat /\ a + 1 \in Nat
        BY <1>1
      <4> QED
        BY <3>1, <4>1, <4>2, <4>3, FitsNew
    <3> QED
      BY <1>4, <2>2, <3>1, <3>2
  <2> QED
    BY <1>6, <2>1, <2>2
<1>7. CASE fs = "UNDER" \/ fs = "OVER"
  BY <1>3, <1>6, <1>7, GainsAtMost DEF r
<1>8. CASE fs = "IN"
  <2> DEFINE dup == ls[a].s_arr[i].key = e.key
  <2>1. /\ dup /\ rep = 0 => r = ls
        /\ ~dup /\ rep = 0 => Gains(r, ls, e, x)
        /\ rep # 0 => AtMost(r, ls, e, x)
    BY <1>1, <1>4, <1>8, gen_add_iraFiled
  <2>2. i \in 0 .. ls[a].s_elems - 1 /\ (~dup => \A y \in ElemsOf(ls[a]) : y.key # e.key)
    BY <1>0, <1>1, <1>8, InsideFacts
  <2>3. dup => \E y \in Stock(ls) : y.key = e.key
    <3>1. ls[a].s_arr[i] \in ElemsOf(ls[a])
      BY <2>2, Member
    <3>2. ls[a].s_arr[i] \in Stock(ls)
      BY <1>0, <1>1, <3>1, StockMember
    <3> QED
      BY <3>2
  <2>4. ASSUME ~dup PROVE \A y \in Stock(ls) : y.key # e.key
    <3> SUFFICES ASSUME NEW y \in Stock(ls) PROVE y.key # e.key
      OBVIOUS
    <3>1. PICK c \in 1 .. Len(ls) : y \in ElemsOf(ls[c])
      BY <1>0, StockMember
    <3>2. CASE c = a
      BY <2>2, <2>4, <3>1, <3>2
    <3>3. CASE c # a
      <4>1. Fits(e, ls, a, a)
        BY <1>1, <1>8, FitsInside
      <4>2. c < a \/ a < c
        BY <1>1, <3>3
      <4>3. a \in Nat
        BY <1>1
      <4> QED
        BY <3>1, <4>1, <4>2, <4>3, FitsNew
    <3> QED
      BY <3>2, <3>3
  <2> QED
    BY <1>3, <1>5, <1>8, <2>1, <2>3, <2>4, GainsAtMost DEF r
<1> QED
  BY <1>2, <1>7, <1>8

-----------------------------------------------------------------------------
(* Removing, merging and reaping *)

\* The element at index `i' of slab `a' is removed.
LEMMA RemovedFiled ==
    ASSUME NEW x, NEW ls, Filed(ls, x), NEW a \in 1 .. Len(ls),
           NEW i \in 0 .. ls[a].s_elems - 1
    PROVE  LET r == Put(ls, a, remove_elem(i, ls[a]))
           IN  Filed(r, x) /\ Stock(r) = Stock(ls) \ {ls[a].s_arr[i]}
<1> DEFINE t == remove_elem(i, ls[a])
           y == ls[a].s_arr[i]
<1>1. Good(ls[a], x)
  BY FiledFacts
<1>2. Good(t, x) /\ ElemsOf(t) = ElemsOf(ls[a]) \ {y}
  BY <1>1, remove_elemGood
<1>3. y \in ElemsOf(ls[a])
  BY Member
<1> HIDE DEF t, y
<1>4. Filed(Put(ls, a, t), x)
  BY <1>2, <1>3, OneLosesFiled
<1>5. Stock(Put(ls, a, t)) = Stock(ls) \ {y}
  BY SMTT(60), <1>2, <1>3, OneLosesFiled
<1> QED
  BY <1>4, <1>5 DEF t, y

\* Moves between slabs, merges and reaps leave the elements as they are.
Kept(r, ls, x) == Filed(r, x) /\ Stock(r) = Stock(ls)

LEMMA KeptTwice ==
    ASSUME NEW x, NEW l, NEW m, NEW r, Kept(m, l, x), Kept(r, m, x)
    PROVE  Kept(r, l, x)
BY DEF Kept

LEMMA TwoKept ==
    ASSUME NEW x, NEW ls, Filed(ls, x), NEW a \in 1 .. Len(ls), NEW b \in 1 .. Len(ls),
           b = a + 1, NEW r \in Seq(Slab), Len(r) = Len(ls),
           \A j \in 1 .. Len(ls) : j # a /\ j # b => r[j] = ls[j],
           SameRun(ls[a], ls[b], r[a], r[b]), Capped(r[a], x), Capped(r[b], x)
    PROVE  Kept(r, ls, x)
<1>1. /\ Good(ls[a], x) /\ Good(ls[b], x) /\ Below(ElemsOf(ls[a]), ElemsOf(ls[b]))
      /\ r[a] \in Slab /\ r[b] \in Slab
  <2>1. a < b
    OBVIOUS
  <2> QED
    BY <2>1, FiledFacts, SlabAt
<1>2. /\ Good(r[a], x) /\ Good(r[b], x) /\ Below(ElemsOf(r[a]), ElemsOf(r[b]))
      /\ ElemsOf(r[a]) \cup ElemsOf(r[b]) = ElemsOf(ls[a]) \cup ElemsOf(ls[b])
  BY <1>1, MovedGood
<1> DEFINE X == {}
<1>3. Between(X, ls, a, a + 1)
  BY DEF Between, Below
<1>4. ElemsOf(r[a]) \cup ElemsOf(r[a + 1]) =
          (ElemsOf(ls[a]) \cup ElemsOf(ls[a + 1])) \cup X
  BY <1>2
<1> HIDE DEF X
<1>5. Filed(r, x)
  BY <1>2, <1>3, <1>4, TwoChangedFiled
<1>6. Stock(r) = Stock(ls) \cup X
  BY <1>2, <1>3, <1>4, TwoChangedFiled
<1> QED
  BY <1>5, <1>6 DEF Kept, X

LEMMA ToNextKept ==
    ASSUME NEW x, NEW ls, Filed(ls, x), NEW a \in 1 .. Len(ls), a + 1 \in 1 .. Len(ls),
           ls[a + 1].s_elems > 0
    PROVE  Kept(ToNext(ls, a), ls, x)
<1> DEFINE b  == a + 1
           mv == move_to_next(ls[a], ls[b])
           t  == mv[1]
           u  == mv[2]
           r  == ToNext(ls, a)
<1>1. b \in 1 .. Len(ls) /\ a # b /\ ls \in Seq(Slab)
  BY FiledFacts
<1>2. r = Put2(ls, a, t, b, u)
  BY DEF ToNext, Put2
<1>3. ls[a] \in Slab /\ ls[b] \in Slab /\ Capped(ls[a], x) /\ Capped(ls[b], x)
  BY <1>1, FiledFacts DEF Good
<1>4. SameRun(ls[a], ls[b], t, u) /\ Capped(t, x) /\ Capped(u, x)
  BY <1>3, move_to_nextRun
<1>5. t \in Slab /\ u \in Slab
  BY <1>3, move_to_nextIsSlab
<1> HIDE DEF b, t, u, r
<1>6. /\ Put2(ls, a, t, b, u) \in Seq(Slab)
      /\ Len(Put2(ls, a, t, b, u)) = Len(ls)
      /\ \A j \in 1 .. Len(ls) : Put2(ls, a, t, b, u)[j] =
             IF j = a THEN t ELSE IF j = b THEN u ELSE ls[j]
  BY <1>1, <1>5, Put2Properties
<1>7. /\ r \in Seq(Slab) /\ Len(r) = Len(ls) /\ r[a] = t /\ r[b] = u
      /\ \A j \in 1 .. Len(ls) : j # a /\ j # b => r[j] = ls[j]
  BY <1>1, <1>2, <1>6
<1>8. b = a + 1
  BY DEF b
<1>9. Kept(r, ls, x)
  BY <1>1, <1>4, <1>7, <1>8, TwoKept
<1> QED
  BY <1>9 DEF r

LEMMA ToPrevKept ==
    ASSUME NEW x, NEW ls, Filed(ls, x), NEW a \in 1 .. Len(ls), a - 1 \in 1 .. Len(ls)
    PROVE  Kept(ToPrev(ls, a), ls, x)
<1> DEFINE b  == a - 1
           mv == move_to_prev(ls[a], ls[b])
           t  == mv[1]
           u  == mv[2]
           r  == ToPrev(ls, a)
<1>1. b \in 1 .. Len(ls) /\ a # b /\ ls \in Seq(Slab) /\ a = b + 1
  BY FiledFacts
<1>2. r = Put2(ls, a, t, b, u)
  BY DEF ToPrev, Put2
<1>3. ls[a] \in Slab /\ ls[b] \in Slab /\ Capped(ls[a], x) /\ Capped(ls[b], x)
  BY <1>1, FiledFacts DEF Good
<1>4. SameRun(ls[b], ls[a], u, t) /\ Capped(t, x) /\ Capped(u, x)
  BY <1>3, move_to_prevRun
<1>5. t \in Slab /\ u \in Slab
  BY <1>3, move_to_prevIsSlab
<1> HIDE DEF b, t, u, r
<1>6. /\ Put2(ls, a, t, b, u) \in Seq(Slab)
      /\ Len(Put2(ls, a, t, b, u)) = Len(ls)
      /\ \A j \in 1 .. Len(ls) : Put2(ls, a, t, b, u)[j] =
             IF j = a THEN t ELSE IF j = b THEN u ELSE ls[j]
  BY <1>1, <1>5, Put2Properties
<1>7. /\ r \in Seq(Slab) /\ Len(r) = Len(ls) /\ r[a] = t /\ r[b] = u
      /\ \A j \in 1 .. Len(ls) : j # b /\ j # a => r[j] = ls[j]
  BY <1>1, <1>2, <1>6
<1>9. Kept(r, ls, x)
  BY <1>1, <1>4, <1>7, TwoKept
<1> QED
  BY <1>9 DEF r

LEMMA UnlinkedKept ==
    ASSUME NEW x, NEW l, NEW ls, Kept(ls, l, x), NEW p \in 1 .. Len(ls), ls[p].s_elems = 0
    PROVE  Kept(RemoveAt(ls, p), l, x)
BY UnlinkedFiled DEF Kept

\* Moving elements between neighbours and unlinking empty slabs is all that
\* merges and reaps do.
LEMMA KeptMoveClosed ==
    ASSUME NEW x, NEW l
    PROVE  MoveClosed({r \in Seq(Slab) : Kept(r, l, x)})
<1> DEFINE P == {r \in Seq(Slab) : Kept(r, l, x)}
<1>1. ASSUME NEW ls \in P, NEW a \in 1 .. Len(ls), a + 1 \in 1 .. Len(ls),
             ls[a + 1].s_elems > 0
      PROVE  ToNext(ls, a) \in P
  <2>1. Kept(ls, l, x) /\ Filed(ls, x)
    BY DEF Kept
  <2>2. Kept(ToNext(ls, a), l, x)
    BY <1>1, <2>1, ToNextKept, KeptTwice
  <2> QED
    BY <2>2 DEF Kept, Filed
<1>2. ASSUME NEW ls \in P, NEW a \in 1 .. Len(ls), a - 1 \in 1 .. Len(ls)
      PROVE  ToPrev(ls, a) \in P
  <2>1. Kept(ls, l, x) /\ Filed(ls, x)
    BY DEF Kept
  <2>2. Kept(ToPrev(ls, a), l, x)
    BY <1>2, <2>1, ToPrevKept, KeptTwice
  <2> QED
    BY <2>2 DEF Kept, Filed
<1>3. ASSUME NEW ls \in P, NEW p \in 1 .. Len(ls), ls[p].s_elems = 0
      PROVE  RemoveAt(ls, p) \in P
  <2>1. Kept(RemoveAt(ls, p), l, x)
    BY <1>3, UnlinkedKept
  <2> QED
    BY <2>1 DEF Kept, Filed
<1>4. P \subseteq Seq(Slab)
  OBVIOUS
<1> QED
  BY <1>1, <1>2, <1>3, <1>4 DEF MoveClosed

LEMMA slablist_reapKept ==
    ASSUME NEW x, NEW ls, Filed(ls, x)
    PROVE  Kept(slablist_reap(ls), ls, x)
<1> DEFINE P == {r \in Seq(Slab) : Kept(r, ls, x)}
<1>1. ls \in P /\ MoveClosed(P)
  BY KeptMoveClosed DEF Kept, Filed
<1> HIDE DEF P
<1>2. slablist_reap(ls) \in P
  BY <1>1, slablist_reapClosed
<1> QED
  BY <1>2 DEF P

LEMMA try_reapKept ==
    ASSUME NEW x, NEW ls, Filed(ls, x), NEW elems, NEW mslabs, NEW mpslabs
    PROVE  Kept(try_reap(ls, elems, mslabs, mpslabs), ls, x)
<1>1. try_reap(ls, elems, mslabs, mpslabs) \in {ls, slablist_reap(ls)}
  BY DEF try_reap
<1> QED
  BY <1>1, slablist_reapKept DEF Kept

LEMMA slab_generic_remKept ==
    ASSUME NEW x, NEW ls, Filed(ls, x), NEW m, Dented(ls, m)
    PROVE  Kept(slab_generic_rem(ls, m), ls, x)
<1> DEFINE P == {r \in Seq(Slab) : Kept(r, ls, x)}
<1>1. ls \in P /\ MoveClosed(P)
  BY KeptMoveClosed DEF Kept, Filed
<1> HIDE DEF P
<1>2. slab_generic_rem(ls, m) \in P
  BY <1>1, slab_generic_remClosed
<1> QED
  BY <1>2 DEF P

=============================================================================
