--------------------------- MODULE SlabListSetProofs ---------------------------
(***************************************************************************)
(* The theorems about the elements of a sorted list, for slabs and small   *)
(* lists of every size and every set of keys: order, the counter, the      *)
(* reads, and that the list implements KeyedSet.                           *)
(*                                                                         *)
(* Some hold whatever clients do.  The others are about careful clients,   *)
(* who never let an addition replace an element: a replacement is counted  *)
(* as an addition and leaves the extrema alone.                            *)
(***************************************************************************)
EXTENDS SlabListProofs, SlabOrderProofs, FiniteSetTheorems

\* No addition may replace.
Careful == Reps \subseteq {0}

\* Keys rise strictly along a small list.
Rises(l) == \A p, q \in 1 .. Len(l) : p < q => l[p].key < l[q].key

-----------------------------------------------------------------------------
(* Counting *)

HasAtMost(S, n) == IsFiniteSet(S) /\ Cardinality(S) <= n
HasExactly(S, n) == IsFiniteSet(S) /\ Cardinality(S) = n

LEMMA NothingCounted ==
    ASSUME NEW n \in Nat
    PROVE  HasExactly({}, 0) /\ HasAtMost({}, n)
BY FS_EmptySet DEF HasExactly, HasAtMost

LEMMA ExactlyIsAtMost ==
    ASSUME NEW S, NEW n \in Nat, HasExactly(S, n)
    PROVE  HasAtMost(S, n)
BY DEF HasExactly, HasAtMost

LEMMA MoreCounted ==
    ASSUME NEW S, NEW n \in Nat, NEW e
    PROVE  /\ HasAtMost(S, n) => \A T : T \subseteq S \cup {e} => HasAtMost(T, n + 1)
           /\ HasExactly(S, n) /\ e \notin S => HasExactly(S \cup {e}, n + 1)
<1>1. ASSUME HasAtMost(S, n), NEW T, T \subseteq S \cup {e} PROVE HasAtMost(T, n + 1)
  <2>0. IsFiniteSet(S) /\ Cardinality(S) \in Nat /\ Cardinality(S) <= n
    BY <1>1, FS_CardinalityType DEF HasAtMost
  <2>1. /\ IsFiniteSet(S \cup {e})
        /\ Cardinality(S \cup {e}) = IF e \in S THEN Cardinality(S) ELSE Cardinality(S) + 1
    BY <2>0, FS_AddElement
  <2>2. IsFiniteSet(T) /\ Cardinality(T) <= Cardinality(S \cup {e})
    BY <1>1, <2>1, FS_Subset
  <2>3. Cardinality(T) \in Nat
    BY <2>2, FS_CardinalityType
  <2>4. Cardinality(T) <= n + 1
    BY <2>0, <2>1, <2>2, <2>3
  <2> QED
    BY <2>2, <2>4 DEF HasAtMost
<1>2. ASSUME HasExactly(S, n), e \notin S PROVE HasExactly(S \cup {e}, n + 1)
  BY <1>2, FS_AddElement DEF HasExactly
<1> QED
  BY <1>1, <1>2

LEMMA FewerCounted ==
    ASSUME NEW S, NEW n \in Nat, NEW e \in S
    PROVE  /\ HasAtMost(S, n) => n > 0 /\ HasAtMost(S \ {e}, n - 1)
           /\ HasExactly(S, n) => n > 0 /\ HasExactly(S \ {e}, n - 1)
<1>1. ASSUME IsFiniteSet(S)
      PROVE  /\ IsFiniteSet(S \ {e}) /\ Cardinality(S \ {e}) = Cardinality(S) - 1
             /\ Cardinality(S) \in Nat /\ Cardinality(S) # 0
  <2>1. IsFiniteSet(S \ {e}) /\ Cardinality(S \ {e}) = Cardinality(S) - 1
    BY <1>1, FS_RemoveElement
  <2>2. Cardinality(S) \in Nat
    BY <1>1, FS_CardinalityType
  <2>3. Cardinality(S) # 0
    BY <1>1, FS_EmptySet
  <2> QED
    BY <2>1, <2>2, <2>3
<1> QED
  BY <1>1 DEF HasAtMost, HasExactly

-----------------------------------------------------------------------------
(* Small lists *)

LEMMA Nodes ==
    ASSUME NEW l \in Seq(Elem)
    PROVE  /\ Len(l) \in Nat /\ DOMAIN l = 1 .. Len(l)
           /\ \A p \in 1 .. Len(l) : l[p] \in Elem /\ l[p].key \in Nat
BY LenProperties, ElementOfSeq, ElemIsSlot

LEMMA NodeMember ==
    ASSUME NEW l \in Seq(Elem), NEW z
    PROVE  z \in ToSet(l) <=> \E p \in 1 .. Len(l) : z = l[p]
BY Nodes DEF ToSet

\* A small list has as many elements as nodes.
LEMMA NodesCounted ==
    ASSUME NEW l \in Seq(Elem), Rises(l)
    PROVE  HasExactly(ToSet(l), Len(l))
<1> DEFINE S == ToSet(l)
           D == 1 .. Len(l)
<1>0. Len(l) \in Nat /\ l \in [D -> Elem] /\ \A p \in D : l[p].key \in Nat
  BY Nodes, LenProperties
<1>1. l \in [D -> S]
  BY <1>0, NodeMember
<1>2. \A p, q \in D : l[p] = l[q] => p = q
  <2> SUFFICES ASSUME NEW p \in D, NEW q \in D, l[p] = l[q], p # q PROVE FALSE
    OBVIOUS
  <2>1. p < q \/ q < p
    BY <1>0
  <2>2. l[p].key < l[q].key \/ l[q].key < l[p].key
    BY <2>1 DEF Rises
  <2> QED
    BY <1>0, <2>2
<1>3. \A z \in S : \E p \in D : l[p] = z
  BY NodeMember
<1> HIDE DEF S, D
<1>4. l \in Injection(D, S)
  BY <1>1, <1>2 DEF Injection, IsInjective
<1>5. l \in Surjection(D, S)
  BY <1>1, <1>3 DEF Surjection
<1>6. ExistsBijection(D, S)
  BY <1>4, <1>5 DEF ExistsBijection, Bijection
<1>7. ExistsBijection(1 .. Len(l), S)
  BY <1>6 DEF D
<1>8. Cardinality(S) = Len(l)
  BY <1>0, <1>7, FS_CountingElements
<1>9. IsFiniteSet(S)
  BY <1>0, <1>7, FS_NatBijection
<1> QED
  BY <1>8, <1>9 DEF S, HasExactly

LEMMA SmallPosFacts ==
    ASSUME NEW l \in Seq(Elem), Rises(l), NEW k \in Nat
    PROVE  /\ SmallPos(l, k) \in 1 .. Len(l) + 1
           /\ \A j \in 1 .. Len(l) : j < SmallPos(l, k) => l[j].key < k
           /\ \A j \in 1 .. Len(l) : SmallPos(l, k) <= j => k <= l[j].key
           /\ SmallHas(l, k) => /\ SmallPos(l, k) \in 1 .. Len(l)
                                /\ l[SmallPos(l, k)].key = k
<1> DEFINE n == Len(l)
           S == {p \in 1 .. n + 1 : p = n + 1 \/ k <= l[p].key}
           m == SmallPos(l, k)
<1>0. n \in Nat /\ DOMAIN l = 1 .. n /\ \A p \in 1 .. n : l[p].key \in Nat
  BY Nodes
<1>1. S \in SUBSET Nat /\ n + 1 \in S
  BY <1>0
<1>2. m \in S /\ \A y \in S : m <= y
  BY <1>1, MinOfNats DEF SmallPos
<1> HIDE DEF m
<1>3. m \in 1 .. n + 1 /\ (m = n + 1 \/ k <= l[m].key)
  BY <1>2
<1>4. ASSUME NEW j \in 1 .. n, j < m PROVE l[j].key < k
  <2>1. j \notin S
    BY <1>0, <1>2, <1>3, <1>4
  <2>2. ~(k <= l[j].key)
    BY <1>0, <2>1
  <2> QED
    BY <1>0, <2>2
<1>5. ASSUME NEW j \in 1 .. n, m <= j PROVE k <= l[j].key
  <2>1. m \in 1 .. n /\ k <= l[m].key
    BY <1>0, <1>3, <1>5
  <2>2. m = j \/ l[m].key < l[j].key
    BY <1>0, <1>5, <2>1 DEF Rises
  <2> QED
    BY <1>0, <2>1, <2>2
<1>6. ASSUME SmallHas(l, k) PROVE m \in 1 .. n /\ l[m].key = k
  <2>1. PICK j \in 1 .. n : l[j].key = k
    BY <1>0, <1>6 DEF SmallHas
  <2>2. ~(j < m)
    BY <1>0, <1>4, <2>1
  <2>3. m \in 1 .. n /\ m <= j
    BY <1>0, <1>3, <2>2
  <2>4. k <= l[m].key
    BY <1>0, <1>3, <2>3
  <2>5. m = j \/ l[m].key < l[j].key
    BY <1>0, <2>3 DEF Rises
  <2> QED
    BY <1>0, <2>1, <2>3, <2>4, <2>5
<1> QED
  BY <1>3, <1>4, <1>5, <1>6 DEF m

LEMMA InsertedRises ==
    ASSUME NEW l \in Seq(Elem), Rises(l), NEW e \in Elem, ~SmallHas(l, e.key)
    PROVE  LET r == InsertAt(l, SmallPos(l, e.key), e)
           IN  Rises(r) /\ ToSet(r) = ToSet(l) \cup {e}
<1> DEFINE n == Len(l)
           p == SmallPos(l, e.key)
           r == InsertAt(l, p, e)
<1>0. /\ n \in Nat /\ e.key \in Nat
      /\ \A j \in 1 .. n : l[j] \in Elem /\ l[j].key \in Nat /\ l[j].key # e.key
  BY Nodes, ElemIsSlot DEF SmallHas
<1>1. /\ p \in 1 .. n + 1
      /\ \A j \in 1 .. n : j < p => l[j].key < e.key
      /\ \A j \in 1 .. n : p <= j => e.key < l[j].key
  <2>1. p \in 1 .. n + 1
    BY <1>0, SmallPosFacts
  <2>2. \A j \in 1 .. n : j < p => l[j].key < e.key
    BY <1>0, SmallPosFacts
  <2>3. \A j \in 1 .. n : p <= j => e.key <= l[j].key
    BY <1>0, SmallPosFacts
  <2> QED
    BY <1>0, <2>1, <2>2, <2>3
<1> HIDE DEF p
<1>2. r \in Seq(Elem) /\ Len(r) = n + 1
  BY <1>1, InsertAtProperties
<1>3. \A j \in 1 .. n + 1 : r[j] = IF j < p THEN l[j] ELSE IF j = p THEN e ELSE l[j - 1]
  BY <1>1, InsertAtProperties
<1> HIDE DEF r
<1>4. Rises(r)
  <2> SUFFICES ASSUME NEW a \in 1 .. n + 1, NEW b \in 1 .. n + 1, a < b
               PROVE  r[a].key < r[b].key
    BY <1>2 DEF Rises
  <2>1. CASE b < p
    <3>1. r[a] = l[a] /\ r[b] = l[b] /\ a \in 1 .. n /\ b \in 1 .. n
      BY <1>0, <1>1, <1>3, <2>1
    <3> QED
      BY <3>1 DEF Rises
  <2>2. CASE b = p
    BY <1>0, <1>1, <1>3, <2>2
  <2>3. CASE p < b /\ a < p
    <3>1. r[a] = l[a] /\ r[b] = l[b - 1] /\ a \in 1 .. n /\ b - 1 \in 1 .. n
      BY <1>0, <1>1, <1>3, <2>3
    <3>2. a < b - 1
      BY <1>0, <1>1, <2>3
    <3> QED
      BY <3>1, <3>2 DEF Rises
  <2>4. CASE p < b /\ a = p
    <3>1. r[a] = e /\ r[b] = l[b - 1] /\ b - 1 \in 1 .. n /\ p <= b - 1
      BY <1>0, <1>1, <1>3, <2>4
    <3> QED
      BY <1>1, <3>1
  <2>5. CASE p < a
    <3>1. /\ r[a] = l[a - 1] /\ r[b] = l[b - 1]
          /\ a - 1 \in 1 .. n /\ b - 1 \in 1 .. n
      BY <1>0, <1>1, <1>3, <2>5
    <3>2. a - 1 < b - 1
      BY <1>0
    <3> QED
      BY <3>1, <3>2 DEF Rises
  <2> QED
    BY <1>0, <1>1, <2>1, <2>2, <2>3, <2>4, <2>5
<1>5. ASSUME NEW z PROVE z \in ToSet(r) <=> z \in ToSet(l) \/ z = e
  <2>1. ASSUME NEW j \in 1 .. n + 1 PROVE r[j] = e \/ \E q \in 1 .. n : r[j] = l[q]
    BY <1>0, <1>1, <1>3, <2>1
  <2>2. ASSUME NEW q \in 1 .. n PROVE \E j \in 1 .. n + 1 : r[j] = l[q]
    <3>1. CASE q < p
      <4>1. q \in 1 .. n + 1 /\ r[q] = l[q]
        BY <1>0, <1>3, <3>1
      <4> QED
        BY <4>1
    <3>2. CASE p <= q
      <4>1. q + 1 \in 1 .. n + 1 /\ r[q + 1] = l[q]
        BY SMTT(60), <1>0, <1>1, <1>3, <3>2
      <4> QED
        BY <4>1
    <3> QED
      BY <1>0, <1>1, <3>1, <3>2
  <2>3. r[p] = e
    BY <1>0, <1>1, <1>3
  <2> QED
    BY <1>1, <1>2, <2>1, <2>2, <2>3, NodeMember
<1>6. ToSet(r) = ToSet(l) \cup {e}
  BY <1>5
<1> QED
  BY <1>4, <1>6 DEF r, p

LEMMA RemovedRises ==
    ASSUME NEW l \in Seq(Elem), Rises(l), NEW p \in 1 .. Len(l)
    PROVE  Rises(RemoveAt(l, p)) /\ ToSet(RemoveAt(l, p)) = ToSet(l) \ {l[p]}
<1> DEFINE n == Len(l)
           r == RemoveAt(l, p)
<1>0. n \in Nat /\ \A j \in 1 .. n : l[j] \in Elem /\ l[j].key \in Nat
  BY Nodes
<1>1. r \in Seq(Elem) /\ Len(r) = n - 1
  BY RemoveAtProperties
<1>2. \A j \in 1 .. n - 1 : r[j] = IF j < p THEN l[j] ELSE l[j + 1]
  BY RemoveAtProperties
<1> HIDE DEF r
<1>3. Rises(r)
  <2> SUFFICES ASSUME NEW a \in 1 .. n - 1, NEW b \in 1 .. n - 1, a < b
               PROVE  r[a].key < r[b].key
    BY <1>1 DEF Rises
  <2> QED
    BY SMTT(60), <1>0, <1>2 DEF Rises
<1>4. ASSUME NEW z PROVE z \in ToSet(r) <=> z \in ToSet(l) /\ z # l[p]
  <2>1. ASSUME NEW j \in 1 .. n - 1 PROVE \E q \in 1 .. n : q # p /\ r[j] = l[q]
    BY <1>0, <1>2, <2>1
  <2>2. ASSUME NEW q \in 1 .. n, q # p PROVE \E j \in 1 .. n - 1 : r[j] = l[q]
    <3>1. CASE q < p
      <4>1. q \in 1 .. n - 1 /\ r[q] = l[q]
        BY <1>0, <1>2, <3>1
      <4> QED
        BY <4>1
    <3>2. CASE p < q
      <4>1. q - 1 \in 1 .. n - 1 /\ r[q - 1] = l[q]
        BY <1>0, <1>2, <3>2
      <4> QED
        BY <4>1
    <3> QED
      BY <1>0, <2>2, <3>1, <3>2
  <2>3. ASSUME NEW q \in 1 .. n, q # p PROVE l[q] # l[p]
    BY <1>0, <2>3 DEF Rises
  <2>4. z \in ToSet(r) <=> \E j \in 1 .. n - 1 : z = r[j]
    BY <1>1, NodeMember
  <2>5. z \in ToSet(l) <=> \E q \in 1 .. n : z = l[q]
    BY NodeMember
  <2>6. z \in ToSet(r) => \E q \in 1 .. n : q # p /\ z = l[q]
    BY <2>1, <2>4
  <2>7. \A q \in 1 .. n : q # p => l[q] \in ToSet(r)
    <3> SUFFICES ASSUME NEW q \in 1 .. n, q # p PROVE l[q] \in ToSet(r)
      OBVIOUS
    <3>1. PICK j \in 1 .. n - 1 : r[j] = l[q]
      BY <2>2
    <3> QED
      BY <1>1, <3>1, NodeMember
  <2>8. z \in ToSet(r) => z \in ToSet(l) /\ z # l[p]
    BY <2>3, <2>5, <2>6
  <2>9. z \in ToSet(l) /\ z # l[p] => z \in ToSet(r)
    BY <2>5, <2>7
  <2> QED
    BY <2>8, <2>9
<1>5. ToSet(r) = ToSet(l) \ {l[p]}
  BY <1>4
<1> QED
  BY <1>3, <1>5 DEF r

-----------------------------------------------------------------------------
(* From one form to the other, and how much slabs hold *)

LEMMA slab_to_small_listRises ==
    ASSUME NEW x, NEW h, Good(h, x)
    PROVE  /\ slab_to_small_list(h) \in Seq(Elem)
           /\ Len(slab_to_small_list(h)) = h.s_elems
           /\ Rises(slab_to_small_list(h))
           /\ ToSet(slab_to_small_list(h)) = ElemsOf(h)
<1> DEFINE n == h.s_elems
           l == slab_to_small_list(h)
<1>0. h \in Slab /\ n \in Nat /\ Rising(h)
  BY SlabFacts DEF Good
<1>1. l \in Seq(Elem) /\ Len(l) = n
  BY <1>0, slab_to_small_listIsSeq
<1>2. \A p \in 1 .. n : l[p] = h.s_arr[p - 1]
  BY DEF slab_to_small_list
<1> HIDE DEF l
<1>3. Rises(l)
  <2> SUFFICES ASSUME NEW p \in 1 .. n, NEW q \in 1 .. n, p < q
               PROVE  l[p].key < l[q].key
    BY <1>1 DEF Rises
  <2>1. p - 1 \in 0 .. n - 1 /\ q - 1 \in 0 .. n - 1 /\ p - 1 < q - 1
    BY <1>0
  <2> QED
    BY <1>0, <1>2, <2>1 DEF Rising
<1>4. ASSUME NEW z PROVE z \in ToSet(l) <=> z \in ElemsOf(h)
  <2>1. ASSUME NEW p \in 1 .. n PROVE \E j \in 0 .. n - 1 : l[p] = h.s_arr[j]
    <3>1. p - 1 \in 0 .. n - 1
      BY <1>0
    <3> QED
      BY <1>2, <3>1
  <2>2. ASSUME NEW j \in 0 .. n - 1 PROVE \E p \in 1 .. n : l[p] = h.s_arr[j]
    <3>1. j + 1 \in 1 .. n /\ (j + 1) - 1 = j
      BY <1>0
    <3>2. l[j + 1] = h.s_arr[j]
      BY <1>2, <3>1
    <3> QED
      BY <3>1, <3>2
  <2>3. z \in ToSet(l) <=> \E p \in 1 .. n : z = l[p]
    BY <1>1, NodeMember
  <2>4. z \in ElemsOf(h) <=> \E j \in 0 .. n - 1 : z = h.s_arr[j]
    BY Member
  <2> QED
    BY <2>1, <2>2, <2>3, <2>4
<1>5. ToSet(l) = ElemsOf(h)
  BY <1>4
<1> QED
  BY <1>1, <1>3, <1>5 DEF l

\* A slab has as many elements as it says.
LEMMA SlabCounted ==
    ASSUME NEW x, NEW s, Good(s, x)
    PROVE  HasExactly(ElemsOf(s), s.s_elems)
<1> DEFINE l == slab_to_small_list(s)
<1>1. l \in Seq(Elem) /\ Rises(l)
  BY slab_to_small_listRises
<1>2. Len(l) = s.s_elems /\ ToSet(l) = ElemsOf(s)
  BY slab_to_small_listRises
<1> HIDE DEF l
<1>3. HasExactly(ToSet(l), Len(l))
  BY <1>1, NodesCounted
<1> QED
  BY <1>2, <1>3

LEMMA small_list_to_slabGood ==
    ASSUME NEW x, NEW l \in Seq(Elem), Rises(l), Len(l) > 0, Len(l) <= SELEM_MAX
    PROVE  /\ Good(small_list_to_slab(l), x)
           /\ ElemsOf(small_list_to_slab(l)) = ToSet(l)
<1> DEFINE n == Len(l)
           s == small_list_to_slab(l)
<1>0. n \in Nat /\ SELEM_MAX \in Nat /\ \A p \in 1 .. n : l[p].key \in Nat
  BY Nodes, Sizes
<1>1. s \in Slab /\ s.s_elems = n
  BY small_list_to_slabIsSlab
<1>2. \A j \in 0 .. n - 1 : s.s_arr[j] = l[j + 1]
  <2> SUFFICES ASSUME NEW j \in 0 .. n - 1 PROVE s.s_arr[j] = l[j + 1]
    OBVIOUS
  <2>1. j \in Index /\ j < n
    BY <1>0 DEF Index
  <2> QED
    BY <2>1 DEF small_list_to_slab
<1>3. s.s_min = l[1] /\ s.s_max = l[n]
  BY DEF small_list_to_slab
<1> HIDE DEF s
<1>4. Rising(s)
  <2> SUFFICES ASSUME NEW i \in 0 .. n - 1, NEW j \in 0 .. n - 1, i < j
               PROVE  s.s_arr[i].key < s.s_arr[j].key
    BY <1>1 DEF Rising
  <2>1. i + 1 \in 1 .. n /\ j + 1 \in 1 .. n /\ i + 1 < j + 1
    BY <1>0
  <2> QED
    BY <1>2, <2>1 DEF Rises
<1>5. Capped(s, x)
  <2>1. s.s_arr[0] = l[1] /\ s.s_arr[n - 1] = l[n]
    BY <1>0, <1>2
  <2> QED
    BY <1>1, <1>3, <2>1 DEF Capped, StandsFor
<1>6. ASSUME NEW z PROVE z \in ElemsOf(s) <=> z \in ToSet(l)
  <2>1. ASSUME NEW j \in 0 .. n - 1 PROVE \E p \in 1 .. n : s.s_arr[j] = l[p]
    <3>1. j + 1 \in 1 .. n
      BY <1>0
    <3> QED
      BY <1>2, <3>1
  <2>2. ASSUME NEW p \in 1 .. n PROVE \E j \in 0 .. n - 1 : s.s_arr[j] = l[p]
    <3>1. p - 1 \in 0 .. n - 1 /\ (p - 1) + 1 = p
      BY <1>0
    <3>2. s.s_arr[p - 1] = l[p]
      BY <1>2, <3>1
    <3> QED
      BY <3>1, <3>2
  <2>3. z \in ToSet(l) <=> \E p \in 1 .. n : z = l[p]
    BY NodeMember
  <2>4. z \in ElemsOf(s) <=> \E j \in 0 .. n - 1 : z = s.s_arr[j]
    BY <1>1, Member
  <2> QED
    BY <2>1, <2>2, <2>3, <2>4
<1>7. ElemsOf(s) = ToSet(l)
  BY <1>6
<1> QED
  BY <1>1, <1>4, <1>5, <1>7 DEF s, Good

\* A chain of one slab.
LEMMA OneSlabFiled ==
    ASSUME NEW x, NEW s, Good(s, x)
    PROVE  Filed(<<s>>, x) /\ Stock(<<s>>) = ElemsOf(s)
<1> DEFINE ls == <<s>>
<1>1. s \in Slab
  BY DEF Good
<1>2. ls \in Seq(Slab) /\ Len(ls) = 1 /\ ls[1] = s
  BY <1>1
<1> HIDE DEF ls
<1>3. \A a \in 1 .. Len(ls) : a = 1
  BY <1>2
<1>4. Filed(ls, x)
  BY <1>2, <1>3 DEF Filed
<1>5. \A z : z \in Stock(ls) <=> z \in ElemsOf(s)
  BY <1>2, <1>3, StockMember
<1>6. Stock(ls) = ElemsOf(s)
  BY <1>5
<1> QED
  BY <1>4, <1>6 DEF ls

LEMMA NoSlabsFiled ==
    ASSUME NEW x
    PROVE  Filed(<<>>, x) /\ Stock(<<>>) = {}
<1>1. <<>> \in Seq(Slab) /\ Len(<<>>) = 0
  BY EmptySeq
<1>2. Filed(<<>>, x)
  BY <1>1 DEF Filed
<1>3. \A z : z \notin Stock(<<>>)
  <2> SUFFICES ASSUME NEW z, z \in Stock(<<>>) PROVE FALSE
    OBVIOUS
  <2>1. PICK a \in 1 .. Len(<<>>) : z \in ElemsOf(<<>>[a])
    BY <1>1, StockMember
  <2> QED
    BY <1>1, <2>1
<1> QED
  BY <1>2, <1>3

\* Two neighbours hold more than one slab could: a chain with that few
\* elements is a single slab.
LEMMA FewElemsOneSlab ==
    ASSUME NEW x, NEW ls, Filed(ls, x), Packed(ls), Len(ls) > 0,
           HasAtMost(Stock(ls), SELEM_MAX)
    PROVE  Len(ls) = 1
<1>a. ls \in Seq(Slab) /\ Len(ls) \in Nat /\ SELEM_MAX \in Nat
  BY FiledFacts
<1> DEFINE n == Len(ls)
<1>b. n \in Nat /\ n > 0 /\ (n = 1 => Len(ls) = 1)
  BY <1>a
<1> HIDE DEF n
<1> SUFFICES ASSUME n >= 2 PROVE FALSE
  BY <1>b
<1> DEFINE A == ElemsOf(ls[1])
           B == ElemsOf(ls[2])
<1>0. /\ ls \in Seq(Slab) /\ SELEM_MAX \in Nat
      /\ 1 \in 1 .. Len(ls) /\ 2 \in 1 .. Len(ls) /\ 1 \in 1 .. Len(ls) - 1
  <2>1. 1 \in 1 .. n /\ 2 \in 1 .. n /\ 1 \in 1 .. n - 1
    BY <1>b
  <2> QED
    BY <1>a, <2>1 DEF n
<1>1. Good(ls[1], x) /\ Good(ls[2], x) /\ Below(A, B)
  BY <1>0, FiledFacts
<1>2. ls[1].s_elems \in Nat /\ ls[2].s_elems \in Nat
  BY <1>0, FiledFacts
<1>3. ls[1].s_elems + ls[2].s_elems > SELEM_MAX
  <2>1. ls[1].s_elems + ls[1 + 1].s_elems > SELEM_MAX
    BY <1>0 DEF Packed
  <2> QED
    BY <2>1
<1>4. A \in SUBSET Stock(ls) /\ B \in SUBSET Stock(ls)
  BY <1>0, StockMember
<1>5. A \cap B = {}
  <2> SUFFICES ASSUME NEW z \in A, z \in B PROVE FALSE
    OBVIOUS
  <2>1. z.key < z.key
    BY <1>1 DEF Below
  <2>2. z \in Elem
    <3>1. PICK j \in 0 .. ls[1].s_elems - 1 : z = ls[1].s_arr[j]
      BY Member
    <3> QED
      BY <1>0, <3>1, FiledFacts, SlabFacts
  <2>3. z.key \in Nat
    BY <2>2, ElemIsSlot
  <2> QED
    BY <2>1, <2>3
<1>6. IsFiniteSet(A) /\ Cardinality(A) = ls[1].s_elems
  BY <1>1, SlabCounted DEF HasExactly
<1>7. IsFiniteSet(B) /\ Cardinality(B) = ls[2].s_elems
  BY <1>1, SlabCounted DEF HasExactly
<1> HIDE DEF A, B
<1>8. Cardinality(A \cup B) = Cardinality(A) + Cardinality(B) - Cardinality(A \cap B)
  BY <1>6, <1>7, FS_Union
<1>9. Cardinality(A \cup B) = ls[1].s_elems + ls[2].s_elems
  <2>1. Cardinality(A \cap B) = 0
    BY <1>5, FS_EmptySet
  <2> QED
    BY <1>2, <1>6, <1>7, <1>8, <2>1
<1>10. A \cup B \in SUBSET Stock(ls)
  BY <1>4
<1>11. Cardinality(A \cup B) <= Cardinality(Stock(ls))
  BY <1>10, FS_Subset DEF HasAtMost
<1>12. Cardinality(Stock(ls)) \in Nat /\ Cardinality(Stock(ls)) <= SELEM_MAX
  BY FS_CardinalityType DEF HasAtMost
<1> QED
  BY <1>0, <1>2, <1>3, <1>9, <1>11, <1>12

-----------------------------------------------------------------------------
(* The invariant *)

\* The counter bounds the number of elements; the counter of a careful client
\* is that number, and its small lists are no longer than a small list may be.
CountInv ==
    /\ HasAtMost(Stored, sl_elems)
    /\ Careful => HasExactly(Stored, sl_elems)
    /\ Careful /\ IS_SMALL_LIST => sl_elems <= SMELEM_MAX

\* Order makes the searches find what is there, and only then an addition
\* inserts where order is kept; the count tells that a list that is made small
\* is a single slab, and only then nothing is lost.
SInv == IInv /\ Rises(sml) /\ Filed(slabs, Careful) /\ CountInv

\* What a call may do to the elements.
Refused(e) ==
    /\ \E y \in Stored : y.key = e.key
    /\ Stored' = Stored /\ sl_elems' = sl_elems /\ ret' = Result("EDUP")
Took(e) ==
    /\ \A y \in Stored : y.key # e.key
    /\ Stored' = Stored \cup {e} /\ sl_elems' = sl_elems + 1 /\ ret' = Result("SUCCESS")
Removed(k) ==
    \E y \in Stored : /\ y.key = k /\ Stored' = Stored \ {y}
                      /\ ret'.st = "SUCCESS" /\ (InSlabForm => ret'.rcb = {y})
Missed(k) ==
    /\ \A y \in Stored : y.key # k
    /\ Stored' = Stored
    /\ ret'.st \in {"ENFOUND"} \cup (IF Stored = {} THEN {"EMPTY"} ELSE {})

LEMMA StoredIs ==
    /\ Stored = ToSet(sml) \cup Stock(slabs)
    /\ Stored' = ToSet(sml') \cup Stock(slabs')
BY DEF Stored, Stock

LEMMA NoNodes == ToSet(<<>>) = {} /\ Rises(<<>>)
<1>1. <<>> \in Seq(Elem) /\ Len(<<>>) = 0
  BY EmptySeq
<1>2. \A z : z \notin ToSet(<<>>)
  <2> SUFFICES ASSUME NEW z, z \in ToSet(<<>>) PROVE FALSE
    OBVIOUS
  <2>1. PICK p \in 1 .. Len(<<>>) : z = <<>>[p]
    BY ZenonT(60), <1>1, NodeMember
  <2> QED
    BY <1>1, <2>1
<1>3. Rises(<<>>)
  BY <1>1 DEF Rises
<1> QED
  BY <1>2, <1>3

LEMMA StoredForms ==
    ASSUME IInv
    PROVE  /\ IS_SMALL_LIST => Stored = ToSet(sml)
           /\ ~IS_SMALL_LIST => Stored = Stock(slabs)
<1>1. sml = <<>> \/ slabs = <<>>
  BY DEF IInv, TypeOK
<1>2. slabs = <<>> => Stock(slabs) = {}
  BY NoSlabsFiled
<1>3. sml = <<>> => ToSet(sml) = {}
  BY NoNodes
<1> QED
  BY <1>1, <1>2, <1>3, StoredIs DEF IS_SMALL_LIST

\* What the chain of a list in slab form is like.
LEMMA SlabForm ==
    ASSUME SInv, slabs # <<>>
    PROVE  /\ Filed(slabs, Careful) /\ Len(slabs) > 0 /\ Packed(slabs)
           /\ \A j \in 1 .. Len(slabs) : slabs[j].s_elems > 0
           /\ Stored = Stock(slabs) /\ sml = <<>>
<1>1. slabs \in Seq(Slab) /\ Chain(slabs) /\ (sml = <<>> \/ slabs = <<>>)
  BY DEF SInv, IInv, TypeOK
<1>2. Len(slabs) > 0
  BY <1>1, EmptySeq, LenProperties
<1>3. Stored = Stock(slabs)
  BY StoredForms DEF SInv, IS_SMALL_LIST
<1> QED
  BY <1>1, <1>2, <1>3 DEF SInv, Chain

LEMMA KeysDiffer ==
    ASSUME SInv, NEW y \in Stored, NEW z \in Stored, y.key = z.key
    PROVE  y = z /\ y \in Elem
<1>1. CASE slabs = <<>>
  <2>1. Stored = ToSet(sml) /\ sml \in Seq(Elem) /\ Rises(sml)
    BY <1>1, StoredForms DEF SInv, IInv, TypeOK, IS_SMALL_LIST
  <2>2. PICK p \in 1 .. Len(sml) : y = sml[p]
    BY <2>1, NodeMember
  <2>3. PICK q \in 1 .. Len(sml) : z = sml[q]
    BY <2>1, NodeMember
  <2>4. y \in Elem /\ y.key \in Nat /\ p \in Nat /\ q \in Nat
    BY <2>1, <2>2, <2>3, Nodes
  <2>5. ~(p < q) /\ ~(q < p)
    BY <2>1, <2>2, <2>3, <2>4 DEF Rises
  <2>6. p = q
    BY <2>4, <2>5
  <2> QED
    BY <2>2, <2>3, <2>4, <2>6
<1>2. CASE slabs # <<>>
  <2>1. /\ Filed(slabs, Careful) /\ Stored = Stock(slabs)
        /\ \A j \in 1 .. Len(slabs) : slabs[j].s_elems > 0
    BY <1>2, SlabForm
  <2>2. y \in Elem /\ y.key \in Nat
    <3>1. slabs \in Seq(Slab)
      BY <2>1, FiledFacts
    <3>2. PICK a \in 1 .. Len(slabs) : y \in ElemsOf(slabs[a])
      BY <2>1, <3>1, StockMember
    <3>3. slabs[a] \in Slab
      BY <3>1, SlabAt
    <3>4. PICK j \in 0 .. slabs[a].s_elems - 1 : y = slabs[a].s_arr[j]
      BY <3>2, Member
    <3> QED
      BY <3>3, <3>4, SlabFacts
  <2> DEFINE a == find_linear_scan(slabs, y.key)
             i == slab_bin_srch(y.key, slabs[a])
  <2>3. y = slabs[a].s_arr[i]
    BY <2>1, <2>2, SearchFinds
  <2>4. z = slabs[a].s_arr[i]
    BY <2>1, <2>2, SearchFinds
  <2> QED
    BY <2>2, <2>3, <2>4
<1> QED
  BY <1>1, <1>2

-----------------------------------------------------------------------------
(* One lemma per action *)

LEMMA InitSInv == Init => SInv
<1> SUFFICES ASSUME Init PROVE SInv
  OBVIOUS
<1>1. IInv /\ sml = <<>> /\ slabs = <<>> /\ sl_elems = 0
  BY InitIInv DEF Init
<1>2. Stored = {}
  BY <1>1, StoredIs, NoNodes, NoSlabsFiled
<1>3. HasExactly({}, 0) /\ HasAtMost({}, 0)
  BY NothingCounted
<1>4. CountInv
  BY <1>1, <1>2, <1>3, Sizes DEF CountInv
<1>5. Rises(sml) /\ Filed(slabs, Careful)
  BY <1>1, NoNodes, NoSlabsFiled
<1> QED
  BY <1>1, <1>4, <1>5 DEF SInv

\* When nothing about the elements changes.
LEMMA SameSInv ==
    ASSUME SInv, IInv', UNCHANGED <<sml, sl_elems>>, Filed(slabs', Careful),
           Stored' = Stored, slabs' = <<>> <=> slabs = <<>>
    PROVE  SInv'
<1>1. CountInv'
  BY DEF SInv, CountInv, IS_SMALL_LIST
<1>2. Rises(sml')
  BY DEF SInv
<1> QED
  BY <1>1, <1>2 DEF SInv

LEMMA AddSmallSInv ==
    ASSUME SInv, NEW e \in Elem, AddSmall(e)
    PROVE  SInv' /\ (Refused(e) \/ Took(e))
<1> DEFINE r == InsertAt(sml, SmallPos(sml, e.key), e)
<1>0. /\ IInv /\ sml \in Seq(Elem) /\ Rises(sml) /\ slabs = <<>> /\ slabs' = <<>>
      /\ sl_elems \in Nat /\ sl_elems <= SMELEM_MAX - 1
  BY DEF SInv, IInv, TypeOK, AddSmall, IS_SMALL_LIST
<1>1. IInv'
  BY <1>0, AddSmallIInv
<1>2. Stored = ToSet(sml) /\ Stored' = ToSet(sml')
  BY <1>0, StoredIs, NoSlabsFiled
<1>3. Filed(slabs', Careful)
  BY <1>0, NoSlabsFiled
<1>4. CASE SmallHas(sml, e.key)
  <2>1. UNCHANGED <<sml, sl_elems>> /\ ret' = Result("EDUP")
    BY <1>4 DEF AddSmall
  <2>2. Stored' = Stored
    BY <1>2, <2>1
  <2>3. SInv'
    BY <1>0, <1>1, <1>3, <2>1, <2>2, SameSInv
  <2>4. \E y \in Stored : y.key = e.key
    <3>1. PICK p \in 1 .. Len(sml) : sml[p].key = e.key
      BY <1>0, <1>4, Nodes DEF SmallHas
    <3>2. sml[p] \in Stored
      BY <1>0, <1>2, NodeMember
    <3> QED
      BY <3>1, <3>2
  <2>5. Refused(e)
    BY <2>1, <2>2, <2>4 DEF Refused
  <2> QED
    BY <2>3, <2>5
<1>5. CASE ~SmallHas(sml, e.key)
  <2>1. sml' = r /\ sl_elems' = sl_elems + 1 /\ ret' = Result("SUCCESS")
    BY <1>5 DEF AddSmall
  <2>2. Rises(r)
    BY <1>0, <1>5, InsertedRises
  <2>3. ToSet(r) = ToSet(sml) \cup {e}
    BY <1>0, <1>5, InsertedRises
  <2> HIDE DEF r
  <2>4. Stored' = Stored \cup {e}
    BY <1>2, <2>1, <2>3
  <2>5. \A y \in Stored : y.key # e.key
    BY <1>0, <1>2, <1>5, NodeMember, Nodes DEF SmallHas
  <2>6. e \notin Stored
    BY <2>5
  <2>7. CountInv'
    <3>1. HasAtMost(Stored', sl_elems')
      BY <1>0, <2>1, <2>4, MoreCounted DEF SInv, CountInv
    <3>2. Careful => HasExactly(Stored', sl_elems')
      BY <1>0, <2>1, <2>4, <2>6, MoreCounted DEF SInv, CountInv
    <3>3. sl_elems' <= SMELEM_MAX
      BY <1>0, <2>1, Sizes
    <3> QED
      BY <3>1, <3>2, <3>3 DEF CountInv
  <2>8. SInv'
    BY <1>1, <1>3, <2>1, <2>2, <2>7 DEF SInv
  <2>9. Took(e)
    BY <2>1, <2>4, <2>5 DEF Took
  <2> QED
    BY <2>8, <2>9
<1> QED
  BY <1>4, <1>5

LEMMA AddSlabSInv ==
    ASSUME SInv, NEW e \in Elem, NEW rep \in Reps, AddSlab(e, rep)
    PROVE  SInv' /\ (rep = 0 => Refused(e) \/ Took(e))
<1> DEFINE ls == IF IS_SMALL_LIST THEN <<small_list_to_slab(sml)>> ELSE slabs
           more == slab_gen_add(ls, e, rep)
<1>0. /\ IInv /\ sml \in Seq(Elem) /\ Rises(sml) /\ sl_elems \in Nat
      /\ HasAtMost(Stored, sl_elems)
      /\ Careful => HasExactly(Stored, sl_elems)
  BY DEF SInv, CountInv, IInv, TypeOK
<1>1. /\ IS_SMALL_LIST => sl_elems = SMELEM_MAX /\ sml # <<>>
      /\ sml' = <<>> /\ slabs' = try_reap(more, sl_elems, sl_mslabs, sl_mpslabs)
      /\ sl_elems' = IF IsEdup(ls, e, rep) THEN sl_elems ELSE sl_elems + 1
      /\ ret' = Result(IF IsEdup(ls, e, rep) THEN "EDUP" ELSE "SUCCESS")
  BY DEF AddSlab, SmallListFull
<1>2. IInv'
  BY <1>0, AddSlabIInv
<1>3. Filed(ls, Careful) /\ Len(ls) > 0 /\ \A j \in 1 .. Len(ls) : ls[j].s_elems > 0
  <2>1. CASE IS_SMALL_LIST
    <3>1. Len(sml) = SMELEM_MAX
      BY <1>0, <1>1, <2>1 DEF IInv, FormInv
    <3>2. small_list_to_slab(sml).s_elems = Len(sml)
      BY <1>0, <3>1, Sizes, small_list_to_slabIsSlab
    <3>3. Good(small_list_to_slab(sml), Careful)
      BY <1>0, <3>1, Sizes, small_list_to_slabGood
    <3>4. Filed(<<small_list_to_slab(sml)>>, Careful)
      BY <3>3, OneSlabFiled
    <3>5. \A j \in 1 .. Len(ls) : ls[j] = small_list_to_slab(sml)
      BY <2>1
    <3>6. Len(ls) = 1
      BY <2>1
    <3> QED
      BY <2>1, <3>1, <3>2, <3>4, <3>5, <3>6, Sizes
  <2>2. CASE ~IS_SMALL_LIST
    BY <2>2, SlabForm DEF IS_SMALL_LIST
  <2> QED
    BY <2>1, <2>2
<1>4. Stored = Stock(ls)
  <2>1. CASE IS_SMALL_LIST
    <3>1. Len(sml) = SMELEM_MAX
      BY <1>0, <1>1, <2>1 DEF IInv, FormInv
    <3>5. Len(sml) > 0 /\ Len(sml) <= SELEM_MAX
      BY <3>1, Sizes
    <3>2. Good(small_list_to_slab(sml), Careful)
      BY <1>0, <3>1, <3>5, small_list_to_slabGood
    <3>3. ElemsOf(small_list_to_slab(sml)) = ToSet(sml)
      BY <1>0, <3>1, <3>5, small_list_to_slabGood
    <3>4. Stock(<<small_list_to_slab(sml)>>) = ToSet(sml)
      BY <3>2, <3>3, OneSlabFiled
    <3> QED
      BY <1>0, <2>1, <3>4, StoredForms
  <2>2. CASE ~IS_SMALL_LIST
    BY <1>0, <2>2, StoredForms
  <2> QED
    BY <2>1, <2>2
<1> HIDE DEF ls
<1>5. Kept(slabs', more, Careful) /\ AtMost(more, ls, e, Careful)
  <2>1. rep # 0 => ~Careful
    BY DEF Careful
  <2>2. AtMost(more, ls, e, Careful)
    BY <1>3, <2>1, slab_gen_addFiled
  <2> QED
    BY <1>1, <2>2, try_reapKept DEF AtMost
<1>6. IsEdup(ls, e, rep) => more = ls /\ \E y \in Stored : y.key = e.key
  <2>1. rep # 0 => ~Careful
    BY DEF Careful
  <2> QED
    BY <1>3, <1>4, <2>1, slab_gen_addFiled
<1>7. rep = 0 /\ ~IsEdup(ls, e, rep) =>
          Gains(more, ls, e, Careful) /\ \A y \in Stored : y.key # e.key
  <2>1. rep # 0 => ~Careful
    BY DEF Careful
  <2> QED
    BY <1>3, <1>4, <2>1, slab_gen_addFiled
<1> HIDE DEF more
<1>8. Filed(slabs', Careful) /\ Stored' = Stock(more)
  <2>1. Filed(slabs', Careful) /\ Stock(slabs') = Stock(more)
    BY <1>5 DEF Kept
  <2> QED
    BY <1>1, <2>1, StoredIs, NoNodes
<1>9. Rises(sml')
  BY <1>1, NoNodes
<1>10. Stored' # {} => slabs' # <<>>
  BY <1>1, StoredIs, NoNodes, NoSlabsFiled
<1>11. CASE IsEdup(ls, e, rep)
  <2>1. Stored' = Stored /\ sl_elems' = sl_elems /\ ret' = Result("EDUP")
    BY <1>1, <1>4, <1>6, <1>8, <1>11
  <2>2. CountInv'
    BY <1>0, <1>6, <1>10, <1>11, <2>1 DEF CountInv, IS_SMALL_LIST
  <2> QED
    BY <1>2, <1>6, <1>8, <1>9, <1>11, <2>1, <2>2 DEF SInv, Refused
<1>12. CASE ~IsEdup(ls, e, rep) /\ rep = 0
  <2>1. Stored' = Stored \cup {e} /\ sl_elems' = sl_elems + 1 /\ ret' = Result("SUCCESS")
    BY <1>1, <1>4, <1>7, <1>8, <1>12 DEF Gains
  <2>2. \A y \in Stored : y.key # e.key
    BY <1>7, <1>12
  <2>3. e \notin Stored
    BY <2>2
  <2>4. HasAtMost(Stored', sl_elems')
    BY <1>0, <2>1, MoreCounted
  <2>5. Careful => HasExactly(Stored', sl_elems')
    BY <1>0, <2>1, <2>3, MoreCounted
  <2>6. CountInv'
    BY <1>10, <2>1, <2>4, <2>5 DEF CountInv, IS_SMALL_LIST
  <2> QED
    BY <1>2, <1>8, <1>9, <2>1, <2>2, <2>6 DEF SInv, Took
<1>13. CASE ~IsEdup(ls, e, rep) /\ rep # 0
  <2>1. ~Careful
    BY <1>13 DEF Careful
  <2>2. Stored' \subseteq Stored \cup {e} /\ sl_elems' = sl_elems + 1
    BY <1>1, <1>4, <1>5, <1>8, <1>13 DEF AtMost
  <2>3. HasAtMost(Stored', sl_elems')
    BY <1>0, <2>2, MoreCounted
  <2>4. CountInv'
    BY <2>1, <2>3 DEF CountInv
  <2> QED
    BY <1>2, <1>8, <1>9, <1>13, <2>4 DEF SInv
<1> QED
  BY <1>11, <1>12, <1>13

\* The list a removal works on holds what the list holds: only a single slab
\* is copied.
LEMMA RemBaseKeeps ==
    ASSUME SInv, RemBase.slabs = <<>>
    PROVE  /\ Rises(RemBase.sml) /\ ToSet(RemBase.sml) = Stored
           /\ HasAtMost(Stored, RemBase.elems)
           /\ Careful => HasExactly(Stored, RemBase.elems) /\ RemBase.elems <= SMELEM_MAX
<1>0. IInv /\ sl_elems \in Nat /\ HasAtMost(Stored, sl_elems)
  BY DEF SInv, CountInv, IInv, TypeOK
<1>1. CASE slabs # <<>> /\ sl_elems = SMELEM_MAX
  <2>1. /\ RemBase.sml = slab_to_small_list(slabs[1])
        /\ RemBase.elems = slabs[1].s_elems
    BY <1>1 DEF RemBase
  <2>2. /\ Filed(slabs, Careful) /\ Len(slabs) > 0 /\ Packed(slabs)
        /\ Stored = Stock(slabs)
    BY <1>1, SlabForm
  <2>3. Cardinality(Stored) \in Nat /\ IsFiniteSet(Stored) /\ Cardinality(Stored) <= SMELEM_MAX
    BY <1>0, <1>1, FS_CardinalityType DEF HasAtMost
  <2>4. HasAtMost(Stock(slabs), SELEM_MAX)
    BY <2>2, <2>3, Sizes DEF HasAtMost
  <2>5. Len(slabs) = 1
    BY <2>2, <2>4, FewElemsOneSlab
  <2>6. 1 \in 1 .. Len(slabs)
    BY <2>5
  <2>7. Good(slabs[1], Careful) /\ slabs[1] \in Slab /\ slabs \in Seq(Slab)
    BY <2>2, <2>6, FiledFacts
  <2>8. Stock(slabs) = ElemsOf(slabs[1])
    <3>1. \A z : z \in Stock(slabs) <=> z \in ElemsOf(slabs[1])
      <4>1. \A a \in 1 .. Len(slabs) : a = 1
        BY <2>5
      <4> QED
        BY <2>6, <2>7, <4>1, StockMember
    <3> QED
      BY <3>1
  <2>9. Rises(RemBase.sml) /\ ToSet(RemBase.sml) = Stored
    BY <2>1, <2>2, <2>7, <2>8, slab_to_small_listRises
  <2>10. HasExactly(Stored, slabs[1].s_elems)
    BY <2>2, <2>7, <2>8, SlabCounted
  <2>11. slabs[1].s_elems \in Nat /\ slabs[1].s_elems <= SMELEM_MAX
    BY <2>3, <2>10 DEF HasExactly
  <2>12. HasAtMost(Stored, slabs[1].s_elems)
    BY <2>10, <2>11, ExactlyIsAtMost
  <2> QED
    BY <2>1, <2>9, <2>10, <2>11, <2>12
<1>2. CASE ~(slabs # <<>> /\ sl_elems = SMELEM_MAX)
  <2>1. RemBase.sml = sml /\ RemBase.elems = sl_elems /\ slabs = <<>>
    BY <1>2 DEF RemBase
  <2>2. Stored = ToSet(sml)
    BY <1>0, <2>1, StoredForms DEF IS_SMALL_LIST
  <2> QED
    BY <2>1, <2>2 DEF SInv, CountInv, IS_SMALL_LIST
<1> QED
  BY <1>1, <1>2

LEMMA RemSmallSInv ==
    ASSUME SInv, NEW k \in Nat, RemSmall(k)
    PROVE  SInv' /\ (Removed(k) \/ Missed(k)) /\ ~InSlabForm
<1> DEFINE l == RemBase.sml
           n == RemBase.elems
           p == SmallPos(l, k)
           found == SmallHas(l, k)
<1>0. l \in Seq(Elem) /\ n \in Nat /\ IInv /\ RemBase.slabs = <<>>
  BY RemBaseSmall DEF RemSmall, SInv
<1>1. /\ slabs' = <<>>
      /\ sml' = IF found THEN RemoveAt(l, p) ELSE l
      /\ sl_elems' = IF found THEN n - 1 ELSE n
      /\ ret' = Result(IF l = <<>> THEN "EMPTY" ELSE IF found THEN "SUCCESS" ELSE "ENFOUND")
  BY DEF RemSmall
<1>2. IInv'
  BY <1>0, RemSmallIInv
<1>3. /\ Rises(l) /\ ToSet(l) = Stored /\ HasAtMost(Stored, n)
      /\ Careful => HasExactly(Stored, n) /\ n <= SMELEM_MAX
  BY <1>0, RemBaseKeeps
<1>4. ~InSlabForm
  BY <1>0 DEF InSlabForm
<1>5. Filed(slabs', Careful) /\ Stored' = ToSet(sml')
  BY <1>1, StoredIs, NoSlabsFiled
<1> HIDE DEF l, n
<1>6. CASE found
  <2>1. p \in 1 .. Len(l)
    BY <1>0, <1>3, <1>6, SmallPosFacts
  <2>2. l[p].key = k
    BY <1>0, <1>3, <1>6, SmallPosFacts
  <2>3. l[p] \in Stored
    BY <1>0, <1>3, <2>1, NodeMember
  <2>4. Rises(RemoveAt(l, p))
    <3> HIDE DEF p
    <3> QED
      BY <1>0, <1>3, <2>1, RemovedRises
  <2>5. ToSet(RemoveAt(l, p)) = Stored \ {l[p]}
    <3> HIDE DEF p
    <3> QED
      BY <1>0, <1>3, <2>1, RemovedRises
  <2>6. l # <<>>
    BY <1>3, <2>3, NoNodes
  <2> HIDE DEF p
  <2>7. /\ Rises(sml') /\ Stored' = Stored \ {l[p]} /\ sl_elems' = n - 1
        /\ ret' = Result("SUCCESS")
    BY <1>1, <1>5, <1>6, <2>4, <2>5, <2>6
  <2>8. HasAtMost(Stored', sl_elems')
    BY <1>0, <1>3, <2>3, <2>7, FewerCounted
  <2>9. Careful => HasExactly(Stored', sl_elems')
    BY <1>0, <1>3, <2>3, <2>7, FewerCounted
  <2>10. Careful => sl_elems' <= SMELEM_MAX
    BY <1>0, <1>3, <2>7, Sizes
  <2>11. SInv'
    BY <1>2, <1>5, <2>7, <2>8, <2>9, <2>10 DEF SInv, CountInv
  <2>12. Removed(k)
    BY <1>4, <2>2, <2>3, <2>7 DEF Removed, Result
  <2> QED
    BY <1>4, <2>11, <2>12
<1>7. CASE ~found
  <2>1. sml' = l /\ sl_elems' = n
    BY <1>1, <1>7
  <2>2. Stored' = Stored /\ Rises(sml')
    BY <1>3, <1>5, <2>1
  <2>3. SInv'
    BY <1>2, <1>3, <1>5, <2>1, <2>2 DEF SInv, CountInv
  <2>4. \A y \in Stored : y.key # k
    BY <1>0, <1>3, <1>7, NodeMember, Nodes DEF SmallHas
  <2>5. ret'.st \in {"ENFOUND"} \cup (IF Stored = {} THEN {"EMPTY"} ELSE {})
    <3>1. l = <<>> => Stored = {}
      BY <1>3, NoNodes
    <3>2. ret'.st = IF l = <<>> THEN "EMPTY" ELSE "ENFOUND"
      BY <1>1, <1>7 DEF Result
    <3> QED
      BY <3>1, <3>2
  <2> QED
    BY <1>4, <2>2, <2>3, <2>4, <2>5 DEF Missed
<1> QED
  BY <1>6, <1>7

\* The list is in slab form when a removal works on slabs.
LEMMA SlabFormWhenRemoved ==
    ASSUME SInv, InSlabForm
    PROVE  slabs # <<>> /\ sl_elems > SMELEM_MAX
<1>1. RemBase.slabs # <<>>
  BY DEF InSlabForm
<1>2. ~(slabs # <<>> /\ sl_elems = SMELEM_MAX) /\ slabs # <<>>
  BY <1>1 DEF RemBase
<1> QED
  BY <1>2, Sizes DEF SInv, IInv, TypeOK, FormInv

LEMMA RemSlabSInv ==
    ASSUME SInv, NEW k \in Nat, RemSlab(k)
    PROVE  SInv' /\ Removed(k)
<1> DEFINE a == RemSlabAt(k)
           i == RemIndexAt(k)
           s == slabs[a]
           dent == Put(slabs, a, remove_elem(i, s))
<1>0. IInv /\ slabs # <<>> /\ sl_elems \in Nat /\ sl_elems > SMELEM_MAX
  BY SlabFormWhenRemoved DEF SInv, IInv, TypeOK, RemSlab
<1>1. IInv'
  BY <1>0, RemSlabIInv
<1>2. /\ Filed(slabs, Careful) /\ Len(slabs) > 0 /\ Stored = Stock(slabs)
      /\ sml = <<>>
  BY <1>0, SlabForm
<1>3. slabs \in Seq(Slab) /\ Chain(slabs)
  BY <1>0 DEF IInv, TypeOK
<1>4. a \in 1 .. Len(slabs) /\ s \in Slab
  BY <1>2, <1>3, find_linear_scanRange, SlabAt DEF RemSlabAt
<1>5. i # s.s_elems
  BY DEF RemSlab, RemReadsDeadSlot
<1>6. i \in 0 .. s.s_elems - 1 /\ s.s_arr[i] \in Stored
  BY <1>2, <1>5, SearchHits DEF RemSlabAt, RemIndexAt
<1>7. /\ slabs' = try_reap(slab_generic_rem(dent, a), sl_elems, sl_mslabs, sl_mpslabs)
      /\ sl_elems' = sl_elems - 1
      /\ ret' = [st |-> "SUCCESS", rcb |-> {s.s_arr[i]}]
      /\ sml' = sml /\ s.s_arr[i].key = k
  BY DEF RemSlab, RemHits, Put
<1> HIDE DEF a, i
<1>8. Dented(dent, a)
  <2>1. remove_elem(i, s) \in Slab /\ remove_elem(i, s).s_elems = s.s_elems - 1
    BY <1>4, <1>6, remove_elemIsSlab
  <2> QED
    BY <1>3, <1>4, <2>1, DentedChain
<1>9. Filed(dent, Careful)
  BY <1>2, <1>4, <1>6, RemovedFiled
<1>10. Stock(dent) = Stored \ {s.s_arr[i]}
  BY <1>2, <1>4, <1>6, RemovedFiled
<1> HIDE DEF dent, s
<1>11. Kept(slabs', dent, Careful)
  <2>1. Kept(slab_generic_rem(dent, a), dent, Careful)
    BY <1>8, <1>9, slab_generic_remKept
  <2>2. Filed(slab_generic_rem(dent, a), Careful)
    BY <2>1 DEF Kept
  <2>3. Kept(slabs', slab_generic_rem(dent, a), Careful)
    BY <1>7, <2>2, try_reapKept
  <2> QED
    BY <2>1, <2>3, KeptTwice
<1>12. Filed(slabs', Careful) /\ Stored' = Stored \ {s.s_arr[i]}
  BY <1>2, <1>7, <1>10, <1>11, StoredIs, NoNodes DEF Kept
<1>13. Rises(sml')
  BY <1>2, <1>7, NoNodes
<1>14. HasAtMost(Stored', sl_elems')
  BY <1>0, <1>6, <1>7, <1>12, FewerCounted DEF SInv, CountInv
<1>15. Careful => HasExactly(Stored', sl_elems')
  BY <1>0, <1>6, <1>7, <1>12, FewerCounted DEF SInv, CountInv
<1>16. Careful => slabs' # <<>>
  <2> SUFFICES ASSUME Careful, slabs' = <<>> PROVE FALSE
    OBVIOUS
  <2>1. Stored' = {}
    BY <1>2, <1>7, StoredIs, NoNodes, NoSlabsFiled
  <2>2. Cardinality({}) = sl_elems'
    BY <1>15, <2>1 DEF HasExactly
  <2>3. sl_elems' = 0
    BY <2>2, FS_EmptySet
  <2> QED
    BY <1>0, <1>7, <2>3, Sizes
<1>17. SInv'
  BY <1>1, <1>12, <1>13, <1>14, <1>15, <1>16 DEF SInv, CountInv, IS_SMALL_LIST
<1>18. Removed(k)
  BY <1>6, <1>7, <1>12 DEF Removed
<1> QED
  BY <1>17, <1>18

LEMMA RemAbsentSInv ==
    ASSUME SInv, NEW k \in Nat, RemAbsent(k)
    PROVE  SInv' /\ Missed(k)
<1>0. IInv /\ slabs # <<>>
  BY SlabFormWhenRemoved DEF SInv, RemAbsent
<1>1. IInv'
  BY <1>0, RemAbsentIInv
<1>2. /\ Filed(slabs, Careful) /\ Len(slabs) > 0 /\ Stored = Stock(slabs)
      /\ \A j \in 1 .. Len(slabs) : slabs[j].s_elems > 0
  BY <1>0, SlabForm
<1>3. UNCHANGED <<sml, slabs, sl_elems>> /\ ret' = Result("ENFOUND") /\ ~RemHits(k)
  BY DEF RemAbsent
<1>4. Stored' = Stored
  BY <1>3, StoredIs
<1>5. SInv'
  BY <1>1, <1>2, <1>3, <1>4, SameSInv
<1>6. \A y \in Stored : y.key # k
  <2> SUFFICES ASSUME NEW y \in Stored, y.key = k PROVE FALSE
    OBVIOUS
  <2>1. /\ RemIndexAt(k) \in 0 .. slabs[RemSlabAt(k)].s_elems - 1
        /\ y = slabs[RemSlabAt(k)].s_arr[RemIndexAt(k)]
    BY <1>2, SearchFinds DEF RemSlabAt, RemIndexAt
  <2>2. slabs[RemSlabAt(k)] \in Slab
    BY <1>2, find_linear_scanRange, FiledFacts DEF RemSlabAt
  <2>3. RemIndexAt(k) \in Index
    BY <2>1, <2>2, SlabFacts
  <2> QED
    BY <1>3, <2>1, <2>3 DEF RemHits
<1>7. Missed(k)
  BY <1>3, <1>4, <1>6 DEF Missed, Result
<1> QED
  BY <1>5, <1>7

LEMMA CrashSInv ==
    ASSUME SInv, Crash
    PROVE  SInv' /\ Stored' = Stored
<1>1. UNCHANGED <<sml, slabs, sl_elems>> /\ IInv' /\ Filed(slabs, Careful)
  BY CrashIInv DEF SInv, Crash
<1>2. Stored' = Stored
  BY <1>1, StoredIs
<1> QED
  BY <1>1, <1>2, SameSInv

LEMMA ReapSInv ==
    ASSUME SInv, Reap
    PROVE  SInv' /\ Stored' = Stored
<1>0. IInv /\ IInv' /\ slabs \in Seq(Slab) /\ Chain(slabs) /\ Filed(slabs, Careful)
  BY ReapIInv DEF SInv, IInv, TypeOK
<1>1. UNCHANGED <<sml, sl_elems>>
  BY DEF Reap
<1>2. CASE slabs = <<>>
  <2>1. slabs' = slabs
    BY <1>2 DEF Reap, IS_SMALL_LIST
  <2>2. Stored' = Stored
    BY <1>1, <2>1, StoredIs
  <2> QED
    BY <1>0, <1>1, <2>1, <2>2, SameSInv
<1>3. CASE slabs # <<>>
  <2>1. slabs' = slablist_reap(slabs) /\ Len(slabs) > 0
    BY <1>3, SlabForm DEF Reap, IS_SMALL_LIST
  <2>2. slabs' # <<>>
    <3>1. Len(slabs') > 0
      BY <1>0, <2>1, slablist_reapChain
    <3> QED
      BY <3>1, EmptySeq
  <2>3. Filed(slabs', Careful) /\ Stock(slabs') = Stock(slabs)
    BY <1>0, <2>1, slablist_reapKept DEF Kept
  <2>4. Stored' = Stored
    BY <1>1, <2>3, StoredIs
  <2> QED
    BY <1>0, <1>1, <1>3, <2>2, <2>3, <2>4, SameSInv
<1> QED
  BY <1>2, <1>3

LEMMA SetReapSInv ==
    ASSUME SInv, NEW n \in Nat,
           slablist_set_reap_slabs(n) \/ slablist_set_reap_pslabs(n)
    PROVE  SInv' /\ Stored' = Stored
<1>1. UNCHANGED <<sml, slabs, sl_elems>> /\ IInv' /\ Filed(slabs, Careful)
  BY SetReapIInv DEF SInv, slablist_set_reap_slabs, slablist_set_reap_pslabs
<1>2. Stored' = Stored
  BY <1>1, StoredIs
<1> QED
  BY <1>1, <1>2, SameSInv

LEMMA AddSInv ==
    ASSUME SInv, NEW e \in Elem, NEW rep \in Reps, Add(e, rep)
    PROVE  SInv' /\ (rep = 0 => Refused(e) \/ Took(e) \/ Crash)
BY AddSmallSInv, AddSlabSInv, CrashSInv DEF Add, AddMisread

LEMMA RemSInv ==
    ASSUME SInv, NEW k \in Key, Rem(k)
    PROVE  SInv' /\ (Removed(k) \/ Missed(k) \/ Crash)
<1>1. k \in Nat
  BY ElemAssumption
<1> QED
  BY <1>1, RemSmallSInv, RemSlabSInv, RemAbsentSInv, CrashSInv DEF Rem, RemDead

LEMMA NextSInv == SInv /\ [Next]_vars => SInv'
<1> SUFFICES ASSUME SInv, [Next]_vars PROVE SInv'
  OBVIOUS
<1>1. ASSUME NEW e \in Elem, NEW rep \in Reps, Add(e, rep) PROVE SInv'
  BY <1>1, AddSInv
<1>2. ASSUME NEW k \in Key, Rem(k) PROVE SInv'
  BY <1>2, RemSInv
<1>3. ASSUME Reap PROVE SInv'
  BY <1>3, ReapSInv
<1>4. ASSUME NEW n \in ReapSlabs, slablist_set_reap_slabs(n) PROVE SInv'
  BY <1>4, ClientAssumption, SetReapSInv
<1>5. ASSUME NEW n \in ReapPslabs, slablist_set_reap_pslabs(n) PROVE SInv'
  BY <1>5, ClientAssumption, SetReapSInv
<1>6. ASSUME UNCHANGED vars PROVE SInv'
  <2>1. UNCHANGED <<sml, slabs, sl_elems>>
    BY <1>6 DEF vars
  <2>2. IInv' /\ Filed(slabs', Careful)
    BY <1>6, <2>1, NextIInv DEF SInv
  <2>3. Stored' = Stored
    BY <2>1, StoredIs
  <2> QED
    BY <2>1, <2>2, <2>3, SameSInv
<1> QED
  BY <1>1, <1>2, <1>3, <1>4, <1>5, <1>6 DEF Next

LEMMA SInvariance == Spec => []SInv
BY InitSInv, NextSInv, PTL DEF Spec

-----------------------------------------------------------------------------
(* For every client *)

\* Whatever is spilled, merged, reaped, replaced or moved from one form to the
\* other, keys rise strictly along the list.
THEOREM StaysSorted == Spec => []Sorted
<1>1. SInv => Sorted
  <2> SUFFICES ASSUME SInv PROVE Sorted
    OBVIOUS
  <2>1. sml \in Seq(Elem) /\ Rises(sml) /\ slabs \in Seq(Slab) /\ Filed(slabs, Careful)
    BY DEF SInv, IInv, TypeOK
  <2>2. ASSUME NEW p \in DOMAIN sml, NEW q \in DOMAIN sml, p < q
        PROVE  sml[p].key < sml[q].key
    BY <2>1, <2>2, Nodes DEF Rises
  <2>3. ASSUME NEW a \in DOMAIN slabs, NEW b \in DOMAIN slabs,
               NEW i \in 0 .. slabs[a].s_elems - 1, NEW j \in 0 .. slabs[b].s_elems - 1,
               a < b \/ (a = b /\ i < j)
        PROVE  slabs[a].s_arr[i].key < slabs[b].s_arr[j].key
    <3>1. a \in 1 .. Len(slabs) /\ b \in 1 .. Len(slabs)
      BY <2>1, SlabAt
    <3>2. CASE a < b
      <4>1. Below(ElemsOf(slabs[a]), ElemsOf(slabs[b]))
        BY <2>1, <3>1, <3>2 DEF Filed
      <4>2. slabs[a].s_arr[i] \in ElemsOf(slabs[a]) /\ slabs[b].s_arr[j] \in ElemsOf(slabs[b])
        BY Member
      <4> QED
        BY <4>1, <4>2 DEF Below
    <3>3. CASE a = b /\ i < j
      <4>1. Rising(slabs[a])
        BY <2>1, <3>1 DEF Filed, Good
      <4> QED
        BY <3>3, <4>1 DEF Rising
    <3> QED
      BY <2>3, <3>2, <3>3
  <2> QED
    BY <2>2, <2>3 DEF Sorted
<1> QED
  BY <1>1, SInvariance, PTL

\* Whatever clients do, the counter never falls behind the elements, and a list
\* in slab form that is about to be made small is a single slab: copying the
\* head slab copies the list.
THEOREM CountIsNeverLow == Spec => []CountNeverLow
<1>1. SInv => CountNeverLow
  <2> SUFFICES ASSUME SInv PROVE CountNeverLow
    OBVIOUS
  <2>1. /\ HasAtMost(Stored, sl_elems) /\ sl_elems \in Nat
        /\ slabs # <<>> => sl_elems >= SMELEM_MAX
    BY DEF SInv, CountInv, IInv, TypeOK, FormInv
  <2>2. sl_elems >= Cardinality(Stored) /\ IsFiniteSet(Stored) /\ Cardinality(Stored) \in Nat
    BY <2>1, FS_CardinalityType DEF HasAtMost
  <2>3. ASSUME slabs # <<>>, sl_elems = SMELEM_MAX PROVE Len(slabs) = 1
    <3>1. Filed(slabs, Careful) /\ Len(slabs) > 0 /\ Packed(slabs) /\ Stored = Stock(slabs)
      BY <2>3, SlabForm
    <3>2. HasAtMost(Stock(slabs), SELEM_MAX)
      BY <2>2, <2>3, <3>1, Sizes DEF HasAtMost
    <3> QED
      BY <3>1, <3>2, FewElemsOneSlab
  <2> QED
    BY <2>1, <2>2, <2>3 DEF CountNeverLow, IS_SMALL_LIST
<1> QED
  BY <1>1, SInvariance, PTL

\* A removal from slabs hands the callback the one element it takes out, and
\* takes out no other, whatever it merges, reaps or unlinks.
THEOREM CallbackIsExact == Spec => CallbackGetsRemoved
<1> DEFINE A == InSlabForm /\ sl_elems' < sl_elems =>
                    Stored' \subseteq Stored /\ ret'.rcb = Stored \ Stored'
<1>1. SInv /\ [Next]_vars => [A]_vars
  <2> SUFFICES ASSUME SInv, Next, InSlabForm, sl_elems' < sl_elems
               PROVE  Stored' \subseteq Stored /\ ret'.rcb = Stored \ Stored'
    OBVIOUS
  <2>0. sl_elems \in Nat
    BY DEF SInv, IInv, TypeOK
  <2>1. ASSUME NEW e \in Elem, NEW rep \in Reps, Add(e, rep) PROVE FALSE
    BY <2>0, <2>1 DEF Add, AddSmall, AddSlab, AddMisread, Crash
  <2>2. ASSUME NEW k \in Key, Rem(k)
        PROVE  Stored' \subseteq Stored /\ ret'.rcb = Stored \ Stored'
    <3>1. k \in Nat
      BY ElemAssumption
    <3>2. ~RemSmall(k)
      BY <3>1, RemSmallSInv
    <3>3. ~RemAbsent(k) /\ ~RemDead(k)
      BY <2>0 DEF RemAbsent, RemDead, Crash
    <3>4. Removed(k)
      BY <2>2, <3>1, <3>2, <3>3, RemSlabSInv DEF Rem
    <3>5. PICK y \in Stored : Stored' = Stored \ {y} /\ ret'.rcb = {y}
      BY <3>4 DEF Removed
    <3> QED
      BY <3>5
  <2>3. ASSUME \/ Reap
               \/ \E n \in ReapSlabs : slablist_set_reap_slabs(n)
               \/ \E n \in ReapPslabs : slablist_set_reap_pslabs(n)
        PROVE  FALSE
    BY <2>0, <2>3 DEF Reap, slablist_set_reap_slabs, slablist_set_reap_pslabs
  <2> QED
    BY <2>1, <2>2, <2>3 DEF Next
<1> QED
  BY <1>1, SInvariance, PTL DEF Spec, CallbackGetsRemoved

-----------------------------------------------------------------------------
(* For careful clients *)

\* If no addition may replace an element, the cached extrema of every slab are
\* its first and last element: searches and reads look at nothing else.
THEOREM ExtremaStayExact ==
    ASSUME Careful
    PROVE  Spec => []ExtremaExact
<1>1. SInv => ExtremaExact
  <2> SUFFICES ASSUME SInv, NEW a \in DOMAIN slabs
               PROVE  /\ slabs[a].s_elems > 0
                      /\ slabs[a].s_min = slabs[a].s_arr[0]
                      /\ slabs[a].s_max = slabs[a].s_arr[slabs[a].s_elems - 1]
    BY DEF ExtremaExact
  <2>1. slabs \in Seq(Slab) /\ Chain(slabs) /\ Filed(slabs, Careful)
    BY DEF SInv, IInv, TypeOK
  <2>2. a \in 1 .. Len(slabs)
    BY <2>1, SlabAt
  <2>3. slabs[a].s_elems > 0 /\ Capped(slabs[a], Careful)
    BY <2>1, <2>2 DEF Chain, Filed, Good
  <2> QED
    BY <2>3 DEF Capped, StandsFor
<1> QED
  BY <1>1, SInvariance, PTL

\* If no addition may replace an element, the counter is the number of elements.
THEOREM CountStaysExact ==
    ASSUME Careful
    PROVE  Spec => []CountExact
<1>1. SInv => CountExact
  BY DEF SInv, CountInv, HasExactly, CountExact
<1> QED
  BY <1>1, SInvariance, PTL

\* If no addition may replace an element, the form of the list is what its
\* count prescribes, and moving it to the small form loses nothing.
THEOREM ConversionsLoseNothing ==
    ASSUME Careful
    PROVE  Spec => []ConversionLossless
<1>1. SInv /\ CountNeverLow => ConversionLossless
  BY DEF SInv, CountInv, CountNeverLow, ConversionLossless
<1> QED
  BY <1>1, SInvariance, CountIsNeverLow, PTL

\* What a lookup in a small list finds.
LEMMA SmallReads ==
    ASSUME SInv, slabs = <<>>
    PROVE  /\ \A k \in Key : slablist_find(k) = {y \in Stored : y.key = k}
           /\ Stored # {} => /\ slablist_head \in Stored
                             /\ \A y \in Stored : slablist_head.key <= y.key
                             /\ slablist_end \in Stored
                             /\ \A y \in Stored : y.key <= slablist_end.key
<1> DEFINE n == Len(sml)
<1>0. /\ sml \in Seq(Elem) /\ Rises(sml) /\ Stored = ToSet(sml)
      /\ n \in Nat /\ DOMAIN sml = 1 .. n /\ \A p \in 1 .. n : sml[p].key \in Nat
  BY StoredForms, Nodes DEF SInv, IInv, TypeOK, IS_SMALL_LIST
<1>1. \A z : z \in Stored <=> \E p \in 1 .. n : z = sml[p]
  BY <1>0, NodeMember
<1>2. ASSUME NEW k \in Key PROVE slablist_find(k) = {y \in Stored : y.key = k}
  <2>1. slablist_find(k) = {sml[p] : p \in {q \in 1 .. n : sml[q].key = k}}
    BY <1>0 DEF slablist_find, IS_SMALL_LIST
  <2> QED
    BY <1>1, <2>1
<1>3. ASSUME Stored # {}
      PROVE  /\ sml[1] \in Stored /\ \A y \in Stored : sml[1].key <= y.key
             /\ sml[n] \in Stored /\ \A y \in Stored : y.key <= sml[n].key
  <2>1. PICK p \in 1 .. n : TRUE
    BY <1>1, <1>3
  <2> HIDE DEF n
  <2>2. 1 \in 1 .. n /\ n \in 1 .. n
    BY <1>0, <2>1
  <2>3. \A q \in 1 .. n : sml[1].key <= sml[q].key /\ sml[q].key <= sml[n].key
    <3> SUFFICES ASSUME NEW q \in 1 .. n
                 PROVE  sml[1].key <= sml[q].key /\ sml[q].key <= sml[n].key
      OBVIOUS
    <3>1. \A i, j \in 1 .. n : i < j => sml[i].key < sml[j].key
      BY <1>0 DEF Rises, n
    <3>2. 1 = q \/ sml[1].key < sml[q].key
      BY <1>0, <2>2, <3>1
    <3>3. q = n \/ sml[q].key < sml[n].key
      BY <1>0, <2>2, <3>1
    <3> QED
      BY <1>0, <2>2, <3>2, <3>3
  <2> QED
    BY <1>1, <2>2, <2>3
<1>4. slablist_head = sml[1] /\ slablist_end = sml[n]
  BY DEF slablist_head, slablist_end, IS_SMALL_LIST
<1> QED
  BY <1>2, <1>3, <1>4

\* What a lookup in slabs finds: the slot at which the search ends, unless it
\* is dead or holds another key.
LEMMA SlabFinds ==
    ASSUME SInv, slabs # <<>>, NEW k \in Key
    PROVE  slablist_find(k) = {y \in Stored : y.key = k}
<1> DEFINE s == slabs[find_linear_scan(slabs, k)]
           i == slab_bin_srch(k, s)
           hit == i # s.s_elems /\ s.s_arr[i].key = k
<1>0. k \in Nat
  BY ElemAssumption
<1>1. /\ Filed(slabs, Careful) /\ Len(slabs) > 0 /\ Stored = Stock(slabs)
      /\ \A j \in 1 .. Len(slabs) : slabs[j].s_elems > 0
  BY SlabForm
<1>2. slablist_find(k) = IF hit THEN {s.s_arr[i]} ELSE {}
  BY DEF slablist_find, IS_SMALL_LIST
<1>3. i # s.s_elems => s.s_arr[i] \in Stored
  BY <1>0, <1>1, SearchHits
<1>4. ASSUME NEW y \in Stored, y.key = k PROVE y = s.s_arr[i] /\ hit
  <2>1. i \in 0 .. s.s_elems - 1 /\ y = s.s_arr[i]
    BY <1>0, <1>1, <1>4, SearchFinds
  <2>2. s.s_elems \in Nat
    <3>1. find_linear_scan(slabs, k) \in 1 .. Len(slabs)
      BY <1>1, find_linear_scanRange, FiledFacts
    <3> QED
      BY <1>1, <3>1, FiledFacts
  <2> QED
    BY <1>4, <2>1, <2>2
<1> HIDE DEF s, i
<1> QED
  BY <1>2, <1>3, <1>4

\* The first and the last element of a chain whose extrema are exact.
LEMMA SlabEnds ==
    ASSUME SInv, slabs # <<>>, Careful
    PROVE  /\ slablist_head \in Stored
           /\ \A y \in Stored : slablist_head.key <= y.key
           /\ slablist_end \in Stored
           /\ \A y \in Stored : y.key <= slablist_end.key
<1> DEFINE n == Len(slabs)
           h == slabs[1].s_min
           z == slabs[n].s_max
<1>1. /\ Filed(slabs, Careful) /\ n > 0 /\ Stored = Stock(slabs) /\ slabs \in Seq(Slab)
      /\ n \in Nat
      /\ \A j \in 1 .. n : slabs[j].s_elems > 0
  BY SlabForm, FiledFacts
<1>2. slablist_head = h /\ slablist_end = z
  BY DEF slablist_head, slablist_end, IS_SMALL_LIST
<1>3. \A w : w \in Stored <=> \E a \in 1 .. n : w \in ElemsOf(slabs[a])
  BY <1>1, StockMember
<1> HIDE DEF n
<1>4. 1 \in 1 .. n /\ n \in 1 .. n
  BY <1>1
<1>5. ASSUME NEW a \in 1 .. n
      PROVE  /\ slabs[a].s_min \in ElemsOf(slabs[a]) /\ slabs[a].s_max \in ElemsOf(slabs[a])
             /\ \A y \in ElemsOf(slabs[a]) :
                    /\ y.key \in Nat
                    /\ slabs[a].s_min.key <= y.key /\ y.key <= slabs[a].s_max.key
  <2>1. Good(slabs[a], Careful) /\ slabs[a].s_elems > 0
    BY <1>1 DEF Filed, n
  <2>2. /\ slabs[a].s_min = slabs[a].s_arr[0]
        /\ slabs[a].s_max = slabs[a].s_arr[slabs[a].s_elems - 1]
    BY <2>1 DEF Good, Capped, StandsFor
  <2> QED
    BY <2>1, <2>2, CappedBounds
<1>6. \A a, b \in 1 .. n : a < b => Below(ElemsOf(slabs[a]), ElemsOf(slabs[b]))
  BY <1>1 DEF Filed, n
<1>7. h \in Stored /\ z \in Stored
  BY <1>3, <1>4, <1>5
<1>8. ASSUME NEW y \in Stored PROVE h.key <= y.key /\ y.key <= z.key
  <2>1. PICK a \in 1 .. n : y \in ElemsOf(slabs[a])
    BY <1>3
  <2>2. h.key \in Nat /\ z.key \in Nat /\ y.key \in Nat
    BY <1>4, <1>5, <2>1
  <2>3. a = 1 \/ h.key < y.key
    BY <1>1, <1>4, <1>5, <1>6, <2>1 DEF Below
  <2>4. a = n \/ y.key < z.key
    BY <1>1, <1>4, <1>5, <1>6, <2>1 DEF Below
  <2> QED
    BY <1>4, <1>5, <2>1, <2>2, <2>3, <2>4
<1> QED
  BY <1>2, <1>7, <1>8

\* If no addition may replace an element, slablist_find finds exactly what is
\* stored, and slablist_head and slablist_end are the ends of the list.
THEOREM ReadsStayExact ==
    ASSUME Careful
    PROVE  Spec => []ReadsExact
<1>1. SInv => ReadsExact
  <2> SUFFICES ASSUME SInv PROVE ReadsExact
    OBVIOUS
  <2>1. CASE slabs = <<>>
    BY <2>1, SmallReads DEF ReadsExact
  <2>2. CASE slabs # <<>>
    BY <2>2, SlabFinds, SlabEnds DEF ReadsExact
  <2> QED
    BY <2>1, <2>2
<1> QED
  BY <1>1, SInvariance, PTL

-----------------------------------------------------------------------------
(* What could crash *)

\* The counter tells when a list without slabs is a small list.
LEMMA NotMisread ==
    ASSUME SInv, Careful
    PROVE  ~AddMisread
<1> SUFFICES ASSUME slabs = <<>>, sl_elems >= SMELEM_MAX, ~SmallListFull PROVE FALSE
  BY DEF AddMisread, IS_SMALL_LIST
<1>1. sl_elems \in Nat /\ sl_elems <= SMELEM_MAX /\ HasExactly(Stored, sl_elems) /\ IInv
  BY DEF SInv, CountInv, IInv, TypeOK, IS_SMALL_LIST
<1>2. sl_elems = SMELEM_MAX /\ sml = <<>>
  BY <1>1, Sizes DEF SmallListFull
<1>3. Stored = {}
  BY <1>2, StoredIs, NoNodes, NoSlabsFiled
<1>4. Cardinality({}) = sl_elems
  BY <1>1, <1>3 DEF HasExactly
<1> QED
  BY <1>2, <1>4, Sizes, FS_EmptySet

\* A search ends at a dead slot only for a key above all others.
LEMMA DeadSlotIsPastEnd ==
    ASSUME SInv, NEW k \in Nat, InSlabForm, RemReadsDeadSlot(k)
    PROVE  PastEnd(k)
<1> DEFINE a == find_linear_scan(slabs, k)
           s == slabs[a]
           n == Len(slabs)
<1>1. /\ Filed(slabs, Careful) /\ Len(slabs) > 0 /\ Stored = Stock(slabs)
      /\ slabs \in Seq(Slab) /\ n \in Nat
      /\ \A j \in 1 .. n : slabs[j].s_elems > 0
  BY SlabFormWhenRemoved, SlabForm, FiledFacts
<1>2. a \in 1 .. n
  BY <1>1, find_linear_scanFacts
<1>3. \A j \in 1 .. n : j < a => slabs[j].s_max.key < k
  BY <1>1, find_linear_scanFacts
<1>4. a = n \/ k <= s.s_max.key
  BY <1>1, find_linear_scanFacts
<1>5. slab_bin_srch(k, s) = s.s_elems
  BY DEF RemReadsDeadSlot, RemSlabAt, RemIndexAt
<1> HIDE DEF a, n
<1>6. /\ Good(s, Careful) /\ s \in Slab /\ Rising(s) /\ s.s_elems > 0
      /\ s.s_elems \in Nat
  BY <1>1, <1>2, FiledFacts DEF Good, n
<1>7. \A j \in 0 .. s.s_elems - 1 : s.s_arr[j].key < k
  BY <1>5, <1>6, slab_bin_srchFacts
<1>8. s.s_max.key < k
  <2>1. s.s_max.key = s.s_arr[s.s_elems - 1].key
    BY <1>6, CappedBounds
  <2>2. s.s_elems - 1 \in 0 .. s.s_elems - 1
    BY <1>6
  <2> QED
    BY <1>7, <2>1, <2>2
<1>9. a = n
  BY <1>4, <1>6, <1>8, SlabFacts
<1>10. ASSUME NEW y \in Stored PROVE y.key < k
  <2>1. PICK b \in 1 .. n : y \in ElemsOf(slabs[b])
    BY <1>1, StockMember DEF n
  <2>2. Good(slabs[b], Careful) /\ slabs[b] \in Slab /\ slabs[b].s_elems > 0
    BY <1>1, <2>1, FiledFacts DEF n
  <2>3. y.key \in Nat /\ y.key <= slabs[b].s_max.key /\ slabs[b].s_max.key \in Nat
    BY <2>1, <2>2, CappedBounds, SlabFacts
  <2>4. b = a \/ b < a
    BY <1>1, <1>9, <2>1
  <2>5. slabs[b].s_max.key < k
    BY <1>3, <1>8, <2>1, <2>4
  <2> QED
    BY <2>3, <2>5
<1> QED
  BY <1>10 DEF PastEnd

\* Clients who neither replace elements nor remove keys above every key in the
\* list never run into undefined behaviour.
THEOREM NeverRunsIntoUndefined ==
    ASSUME Careful, ~RemPastEnd
    PROVE  Spec => []NeverCrashes
<1>1. Init => NeverCrashes
  BY DEF Init, NeverCrashes
<1>2. SInv /\ NeverCrashes /\ [Next]_vars => NeverCrashes'
  <2> SUFFICES ASSUME SInv, [Next]_vars PROVE crashed' = crashed
    BY DEF NeverCrashes
  <2>1. ASSUME NEW e \in Elem, NEW rep \in Reps, Add(e, rep) PROVE crashed' = crashed
    BY <2>1, NotMisread DEF Add, AddSmall, AddSlab
  <2>2. ASSUME NEW k \in Key, Rem(k) PROVE crashed' = crashed
    <3>1. k \in Nat /\ ~PastEnd(k)
      BY <2>2, ElemAssumption DEF Rem
    <3>2. ~RemDead(k)
      BY <3>1, DeadSlotIsPastEnd DEF RemDead
    <3> QED
      BY <2>2, <3>2 DEF Rem, RemSmall, RemSlab, RemAbsent
  <2>3. ASSUME \/ Reap
               \/ \E n \in ReapSlabs : slablist_set_reap_slabs(n)
               \/ \E n \in ReapPslabs : slablist_set_reap_pslabs(n)
        PROVE  crashed' = crashed
    BY <2>3 DEF Reap, slablist_set_reap_slabs, slablist_set_reap_pslabs
  <2>4. ASSUME UNCHANGED vars PROVE crashed' = crashed
    BY <2>4 DEF vars
  <2> QED
    BY <2>1, <2>2, <2>3, <2>4 DEF Next
<1> QED
  BY <1>1, <1>2, SInvariance, PTL DEF Spec

-----------------------------------------------------------------------------
(* The list is a set of elements with distinct keys *)

\* A lookup in the abstract set.
LEMMA WithKey ==
    ASSUME SInv
    PROVE  /\ \A k : Set!With(k) = {y \in Stored : y.key = k}
           /\ \A y \in Stored : Set!With(y.key) = {y}
BY KeysDiffer DEF Set!With

LEMMA RefusedMaps ==
    ASSUME SInv, NEW e \in Elem, 0 \in Reps, Refused(e)
    PROVE  Set!Next
<1>1. Set!With(e.key) # {}
  BY WithKey DEF Refused
<1>2. Stored' = Stored /\ ret'.st = "EDUP"
  BY DEF Refused, Result
<1>3. Set!AddAgain(e, 0)
  BY <1>1, <1>2 DEF Set!AddAgain
<1> QED
  BY <1>3 DEF Set!Next, Set!Elem, Elem

LEMMA TookMaps ==
    ASSUME SInv, NEW e \in Elem, 0 \in Reps, Took(e)
    PROVE  Set!Next
<1>1. Set!With(e.key) = {}
  BY WithKey DEF Took
<1>2. Stored' = Stored \cup {e} /\ ret'.st = "SUCCESS"
  BY DEF Took, Result
<1>3. Set!AddNew(e)
  BY <1>1, <1>2 DEF Set!AddNew
<1> QED
  BY <1>3 DEF Set!Next, Set!Elem, Elem

LEMMA RemovedMaps ==
    ASSUME SInv, NEW k \in Key, Removed(k)
    PROVE  Set!Next
<1>1. PICK y \in Stored : y.key = k /\ Stored' = Stored \ {y} /\ ret'.st = "SUCCESS"
  BY DEF Removed
<1>2. Set!With(k) = {y}
  BY <1>1, WithKey
<1>3. Set!Rem(k)
  BY <1>1, <1>2 DEF Set!Rem
<1> QED
  BY <1>3 DEF Set!Next

LEMMA MissedMaps ==
    ASSUME SInv, NEW k \in Key, Missed(k)
    PROVE  Set!Next
<1>1. Set!With(k) = {}
  BY WithKey DEF Missed
<1>2. Set!RemNothing(k)
  BY <1>1 DEF Set!RemNothing, Missed
<1> QED
  BY <1>2 DEF Set!Next

LEMMA SameMaps ==
    ASSUME Stored' = Stored, ret' = ret
    PROVE  UNCHANGED Set!vars
BY DEF Set!vars

\* If no addition may replace an element, the list implements the set of
\* KeyedSet: every call takes effect at once as an addition, a removal or a
\* refusal with its status, and changes of form, spilling, merging and reaping
\* are not to be seen.
THEOREM ListIsKeyedSet ==
    ASSUME Careful
    PROVE  Spec => ImplementsKeyedSet
<1>1. Init => Set!Init
  <2> SUFFICES ASSUME Init PROVE Set!Init
    OBVIOUS
  <2>1. Stored = {}
    BY StoredIs, NoNodes, NoSlabsFiled DEF Init
  <2> QED
    BY <2>1 DEF Init, Set!Init, Result
<1>2. SInv /\ [Next]_vars => [Set!Next]_(Set!vars)
  <2> SUFFICES ASSUME SInv, [Next]_vars PROVE Set!Next \/ UNCHANGED Set!vars
    OBVIOUS
  <2>0. ASSUME Crash PROVE UNCHANGED Set!vars
    BY <2>0, CrashSInv, SameMaps DEF Crash
  <2>1. ASSUME NEW e \in Elem, NEW rep \in Reps, Add(e, rep)
        PROVE  Set!Next \/ UNCHANGED Set!vars
    <3>1. rep = 0 /\ 0 \in Reps
      BY DEF Careful
    <3> QED
      BY <2>0, <2>1, <3>1, AddSInv, RefusedMaps, TookMaps
  <2>2. ASSUME NEW k \in Key, Rem(k) PROVE Set!Next \/ UNCHANGED Set!vars
    BY <2>0, <2>2, RemSInv, RemovedMaps, MissedMaps
  <2>3. ASSUME Reap PROVE UNCHANGED Set!vars
    BY <2>3, ReapSInv, SameMaps DEF Reap
  <2>4. ASSUME NEW n \in ReapSlabs, slablist_set_reap_slabs(n) PROVE UNCHANGED Set!vars
    BY <2>4, ClientAssumption, SetReapSInv, SameMaps DEF slablist_set_reap_slabs
  <2>5. ASSUME NEW n \in ReapPslabs, slablist_set_reap_pslabs(n) PROVE UNCHANGED Set!vars
    BY <2>5, ClientAssumption, SetReapSInv, SameMaps DEF slablist_set_reap_pslabs
  <2>6. ASSUME UNCHANGED vars PROVE UNCHANGED Set!vars
    BY <2>6, StoredIs, SameMaps DEF vars
  <2> QED
    BY <2>1, <2>2, <2>3, <2>4, <2>5, <2>6 DEF Next
<1> QED
  BY <1>1, <1>2, SInvariance, PTL DEF Spec, ImplementsKeyedSet, Set!Spec

\* If no addition may replace an element, an addition that is counted loses no
\* key that was there.
THEOREM AdditionsKeepKeys ==
    ASSUME Careful
    PROVE  Spec => AddKeepsKeys
<1> DEFINE A == sl_elems' > sl_elems =>
                    {x.key : x \in Stored} \subseteq {x.key : x \in Stored'}
<1>1. SInv /\ [Next]_vars => [A]_vars
  <2> SUFFICES ASSUME SInv, Next, sl_elems' > sl_elems
               PROVE  {x.key : x \in Stored} \subseteq {x.key : x \in Stored'}
    OBVIOUS
  <2>0. sl_elems \in Nat
    BY DEF SInv, IInv, TypeOK
  <2>1. ASSUME NEW e \in Elem, NEW rep \in Reps, Add(e, rep) PROVE Stored \subseteq Stored'
    <3>1. rep = 0
      BY DEF Careful
    <3> QED
      BY <2>1, <3>1, AddSInv, CrashSInv DEF Refused, Took
  <2>2. ASSUME NEW k \in Key, Rem(k) PROVE Stored \subseteq Stored'
    <3>1. k \in Nat
      BY ElemAssumption
    <3>2. Removed(k) \/ Missed(k) \/ Crash
      BY <2>2, RemSInv
    <3>3. ASSUME NEW y \in Stored, Stored' = Stored \ {y} PROVE FALSE
      <4>1. HasExactly(Stored, sl_elems) /\ HasExactly(Stored', sl_elems')
        BY <2>2, RemSInv DEF SInv, CountInv
      <4>2. HasExactly(Stored', sl_elems - 1)
        BY <2>0, <3>3, <4>1, FewerCounted
      <4> QED
        BY <2>0, <4>1, <4>2 DEF HasExactly
    <3> QED
      BY <3>2, <3>3, CrashSInv DEF Removed, Missed
  <2>3. ASSUME \/ Reap
               \/ \E n \in ReapSlabs : slablist_set_reap_slabs(n)
               \/ \E n \in ReapPslabs : slablist_set_reap_pslabs(n)
        PROVE  FALSE
    BY <2>0, <2>3 DEF Reap, slablist_set_reap_slabs, slablist_set_reap_pslabs
  <2> QED
    BY <2>1, <2>2, <2>3 DEF Next
<1> QED
  BY <1>1, SInvariance, PTL DEF Spec, AddKeepsKeys

=============================================================================
