---------------------------- MODULE SlabSortProofs ----------------------------
(***************************************************************************)
(* What a chain of slabs holds as a sequence, how an addition behind all   *)
(* equal keys lengthens it, and that the temporary list of slablist_sort   *)
(* puts every sequence of elements in order.                               *)
(*                                                                         *)
(* A chain lays out a sequence when there is, for every slab, an offset    *)
(* from which on the sequence continues with the elements of that slab.    *)
(***************************************************************************)
EXTENDS TempList, SlabOrderProofs, FiniteSetTheorems

\* `o[a]' counts the elements in the first `a' slabs.
Offsets(ls, o) ==
    /\ o \in [0 .. Len(ls) -> Nat]
    /\ o[0] = 0
    /\ \A a \in 1 .. Len(ls) : o[a] = o[a - 1] + ls[a].s_elems

\* After its first `k' elements, `c' continues with those of `s'.
Continues(c, k, s) == \A i \in 0 .. s.s_elems - 1 : c[(k + i) + 1] = s.s_arr[i]

\* The chain holds the elements of `c', in order.
Lays(ls, c, o) ==
    /\ Offsets(ls, o) /\ o[Len(ls)] = Len(c)
    /\ \A a \in 1 .. Len(ls) : Continues(c, o[a - 1], ls[a])

\* What is known of a chain that holds `c': its extrema are exact as long as
\* no list is reversed (x).
Holds(ls, c, x) ==
    /\ ls \in Seq(Slab) /\ c \in Seq(Elem)
    /\ \E o : Lays(ls, c, o)
    /\ x => \A a \in 1 .. Len(ls) : Capped(ls[a], TRUE)

-----------------------------------------------------------------------------
(* Offsets *)

LEMMA OffsetsRise ==
    ASSUME NEW ls \in Seq(Slab), NEW o, Offsets(ls, o),
           NEW a \in 0 .. Len(ls), NEW b \in 0 .. Len(ls), a <= b
    PROVE  o[a] <= o[b]
<1> DEFINE n == Len(ls)
           S == {k \in Nat : a <= k /\ k <= n => o[a] <= o[k]}
<1>0. /\ n \in Nat /\ \A k \in 0 .. n : o[k] \in Nat
      /\ \A k \in 1 .. n : ls[k].s_elems \in Nat
  BY SMTT(60), SlabAt DEF Offsets
<1>1. \A k \in 1 .. n : o[k] = o[k - 1] + ls[k].s_elems
  BY DEF Offsets
<1> HIDE DEF n
<1>2. 0 \in S
  BY <1>0
<1>3. ASSUME NEW k \in Nat, k \in S PROVE k + 1 \in S
  <2> SUFFICES ASSUME a <= k + 1, k + 1 <= n PROVE o[a] <= o[k + 1]
    OBVIOUS
  <2>1. CASE a = k + 1
    BY <1>0, <2>1
  <2>2. CASE a <= k
    <3>1. k \in 0 .. n /\ k + 1 \in 1 .. n /\ (k + 1) - 1 = k /\ k + 1 \in 0 .. n
      BY <1>0
    <3>2. o[a] <= o[k]
      BY <1>3, <2>2, <3>1
    <3>3. o[k + 1] = o[k] + ls[k + 1].s_elems
      BY <1>1, <3>1
    <3>4. o[a] \in Nat /\ o[k] \in Nat /\ o[k + 1] \in Nat /\ ls[k + 1].s_elems \in Nat
      BY <1>0, <3>1 DEF n
    <3> QED
      BY SMTT(60), <3>2, <3>3, <3>4
  <2> QED
    BY <1>0, <2>1, <2>2
<1> HIDE DEF S
<1>4. Nat \subseteq S
  BY <1>2, <1>3, SetInduction
<1>5. b \in Nat /\ b <= n
  BY DEF n
<1> QED
  BY <1>4, <1>5 DEF S

\* Facts about a layout in the form the proofs below use.
LEMMA LaysFacts ==
    ASSUME NEW ls \in Seq(Slab), NEW c \in Seq(Elem), NEW o, Lays(ls, c, o)
    PROVE  /\ Len(ls) \in Nat /\ Len(c) \in Nat /\ SELEM_MAX \in Nat /\ SELEM_MAX >= 2
           /\ o[0] = 0 /\ o[Len(ls)] = Len(c)
           /\ \A a \in 0 .. Len(ls) : o[a] \in Nat /\ o[a] <= Len(c)
           /\ \A a \in 1 .. Len(ls) :
                  /\ ls[a] \in Slab /\ ls[a].s_elems \in 0 .. SELEM_MAX
                  /\ a - 1 \in 0 .. Len(ls) /\ a \in 0 .. Len(ls)
                  /\ o[a] = o[a - 1] + ls[a].s_elems
           /\ \A a \in 1 .. Len(ls) : Continues(c, o[a - 1], ls[a])
<1>1. /\ Len(ls) \in Nat /\ Len(c) \in Nat /\ SELEM_MAX \in Nat /\ SELEM_MAX >= 2
      /\ \A a \in 1 .. Len(ls) : ls[a] \in Slab /\ ls[a].s_elems \in 0 .. SELEM_MAX
  BY SlabAt, LenProperties
<1>2. Offsets(ls, o) /\ o[Len(ls)] = Len(c)
  BY DEF Lays
<1>3. \A a \in 0 .. Len(ls) : o[a] \in Nat /\ o[a] <= Len(c)
  <2> SUFFICES ASSUME NEW a \in 0 .. Len(ls) PROVE o[a] \in Nat /\ o[a] <= Len(c)
    OBVIOUS
  <2>1. Len(ls) \in 0 .. Len(ls) /\ a <= Len(ls)
    BY <1>1
  <2>2. o[a] <= o[Len(ls)]
    BY <1>2, <2>1, OffsetsRise
  <2> QED
    BY <1>2, <2>2 DEF Offsets
<1>4. \A a \in 1 .. Len(ls) : a - 1 \in 0 .. Len(ls) /\ a \in 0 .. Len(ls)
  BY <1>1
<1> QED
  BY <1>1, <1>2, <1>3, <1>4 DEF Offsets, Lays

-----------------------------------------------------------------------------
(* The sequence that a chain lays out *)

\* The elements of a chain, one slab after the other.
Flat(ls) == FlattenSeq([a \in DOMAIN ls |-> Live(ls[a])])

LEMMA LiveIsSeq ==
    ASSUME NEW s \in Slab
    PROVE  /\ Live(s) \in Seq(Elem) /\ Len(Live(s)) = s.s_elems
           /\ \A p \in 1 .. s.s_elems : Live(s)[p] = s.s_arr[p - 1]
<1>1. s.s_elems \in Nat /\ \A j \in 0 .. s.s_elems - 1 : s.s_arr[j] \in Elem
  BY SlabParts, SlabSizeAssumption
<1>2. \A p \in 1 .. s.s_elems : s.s_arr[p - 1] \in Elem
  BY <1>1
<1>3. Live(s) \in [1 .. s.s_elems -> Elem]
  BY <1>2 DEF Live
<1>4. Live(s) \in Seq(Elem) /\ Len(Live(s)) = s.s_elems
  BY <1>1, <1>3, SeqDef, LenProperties
<1> QED
  BY <1>4 DEF Live

\* A slab continues the sequence where the slabs before it left off.
LEMMA PrefixGrows ==
    ASSUME NEW ls \in Seq(Slab), NEW c \in Seq(Elem), NEW o, Lays(ls, c, o),
           NEW a \in 1 .. Len(ls)
    PROVE  SubSeq(c, 1, o[a]) = SubSeq(c, 1, o[a - 1]) \o Live(ls[a])
<1> DEFINE k == o[a - 1]
           m == ls[a].s_elems
           u == SubSeq(c, 1, o[a])
           v == SubSeq(c, 1, k)
           w == Live(ls[a])
<1>0. /\ Len(c) \in Nat /\ k \in Nat /\ m \in Nat /\ o[a] = k + m
      /\ k <= Len(c) /\ o[a] <= Len(c)
      /\ \A i \in 0 .. m - 1 : c[(k + i) + 1] = ls[a].s_arr[i]
      /\ ls[a] \in Slab
  <2>1. /\ Len(c) \in Nat /\ a - 1 \in 0 .. Len(ls) /\ a \in 0 .. Len(ls)
        /\ ls[a] \in Slab /\ m \in 0 .. SELEM_MAX /\ SELEM_MAX \in Nat /\ o[a] = k + m
    BY LaysFacts
  <2>2. k \in Nat /\ k <= Len(c) /\ o[a] <= Len(c)
    BY <2>1, LaysFacts
  <2>3. Continues(c, k, ls[a])
    BY LaysFacts
  <2>4. \A i \in 0 .. m - 1 : c[(k + i) + 1] = ls[a].s_arr[i]
    BY <2>3 DEF Continues
  <2> QED
    BY <2>1, <2>2, <2>4
<1>1. \A i \in 1 .. Len(c) : c[i] \in Elem
  BY ElementOfSeq
<1>2. u \in Seq(Elem) /\ Len(u) = k + m /\ \A i \in 1 .. k + m : u[i] = c[i]
  BY <1>0, <1>1, SubSeqProperties
<1>3. v \in Seq(Elem) /\ Len(v) = k /\ \A i \in 1 .. k : v[i] = c[i]
  BY <1>0, <1>1, SubSeqProperties
<1>4. w \in Seq(Elem) /\ Len(w) = m /\ \A p \in 1 .. m : w[p] = ls[a].s_arr[p - 1]
  BY <1>0, LiveIsSeq
<1> HIDE DEF u, v, w, k, m
<1>5. /\ v \o w \in Seq(Elem) /\ Len(v \o w) = k + m
      /\ \A i \in 1 .. k + m : (v \o w)[i] = IF i <= k THEN v[i] ELSE w[i - k]
  <2>1. /\ v \in Seq(Elem) /\ w \in Seq(Elem) /\ Len(v) = k /\ Len(w) = m
    BY <1>3, <1>4
  <2>2. v \o w \in Seq(Elem) /\ Len(v \o w) = k + m
    BY <2>1, ConcatProperties
  <2>3. \A i \in 1 .. k + m : (v \o w)[i] = IF i <= k THEN v[i] ELSE w[i - k]
    BY <2>1, ConcatProperties
  <2> QED
    BY <2>2, <2>3
<1>6. ASSUME NEW i \in 1 .. k + m PROVE u[i] = (v \o w)[i]
  <2>0. k \in Nat /\ m \in Nat /\ i \in Int
    BY <1>0
  <2>1. CASE i <= k
    <3>1. i \in 1 .. k
      BY <2>0, <2>1
    <3>2. v[i] = c[i]
      BY <1>3, <3>1
    <3>3. (v \o w)[i] = v[i]
      BY <1>5, <2>1
    <3> QED
      BY <1>2, <3>2, <3>3
  <2>2. CASE i > k
    <3>1. i - k \in 1 .. m /\ (i - k) - 1 \in 0 .. m - 1 /\ (k + ((i - k) - 1)) + 1 = i
      BY <1>0, <2>2
    <3>2. w[i - k] = c[i]
      <4>1. w[i - k] = ls[a].s_arr[(i - k) - 1]
        BY <1>4, <3>1
      <4>2. c[(k + ((i - k) - 1)) + 1] = ls[a].s_arr[(i - k) - 1]
        BY <1>0, <3>1
      <4> QED
        BY <3>1, <4>1, <4>2
    <3>3. (v \o w)[i] = w[i - k]
      BY <1>0, <1>5, <2>2
    <3> QED
      BY <1>2, <3>2, <3>3
  <2>3. i <= k \/ i > k
    BY <2>0
  <2> QED
    BY <2>1, <2>2, <2>3
<1>7. u = v \o w
  BY <1>2, <1>5, <1>6, SeqEqual
<1> QED
  BY <1>7 DEF u, v, w, k

\* The sequences that FlattenSeq builds up.
IsFlattening(f, q) ==
    f = [i \in 1 .. Len(q) |-> IF i = 1 THEN q[i] ELSE f[i - 1] \o q[i]]

LEMMA LaidIsFlat ==
    ASSUME NEW ls \in Seq(Slab), NEW c \in Seq(Elem), NEW o, Lays(ls, c, o)
    PROVE  Flat(ls) = c
<1> DEFINE n == Len(ls)
           q == [a \in DOMAIN ls |-> Live(ls[a])]
           f == CHOOSE g : IsFlattening(g, q)
           h(i) == SubSeq(c, 1, o[i])
           S == {k \in Nat : 1 <= k /\ k <= n => f[k] = h(k)}
<1>0. /\ n \in Nat /\ Len(c) \in Nat /\ o[0] = 0 /\ o[n] = Len(c)
      /\ \A a \in 1 .. n : ls[a] \in Slab
  BY LaysFacts
<1>1. DOMAIN ls = 1 .. n
  BY SlabAt
<1>2. q \in Seq(Seq(Elem)) /\ Len(q) = n /\ \A a \in 1 .. n : q[a] = Live(ls[a])
  <2>1. \A a \in 1 .. n : q[a] = Live(ls[a])
    BY <1>1
  <2>2. q \in [1 .. n -> Seq(Elem)]
    BY <1>0, <1>1, LiveIsSeq
  <2>3. q \in Seq(Seq(Elem)) /\ Len(q) = n
    BY <1>0, <2>2, SeqDef, LenProperties
  <2> QED
    BY <2>1, <2>3
<1>3. Flat(ls) = IF Len(q) = 0 THEN q ELSE f[Len(q)]
  BY DEF Flat, FlattenSeq, IsFlattening
<1>4. h(0) = <<>> /\ h(n) = c
  <2>1. h(0) = <<>>
    BY <1>0, SubSeqEmpty
  <2>2. h(n) = c
    BY <1>0, SubSeqFull
  <2> QED
    BY <2>1, <2>2
<1>5. \A a \in 1 .. n : h(a) = h(a - 1) \o Live(ls[a])
  BY PrefixGrows
<1>6. \A a \in 1 .. n : Live(ls[a]) \in Seq(Elem)
  BY <1>0, LiveIsSeq
<1> HIDE DEF h, q, n
<1>7. \A i \in 1 .. n : h(i) = IF i = 1 THEN q[i] ELSE h(i - 1) \o q[i]
  <2> SUFFICES ASSUME NEW i \in 1 .. n
               PROVE  h(i) = IF i = 1 THEN q[i] ELSE h(i - 1) \o q[i]
    OBVIOUS
  <2>1. h(i) = h(i - 1) \o q[i] /\ q[i] \in Seq(Elem)
    BY <1>2, <1>5, <1>6
  <2>2. CASE i = 1
    <3>1. h(i) = <<>> \o q[i]
      BY SMTT(60), <1>4, <2>1, <2>2
    <3> QED
      BY <2>1, <2>2, <3>1, ConcatEmptySeq
  <2> QED
    BY <2>1, <2>2
<1>8. \E g : IsFlattening(g, q)
  <2> DEFINE g == [i \in 1 .. n |-> h(i)]
             k == [i \in 1 .. n |-> IF i = 1 THEN q[i] ELSE g[i - 1] \o q[i]]
  <2>1. \A i \in 1 .. n : g[i] = k[i]
    <3> SUFFICES ASSUME NEW i \in 1 .. n PROVE g[i] = k[i]
      OBVIOUS
    <3>1. i # 1 => i - 1 \in 1 .. n
      BY <1>0
    <3>2. i # 1 => g[i - 1] = h(i - 1)
      BY <3>1
    <3> QED
      BY <1>7, <3>2
  <2>2. g = k
    BY <2>1
  <2>3. IsFlattening(g, q)
    BY <1>2, <2>2 DEF IsFlattening
  <2> QED
    BY <2>3
<1>9. IsFlattening(f, q)
  BY <1>8
<1> HIDE DEF f
<1>10. \A i \in 1 .. n : f[i] = IF i = 1 THEN q[i] ELSE f[i - 1] \o q[i]
  BY <1>2, <1>9 DEF IsFlattening
<1>11. 0 \in S
  OBVIOUS
<1>12. ASSUME NEW k \in Nat, k \in S PROVE k + 1 \in S
  <2> SUFFICES ASSUME k + 1 <= n PROVE f[k + 1] = h(k + 1)
    OBVIOUS
  <2>1. k + 1 \in 1 .. n /\ (k + 1) - 1 = k
    BY <1>0
  <2>2. CASE k = 0
    <3>1. k + 1 = 1 /\ 1 \in 1 .. n
      BY <2>1, <2>2
    <3>2. f[1] = q[1] /\ h(1) = q[1]
      BY <1>7, <1>10, <3>1
    <3> QED
      BY <3>1, <3>2
  <2>3. CASE k # 0
    <3>1. f[k] = h(k) /\ k + 1 # 1
      BY <1>0, <1>12, <2>1, <2>3
    <3>2. f[k + 1] = f[k] \o q[k + 1]
      BY <1>10, <2>1, <3>1
    <3>3. h(k + 1) = h(k) \o q[k + 1]
      BY <1>7, <2>1, <3>1
    <3> QED
      BY <3>1, <3>2, <3>3
  <2> QED
    BY <2>2, <2>3
<1> HIDE DEF S
<1>13. Nat \subseteq S
  BY <1>11, <1>12, SetInduction
<1>14. CASE n = 0
  <2>1. Flat(ls) = <<>>
    BY <1>2, <1>3, <1>14, EmptySeq
  <2>2. c = <<>>
    BY <1>4, <1>14
  <2> QED
    BY <2>1, <2>2
<1>15. CASE n # 0
  <2>1. f[n] = h(n)
    BY <1>0, <1>13, <1>15 DEF S
  <2> QED
    BY <1>2, <1>3, <1>4, <1>15, <2>1
<1> QED
  BY <1>14, <1>15

LEMMA HeldIsFlat ==
    ASSUME NEW ls, NEW c, NEW x, Holds(ls, c, x)
    PROVE  Flat(ls) = c
BY LaidIsFlat DEF Holds

-----------------------------------------------------------------------------
(* Elements move between neighbours *)

\* The same of two neighbours.
ContinuesWithRun(c, k, l, r) ==
    \A j \in 0 .. l.s_elems + r.s_elems - 1 : c[(k + j) + 1] = AtRun(l, r, j)

LEMMA RunContinues ==
    ASSUME NEW l \in Slab, NEW r \in Slab, NEW c, NEW k \in Nat
    PROVE  ContinuesWithRun(c, k, l, r) <=>
               Continues(c, k, l) /\ Continues(c, k + l.s_elems, r)
<1> DEFINE n == l.s_elems
           m == r.s_elems
<1>0. n \in Nat /\ m \in Nat
  BY SlabFacts
<1> HIDE DEF n, m
<1>1. ASSUME \A j \in 0 .. n + m - 1 : c[(k + j) + 1] = AtRun(l, r, j)
      PROVE  /\ \A i \in 0 .. n - 1 : c[(k + i) + 1] = l.s_arr[i]
             /\ \A i \in 0 .. m - 1 : c[((k + n) + i) + 1] = r.s_arr[i]
  <2>1. ASSUME NEW i \in 0 .. n - 1 PROVE c[(k + i) + 1] = l.s_arr[i]
    <3>1. i \in 0 .. n + m - 1 /\ i < n
      BY <1>0
    <3>2. AtRun(l, r, i) = l.s_arr[i]
      BY <3>1 DEF AtRun, n
    <3> QED
      BY <1>1, <3>1, <3>2
  <2>2. ASSUME NEW i \in 0 .. m - 1 PROVE c[((k + n) + i) + 1] = r.s_arr[i]
    <3>1. /\ n + i \in 0 .. n + m - 1 /\ ~(n + i < n) /\ (n + i) - n = i
          /\ (k + (n + i)) + 1 = ((k + n) + i) + 1
      BY <1>0
    <3>2. AtRun(l, r, n + i) = r.s_arr[i]
      BY <3>1 DEF AtRun, n
    <3> QED
      BY <1>1, <3>1, <3>2
  <2> QED
    BY <2>1, <2>2
<1>2. ASSUME \A i \in 0 .. n - 1 : c[(k + i) + 1] = l.s_arr[i],
             \A i \in 0 .. m - 1 : c[((k + n) + i) + 1] = r.s_arr[i],
             NEW j \in 0 .. n + m - 1
      PROVE  c[(k + j) + 1] = AtRun(l, r, j)
  <2>1. CASE j < n
    <3>1. j \in 0 .. n - 1
      BY <1>0, <2>1
    <3>2. AtRun(l, r, j) = l.s_arr[j]
      BY <2>1 DEF AtRun, n
    <3> QED
      BY <1>2, <3>1, <3>2
  <2>2. CASE ~(j < n)
    <3>1. j - n \in 0 .. m - 1 /\ ((k + n) + (j - n)) + 1 = (k + j) + 1
      BY <1>0, <2>2
    <3>2. AtRun(l, r, j) = r.s_arr[j - n]
      BY <2>2 DEF AtRun, n
    <3>3. c[((k + n) + (j - n)) + 1] = r.s_arr[j - n]
      BY <1>2, <3>1
    <3> QED
      BY <3>1, <3>2, <3>3
  <2> QED
    BY <2>1, <2>2
<1> QED
  BY <1>1, <1>2 DEF n, m, Continues, ContinuesWithRun

LEMMA SameRunContinues ==
    ASSUME NEW l \in Slab, NEW r \in Slab, NEW l2 \in Slab, NEW r2 \in Slab,
           SameRun(l, r, l2, r2), NEW c, NEW k \in Nat,
           Continues(c, k, l), Continues(c, k + l.s_elems, r)
    PROVE  Continues(c, k, l2) /\ Continues(c, k + l2.s_elems, r2)
<1> DEFINE N == l.s_elems + r.s_elems - 1
           N2 == l2.s_elems + r2.s_elems - 1
<1>1. \A j \in 0 .. N : c[(k + j) + 1] = AtRun(l, r, j)
  BY RunContinues DEF ContinuesWithRun
<1>2. N2 = N
  <2>1. l2.s_elems + r2.s_elems = l.s_elems + r.s_elems
    BY Zenon DEF SameRun
  <2>2. /\ l.s_elems \in Nat /\ r.s_elems \in Nat
        /\ l2.s_elems \in Nat /\ r2.s_elems \in Nat
    BY SlabFacts
  <2> QED
    BY <2>1, <2>2
<1>3. \A j \in 0 .. N : AtRun(l2, r2, j) = AtRun(l, r, j)
  BY Zenon DEF SameRun
<1>4. \A j \in 0 .. N2 : c[(k + j) + 1] = AtRun(l2, r2, j)
  <2> HIDE DEF N, N2
  <2> QED
    BY <1>1, <1>2, <1>3
<1>5. ContinuesWithRun(c, k, l2, r2)
  BY <1>4 DEF ContinuesWithRun
<1> QED
  BY <1>5, RunContinues

\* Elements move between slab `a' and the next one: the offset between the two
\* moves along.
LEMMA TwoLaid ==
    ASSUME NEW ls \in Seq(Slab), NEW c \in Seq(Elem), NEW o, Lays(ls, c, o),
           NEW a \in 1 .. Len(ls), NEW b \in 1 .. Len(ls), b = a + 1,
           NEW r \in Seq(Slab), Len(r) = Len(ls),
           \A j \in 1 .. Len(ls) : j # a /\ j # b => r[j] = ls[j],
           SameRun(ls[a], ls[b], r[a], r[b])
    PROVE  Lays(r, c, [o EXCEPT ![a] = o[a - 1] + r[a].s_elems])
<1> DEFINE n == Len(ls)
           k == o[a - 1]
           v == [o EXCEPT ![a] = k + r[a].s_elems]
           la == ls[a].s_elems
           lb == ls[b].s_elems
           ra == r[a].s_elems
           rb == r[b].s_elems
<1>0. /\ n \in Nat /\ o[0] = 0 /\ o[n] = Len(c)
      /\ \A j \in 0 .. n : o[j] \in Nat
      /\ \A j \in 1 .. n : o[j] = o[j - 1] + ls[j].s_elems
      /\ \A j \in 1 .. n : Continues(c, o[j - 1], ls[j])
  <2>1. n \in Nat /\ o[0] = 0 /\ o[n] = Len(c)
    BY LaysFacts
  <2>2. \A j \in 0 .. n : o[j] \in Nat
    BY LaysFacts
  <2>3. \A j \in 1 .. n : o[j] = o[j - 1] + ls[j].s_elems
    BY DEF Lays, Offsets
  <2>4. \A j \in 1 .. n : Continues(c, o[j - 1], ls[j])
    BY DEF Lays
  <2> QED
    BY <2>1, <2>2, <2>3, <2>4
<1>1. /\ ls[a] \in Slab /\ ls[b] \in Slab /\ r[a] \in Slab /\ r[b] \in Slab
      /\ la \in Nat /\ lb \in Nat /\ ra \in Nat /\ rb \in Nat
  BY SlabAt
<1>2. ra + rb = la + lb
  BY DEF SameRun
<1>3. a - 1 \in 0 .. n /\ a \in 0 .. n /\ b \in 0 .. n /\ b - 1 = a /\ a # b /\ a # 0 /\ a # n
  BY <1>0
<1>4. k \in Nat /\ o[a] = k + la /\ o[b] = (k + la) + lb
  BY <1>0, <1>3
<1>5. o \in [0 .. n -> Nat]
  BY DEF Lays, Offsets
<1>6. /\ v \in [0 .. n -> Nat]
      /\ \A j \in 0 .. n : v[j] = IF j = a THEN k + ra ELSE o[j]
  BY SMTT(60), <1>1, <1>3, <1>4, <1>5
<1>7. Continues(c, k, ls[a]) /\ Continues(c, k + la, ls[b])
  BY <1>0, <1>3, <1>4
<1>8. Continues(c, k, r[a]) /\ Continues(c, k + ra, r[b])
  <2>1. SameRun(ls[a], ls[b], r[a], r[b])
    OBVIOUS
  <2>2. k \in Nat
    BY <1>4
  <2> HIDE DEF k
  <2> QED
    BY ZenonT(60), <1>1, <1>7, <2>1, <2>2, SameRunContinues
<1>9. \A j \in 1 .. n : j # a /\ j # b => r[j] = ls[j]
  OBVIOUS
<1>10. Len(r) = n
  OBVIOUS
<1> HIDE DEF n, v, k
<1>11. ASSUME NEW j \in 1 .. n
       PROVE  v[j] = v[j - 1] + r[j].s_elems /\ Continues(c, v[j - 1], r[j])
  <2>0. j \in 0 .. n /\ j - 1 \in 0 .. n
    BY <1>0
  <2>1. CASE j = a
    <3>1. v[a] = k + ra /\ v[a - 1] = k
      BY <1>3, <1>6 DEF k
    <3> QED
      BY <1>8, <2>1, <3>1
  <2>2. CASE j = b
    <3>1. v[b] = (k + la) + lb /\ v[a] = k + ra
      BY <1>3, <1>4, <1>6
    <3>2. v[b] = v[a] + rb
      <4> HIDE DEF la, lb, ra, rb
      <4>1. (k + la) + lb = k + (la + lb) /\ (k + ra) + rb = k + (ra + rb)
        BY <1>1, <1>4
      <4> QED
        BY <1>2, <3>1, <4>1
    <3> QED
      BY <1>3, <1>8, <2>2, <3>1, <3>2
  <2>3. CASE j # a /\ j # b
    <3>1. j - 1 # a
      BY <1>3, <2>3
    <3>2. v[j] = o[j] /\ v[j - 1] = o[j - 1]
      BY <1>6, <2>0, <2>3, <3>1
    <3> QED
      BY <1>0, <1>9, <2>3, <3>2
  <2> QED
    BY <2>1, <2>2, <2>3
<1>12. v[0] = 0 /\ v[n] = Len(c)
  <2>1. 0 \in 0 .. n /\ n \in 0 .. n
    BY <1>0
  <2> QED
    BY <1>0, <1>3, <1>6, <2>1
<1>13. Lays(r, c, v)
  BY <1>6, <1>10, <1>11, <1>12 DEF Lays, Offsets
<1> QED
  BY <1>13 DEF v, k

\* What is known of a held chain.
LEMMA HoldsFacts ==
    ASSUME NEW ls, NEW c, NEW x, Holds(ls, c, x)
    PROVE  /\ ls \in Seq(Slab) /\ c \in Seq(Elem) /\ Len(ls) \in Nat /\ Len(c) \in Nat
           /\ SELEM_MAX \in Nat /\ SELEM_MAX >= 2
           /\ \A a \in 1 .. Len(ls) : ls[a] \in Slab /\ ls[a].s_elems \in 0 .. SELEM_MAX
           /\ x => \A a \in 1 .. Len(ls) : Capped(ls[a], TRUE)
<1>1. ls \in Seq(Slab) /\ c \in Seq(Elem)
  BY DEF Holds
<1>2. x => \A a \in 1 .. Len(ls) : Capped(ls[a], TRUE)
  BY Zenon DEF Holds
<1> QED
  BY <1>1, <1>2, SlabAt, LenProperties

\* Elements move between two neighbours.
LEMMA TwoHeld ==
    ASSUME NEW ls, NEW c, NEW x, Holds(ls, c, x),
           NEW a \in 1 .. Len(ls), NEW b \in 1 .. Len(ls), b = a + 1,
           NEW r \in Seq(Slab), Len(r) = Len(ls),
           \A j \in 1 .. Len(ls) : j # a /\ j # b => r[j] = ls[j],
           SameRun(ls[a], ls[b], r[a], r[b]),
           Capped(ls[a], TRUE) /\ Capped(ls[b], TRUE) =>
               Capped(r[a], TRUE) /\ Capped(r[b], TRUE)
    PROVE  Holds(r, c, x)
<1>1. ls \in Seq(Slab) /\ c \in Seq(Elem) /\ a # b
  <2>1. a # b
    OBVIOUS
  <2> QED
    BY <2>1, HoldsFacts
<1>3. PICK o : Lays(ls, c, o)
  BY DEF Holds
<1>5. \E v : Lays(r, c, v)
  <2>1. Lays(r, c, [o EXCEPT ![a] = o[a - 1] + r[a].s_elems])
    BY <1>1, <1>3, TwoLaid
  <2> QED
    BY <2>1
<1>6. ASSUME x PROVE \A j \in 1 .. Len(r) : Capped(r[j], TRUE)
  <2>1. \A j \in 1 .. Len(ls) : Capped(ls[j], TRUE)
    BY <1>6, HoldsFacts
  <2> QED
    BY <2>1
<1> QED
  BY <1>1, <1>5, <1>6 DEF Holds

-----------------------------------------------------------------------------
(* A small list becomes slabs *)

\* A chain of one slab lays out the elements of that slab.
LEMMA OneLaid ==
    ASSUME NEW s \in Slab, NEW c \in Seq(Elem), Len(c) = s.s_elems
    PROVE  Lays(<<s>>, c, [a \in 0 .. 1 |-> IF a = 0 THEN 0 ELSE Len(c)]) <=>
               \A i \in 0 .. s.s_elems - 1 : c[i + 1] = s.s_arr[i]
<1> DEFINE v == [a \in 0 .. 1 |-> IF a = 0 THEN 0 ELSE Len(c)]
           m == Len(c)
<1>0. m \in Nat /\ s.s_elems = m
  BY LenProperties
<1>1. Len(<<s>>) = 1 /\ <<s>>[1] = s
  OBVIOUS
<1>2. v \in [0 .. 1 -> Nat] /\ v[0] = 0 /\ v[1] = m
  BY <1>0
<1> HIDE DEF v, m
<1>3. Offsets(<<s>>, v)
  <2>1. \A a \in 1 .. 1 : v[a] = v[a - 1] + <<s>>[a].s_elems
    BY <1>0, <1>1, <1>2
  <2> QED
    BY <1>1, <1>2, <2>1 DEF Offsets
<1>4. Lays(<<s>>, c, v) <=> Continues(c, 0, s)
  <2>1. (\A a \in 1 .. 1 : Continues(c, v[a - 1], <<s>>[a])) <=> Continues(c, 0, s)
    BY <1>1, <1>2
  <2> QED
    BY <1>1, <1>2, <1>3, <2>1 DEF Lays, m
<1>5. Continues(c, 0, s) <=> \A i \in 0 .. s.s_elems - 1 : c[i + 1] = s.s_arr[i]
  <2>1. \A i \in 0 .. s.s_elems - 1 : (0 + i) + 1 = i + 1
    OBVIOUS
  <2> QED
    BY <2>1 DEF Continues
<1> QED
  BY <1>4, <1>5 DEF v

\* The slab made from a small list holds its elements.
LEMMA BecameSlabs ==
    ASSUME NEW c \in Seq(Elem), Len(c) > 0, Len(c) <= SELEM_MAX, NEW x
    PROVE  LET ls == <<small_list_to_slab(c)>>
           IN  Holds(ls, c, x) /\ Chain(ls) /\ Len(ls) > 0
<1> DEFINE s == small_list_to_slab(c)
           m == Len(c)
<1>0. m \in Nat /\ m > 0 /\ m <= SELEM_MAX /\ SELEM_MAX \in Nat
  BY LenProperties, SlabSizeAssumption
<1>1. s \in Slab /\ s.s_elems = m
  BY small_list_to_slabIsSlab
<1>2. \A i \in 0 .. m - 1 : c[i + 1] = s.s_arr[i]
  <2>1. \A i \in 0 .. m - 1 : i \in Index /\ i < m
    BY <1>0 DEF Index
  <2> QED
    BY <2>1 DEF small_list_to_slab
<1>3. s.s_min = c[1] /\ s.s_max = c[m]
  BY DEF small_list_to_slab
<1> HIDE DEF s
<1>4. Lays(<<s>>, c, [a \in 0 .. 1 |-> IF a = 0 THEN 0 ELSE Len(c)])
  BY <1>1, <1>2, OneLaid
<1>5. Capped(s, TRUE)
  <2>1. 0 \in 0 .. m - 1 /\ m - 1 \in 0 .. m - 1 /\ 0 + 1 = 1 /\ (m - 1) + 1 = m
    BY <1>0
  <2> HIDE DEF m
  <2>2. c[0 + 1] = s.s_arr[0] /\ c[(m - 1) + 1] = s.s_arr[m - 1]
    BY <1>2, <2>1
  <2>3. s.s_min = s.s_arr[0] /\ s.s_max = s.s_arr[m - 1]
    BY <1>3, <2>1, <2>2
  <2> QED
    BY <1>1, <2>3 DEF Capped, StandsFor
<1>6. Chain(<<s>>) /\ Len(<<s>>) > 0
  BY <1>0, <1>1, OneSlabChain
<1>7. <<s>> \in Seq(Slab) /\ \A a \in 1 .. Len(<<s>>) : Capped(<<s>>[a], TRUE)
  <2>1. Len(<<s>>) = 1 /\ <<s>>[1] = s
    OBVIOUS
  <2>2. \A a \in 1 .. 1 : a = 1
    OBVIOUS
  <2>3. <<s>> \in Seq(Slab)
    BY <1>1
  <2> QED
    BY <1>5, <2>1, <2>2, <2>3
<1>8. Holds(<<s>>, c, x)
  BY <1>4, <1>7 DEF Holds
<1> QED
  BY <1>6, <1>8 DEF s

-----------------------------------------------------------------------------
(* An element goes into a slab *)

\* `t' is `s' with `e' at index `i'.
GainedAt(s, t, i, e) ==
    /\ t.s_elems = s.s_elems + 1
    /\ \A j \in 0 .. s.s_elems :
           t.s_arr[j] = IF j < i THEN s.s_arr[j] ELSE IF j = i THEN e ELSE s.s_arr[j - 1]

LEMMA add_elemGains ==
    ASSUME NEW s \in Slab, s.s_elems < SELEM_MAX, NEW e \in Elem, NEW i \in 0 .. s.s_elems
    PROVE  /\ add_elem(s, e, i) \in Slab /\ GainedAt(s, add_elem(s, e, i), i, e)
           /\ Capped(s, TRUE) => Capped(add_elem(s, e, i), TRUE)
<1> DEFINE n == s.s_elems
           t == add_elem(s, e, i)
<1>0. SELEM_MAX \in Nat /\ SELEM_MAX >= 2 /\ n \in 0 .. SELEM_MAX
  BY SlabFacts
<1>1. t \in Slab /\ t.s_elems = n + 1
  BY <1>0, add_elemIsSlab
<1>2. \A j \in 0 .. n : t.s_arr[j] =
          IF j < i THEN s.s_arr[j] ELSE IF j = i THEN e ELSE s.s_arr[j - 1]
  <2> SUFFICES ASSUME NEW j \in 0 .. n
               PROVE  t.s_arr[j] = IF j < i THEN s.s_arr[j]
                                   ELSE IF j = i THEN e ELSE s.s_arr[j - 1]
    OBVIOUS
  <2>1. j \in Index
    BY <1>0 DEF Index
  <2>2. t.s_arr[j] = IF j = i THEN e
                     ELSE IF i < j /\ j <= n THEN s.s_arr[j - 1] ELSE s.s_arr[j]
    BY <2>1 DEF add_elem
  <2> QED
    BY <1>0, <2>2
<1>3. /\ t.s_min = IF i = 0 THEN t.s_arr[0] ELSE s.s_min
      /\ t.s_max = IF i = n THEN t.s_arr[n] ELSE s.s_max
  <2>1. n # SELEM_MAX
    BY <1>0
  <2> QED
    BY <2>1 DEF add_elem
<1> HIDE DEF t
<1>4. ASSUME Capped(s, TRUE) PROVE Capped(t, TRUE)
  <2>1. StandsFor(t.s_min, t.s_arr[0], TRUE)
    BY <1>0, <1>2, <1>3, <1>4 DEF Capped, StandsFor
  <2>2. StandsFor(t.s_max, t.s_arr[n], TRUE)
    BY <1>0, <1>2, <1>3, <1>4 DEF Capped, StandsFor
  <2>3. t.s_elems - 1 = n
    BY <1>0, <1>1
  <2> QED
    BY <2>1, <2>2, <2>3 DEF Capped
<1>5. GainedAt(s, t, i, e)
  BY <1>1, <1>2 DEF GainedAt
<1> QED
  BY <1>1, <1>4, <1>5 DEF t

\* `d' is `c' with `e' at place `p'.
Longer(c, d, p, e) ==
    /\ d \in Seq(Elem) /\ Len(d) = Len(c) + 1
    /\ \A j \in 1 .. Len(c) + 1 :
           d[j] = IF j < p THEN c[j] ELSE IF j = p THEN e ELSE c[j - 1]

LEMMA InsertedLonger ==
    ASSUME NEW c \in Seq(Elem), NEW p \in 1 .. Len(c) + 1, NEW e \in Elem
    PROVE  Longer(c, InsertAt(c, p, e), p, e)
BY InsertAtProperties DEF Longer

LEMMA LongerBefore ==
    ASSUME NEW c \in Seq(Elem), NEW d, NEW e, NEW p \in 1 .. Len(c) + 1, Longer(c, d, p, e),
           NEW s \in Slab, NEW w \in Nat, Continues(c, w, s), w + s.s_elems < p
    PROVE  Continues(d, w, s)
<1> DEFINE m == Len(c)
           n == s.s_elems
<1>0. m \in Nat /\ n \in Nat
  BY LenProperties, SlabFacts
<1>1. /\ \A j \in 1 .. m + 1 : d[j] = IF j < p THEN c[j] ELSE IF j = p THEN e ELSE c[j - 1]
      /\ \A i \in 0 .. n - 1 : c[(w + i) + 1] = s.s_arr[i]
  BY DEF Longer, Continues
<1> HIDE DEF m
<1>2. \A i \in 0 .. n - 1 : (w + i) + 1 \in 1 .. m + 1 /\ (w + i) + 1 < p
  BY <1>0 DEF m
<1>3. \A i \in 0 .. n - 1 : d[(w + i) + 1] = s.s_arr[i]
  BY <1>1, <1>2
<1> QED
  BY <1>3 DEF Continues

LEMMA LongerAfter ==
    ASSUME NEW c \in Seq(Elem), NEW d, NEW e, NEW p \in 1 .. Len(c) + 1, Longer(c, d, p, e),
           NEW s \in Slab, NEW w \in Nat, Continues(c, w, s),
           p <= w + 1, w + s.s_elems <= Len(c)
    PROVE  Continues(d, w + 1, s)
<1> DEFINE m == Len(c)
           n == s.s_elems
<1>0. m \in Nat /\ n \in Nat /\ p <= w + 1 /\ w + n <= m /\ p \in Int
  BY LenProperties, SlabFacts
<1>1. /\ \A j \in 1 .. m + 1 : d[j] = IF j < p THEN c[j] ELSE IF j = p THEN e ELSE c[j - 1]
      /\ \A i \in 0 .. n - 1 : c[(w + i) + 1] = s.s_arr[i]
  BY DEF Longer, Continues
<1> HIDE DEF m, n
<1>2. ASSUME NEW i \in 0 .. n - 1 PROVE d[((w + 1) + i) + 1] = s.s_arr[i]
  <2> DEFINE y == ((w + 1) + i) + 1
             z == (w + i) + 1
  <2>1. y \in 1 .. m + 1 /\ p < y /\ y - 1 = z
    BY <1>0
  <2>2. c[z] = s.s_arr[i]
    BY <1>1
  <2> HIDE DEF y, z
  <2>3. d[y] = c[y - 1]
    <3>1. ~(y < p) /\ y # p
      BY <1>0, <2>1
    <3> QED
      BY <1>1, <2>1, <3>1
  <2>4. d[y] = s.s_arr[i]
    BY <2>1, <2>2, <2>3
  <2> QED
    BY <2>4 DEF y
<1> QED
  BY <1>2 DEF Continues, n

LEMMA LongerAround ==
    ASSUME NEW c \in Seq(Elem), NEW d, NEW e, NEW p \in 1 .. Len(c) + 1, Longer(c, d, p, e),
           NEW s \in Slab, NEW w \in Nat, Continues(c, w, s), w + s.s_elems <= Len(c),
           NEW i \in 0 .. s.s_elems, p = (w + i) + 1,
           NEW t, GainedAt(s, t, i, e)
    PROVE  Continues(d, w, t)
<1> DEFINE m == Len(c)
           n == s.s_elems
<1>0. m \in Nat /\ n \in Nat /\ w + n <= m /\ p = (w + i) + 1 /\ i \in 0 .. n
  BY LenProperties, SlabFacts
<1>1. /\ \A j \in 1 .. m + 1 : d[j] = IF j < p THEN c[j] ELSE IF j = p THEN e ELSE c[j - 1]
      /\ \A j \in 0 .. n - 1 : c[(w + j) + 1] = s.s_arr[j]
  BY DEF Longer, Continues
<1>2. /\ t.s_elems = n + 1
      /\ \A j \in 0 .. n :
            t.s_arr[j] = IF j < i THEN s.s_arr[j] ELSE IF j = i THEN e ELSE s.s_arr[j - 1]
  BY DEF GainedAt
<1> HIDE DEF m, n
<1>3. ASSUME NEW j \in 0 .. n PROVE d[(w + j) + 1] = t.s_arr[j]
  <2> DEFINE y == (w + j) + 1
  <2>1. y \in 1 .. m + 1
    BY <1>0
  <2>2. CASE j < i
    <3>1. y < p /\ j \in 0 .. n - 1
      BY <1>0, <2>2
    <3>2. c[y] = s.s_arr[j]
      BY <1>1, <3>1
    <3> HIDE DEF y
    <3>3. d[y] = c[y]
      BY <1>1, <2>1, <3>1
    <3>4. t.s_arr[j] = s.s_arr[j]
      BY <1>2, <2>2
    <3> QED
      BY <3>2, <3>3, <3>4 DEF y
  <2>3. CASE j = i
    <3>1. y = p
      BY <1>0, <2>3
    <3> HIDE DEF y
    <3>2. d[y] = e
      <4>1. ~(y < p)
        BY <1>0, <2>1, <3>1
      <4> QED
        BY <1>1, <2>1, <3>1, <4>1
    <3>3. t.s_arr[j] = e
      <4>1. ~(j < i)
        BY <1>0, <2>3
      <4> QED
        BY <1>2, <2>3, <4>1
    <3> QED
      BY <3>2, <3>3 DEF y
  <2>4. CASE j > i
    <3> DEFINE z == (w + (j - 1)) + 1
    <3>1. p < y /\ j - 1 \in 0 .. n - 1 /\ y - 1 = z
      BY <1>0, <2>4
    <3>2. c[z] = s.s_arr[j - 1]
      BY <1>1, <3>1
    <3> HIDE DEF y, z
    <3>3. d[y] = c[y - 1]
      <4>1. ~(y < p) /\ y # p
        BY <1>0, <2>1, <3>1
      <4> QED
        BY <1>1, <2>1, <4>1
    <3>4. t.s_arr[j] = s.s_arr[j - 1]
      <4>1. ~(j < i) /\ j # i
        BY <1>0, <2>4
      <4> QED
        BY <1>2, <4>1
    <3> QED
      BY <3>1, <3>2, <3>3, <3>4 DEF y
  <2> QED
    BY <1>0, <2>2, <2>3, <2>4
<1>4. \A j \in 0 .. t.s_elems - 1 : j \in 0 .. n
  BY <1>0, <1>2
<1> QED
  BY <1>3, <1>4 DEF Continues

\* A slab takes an element: the sequence is longer by it, and what follows the slab
\* is one place further on.
LEMMA GainedLaid ==
    ASSUME NEW ls \in Seq(Slab), NEW c \in Seq(Elem), NEW o, Lays(ls, c, o),
           NEW a \in 1 .. Len(ls), NEW i \in 0 .. ls[a].s_elems, NEW e,
           NEW t \in Slab, GainedAt(ls[a], t, i, e),
           NEW p, p = (o[a - 1] + i) + 1, NEW d, Longer(c, d, p, e)
    PROVE  Lays(Put(ls, a, t), d,
                [j \in 0 .. Len(ls) |-> IF j < a THEN o[j] ELSE o[j] + 1])
<1> DEFINE n == Len(ls)
           m == Len(c)
           r == Put(ls, a, t)
           v == [j \in 0 .. n |-> IF j < a THEN o[j] ELSE o[j] + 1]
           k == ls[a].s_elems
<1>0. /\ n \in Nat /\ m \in Nat /\ o[0] = 0 /\ o[n] = m
      /\ \A j \in 0 .. n : o[j] \in Nat /\ o[j] <= m
      /\ \A j \in 1 .. n : /\ ls[j] \in Slab /\ ls[j].s_elems \in Nat
                           /\ o[j] = o[j - 1] + ls[j].s_elems
  <2>1. n \in Nat /\ m \in Nat /\ o[0] = 0 /\ o[n] = m
    BY LaysFacts
  <2>2. \A j \in 0 .. n : o[j] \in Nat /\ o[j] <= m
    BY LaysFacts
  <2>3. \A j \in 1 .. n : /\ ls[j] \in Slab /\ ls[j].s_elems \in Nat
                          /\ o[j] = o[j - 1] + ls[j].s_elems
    BY LaysFacts
  <2> QED
    BY <2>1, <2>2, <2>3
<1>1. \A j \in 1 .. n : Continues(c, o[j - 1], ls[j])
  BY LaysFacts
<1>2. Len(r) = n /\ \A j \in 1 .. n : r[j] = IF j = a THEN t ELSE ls[j]
  BY ZenonT(60), PutProperties
<1>3. \A j \in 0 .. n : v[j] = IF j < a THEN o[j] ELSE o[j] + 1
  OBVIOUS
<1>4. a \in 1 .. n /\ a - 1 \in 0 .. n /\ a \in 0 .. n /\ k \in Nat /\ i \in 0 .. k
      /\ p = (o[a - 1] + i) + 1 /\ o[a] = o[a - 1] + k /\ GainedAt(ls[a], t, i, e)
  BY <1>0
<1>5. \A j, b \in 0 .. n : j <= b => o[j] <= o[b]
  BY OffsetsRise DEF Lays
<1>6. Len(d) = m + 1 /\ t.s_elems = k + 1
  BY DEF Longer, GainedAt
<1>7. Longer(c, d, p, e)
  OBVIOUS
<1> HIDE DEF n, m, r, k
<1>nm. n \in Nat /\ m \in Nat
  BY <1>0
<1>8. p \in 1 .. m + 1 /\ p <= o[a] + 1 /\ o[a - 1] < p
  <2> DEFINE x == o[a - 1]
             y == o[a]
  <2>1. y <= m /\ y \in Nat /\ x \in Nat /\ y = x + k /\ p = (x + i) + 1
    BY <1>0, <1>4
  <2>2. k \in Nat /\ i \in 0 .. k
    BY <1>4
  <2> HIDE DEF x, y
  <2>3. p \in 1 .. m + 1 /\ p <= y + 1 /\ x < p
    BY <1>nm, <2>1, <2>2
  <2> QED
    BY <2>3 DEF x, y
<1>9. v \in [0 .. n -> Nat]
  BY <1>0
<1> HIDE DEF v
<1>10. ASSUME NEW j \in 1 .. n
       PROVE  v[j] = v[j - 1] + r[j].s_elems /\ Continues(d, v[j - 1], r[j])
  <2>0. j \in 0 .. n /\ j - 1 \in 0 .. n /\ j \in Int /\ a \in Int
    BY <1>0, <1>4
  <2>1. /\ o[j] \in Nat /\ o[j - 1] \in Nat /\ ls[j] \in Slab /\ ls[j].s_elems \in Nat
        /\ o[j] = o[j - 1] + ls[j].s_elems /\ o[j] <= m
        /\ Continues(c, o[j - 1], ls[j])
    BY <1>0, <1>1, <2>0
  <2>2. CASE j < a
    <3>1. r[j] = ls[j] /\ v[j] = o[j] /\ v[j - 1] = o[j - 1]
      BY <1>2, <1>3, <2>0, <2>2
    <3>2. o[j] <= o[a - 1] /\ o[a - 1] \in Nat
      BY <1>0, <1>4, <1>5, <2>0, <2>2
    <3>3. o[j - 1] + ls[j].s_elems < p /\ p \in Int
      <4> DEFINE x == o[j]
                 y == o[a - 1]
      <4>1. x \in Nat /\ x <= y /\ y \in Nat /\ y < p /\ p \in Int
        BY <1>8, <2>1, <3>2
      <4> HIDE DEF x, y
      <4>2. x < p
        BY <4>1
      <4> QED
        BY <2>1, <4>1, <4>2 DEF x
    <3>4. Continues(d, o[j - 1], ls[j])
      BY <1>7, <1>8, <2>1, <3>3, LongerBefore DEF m
    <3> QED
      BY <2>1, <3>1, <3>4
  <2>3. CASE j = a
    <3>1. r[j] = t /\ v[j] = o[j] + 1 /\ v[j - 1] = o[j - 1]
      BY <1>2, <1>3, <2>0, <2>3
    <3>2. ls[j].s_elems = k
      BY <2>3 DEF k
    <3>3. v[j] = v[j - 1] + r[j].s_elems
      <4> DEFINE x == o[j - 1]
                 y == o[j]
      <4>1. x \in Nat /\ y = x + k /\ k \in Nat
        BY <1>4, <2>1, <3>2
      <4> HIDE DEF x, y
      <4>2. y + 1 = x + (k + 1)
        BY <4>1
      <4>3. v[j] = y + 1 /\ v[j - 1] = x /\ r[j].s_elems = k + 1
        BY <1>6, <3>1 DEF x, y
      <4> QED
        BY <4>2, <4>3
    <3>4. i \in 0 .. ls[j].s_elems /\ p = (o[j - 1] + i) + 1 /\ GainedAt(ls[j], t, i, e)
      BY <1>4, <2>3, <3>2
    <3>5. o[j - 1] + ls[j].s_elems <= Len(c)
      BY <2>1 DEF m
    <3>6. p \in 1 .. Len(c) + 1
      BY <1>8 DEF m
    <3>7. /\ o[j - 1] \in Nat /\ ls[j] \in Slab /\ Continues(c, o[j - 1], ls[j])
          /\ c \in Seq(Elem) /\ Longer(c, d, p, e)
      BY <1>7, <2>1
    <3>8. Continues(d, o[j - 1], t)
      <4> DEFINE w == o[j - 1]
                 s == ls[j]
      <4>1. /\ w \in Nat /\ s \in Slab /\ Continues(c, w, s) /\ w + s.s_elems <= Len(c)
            /\ i \in 0 .. s.s_elems /\ p = (w + i) + 1 /\ GainedAt(s, t, i, e)
        BY <3>4, <3>5, <3>7
      <4> HIDE DEF w, s
      <4>2. Continues(d, w, t)
        BY <3>6, <3>7, <4>1, LongerAround
      <4> QED
        BY <4>2 DEF w
    <3> QED
      BY <3>1, <3>3, <3>8
  <2>4. CASE j > a
    <3>1. r[j] = ls[j] /\ v[j] = o[j] + 1 /\ v[j - 1] = o[j - 1] + 1
      BY <1>2, <1>3, <2>0, <2>4
    <3>0. a <= j - 1
      BY <2>0, <2>4
    <3>2. o[a] <= o[j - 1] /\ o[a] \in Nat
      BY <1>0, <1>4, <1>5, <2>0, <3>0
    <3>3. p <= o[j - 1] + 1 /\ p \in Int
      <4> DEFINE x == o[a]
                 y == o[j - 1]
      <4>1. x \in Nat /\ x <= y /\ y \in Nat /\ p <= x + 1 /\ p \in Int
        BY <1>8, <2>1, <3>2
      <4> HIDE DEF x, y
      <4>2. p <= y + 1
        BY <4>1
      <4> QED
        BY <4>1, <4>2 DEF y
    <3>4. o[j - 1] + ls[j].s_elems <= Len(c)
      BY <2>1 DEF m
    <3>5. Continues(d, o[j - 1] + 1, ls[j])
      BY <1>7, <1>8, <2>1, <3>3, <3>4, LongerAfter DEF m
    <3>6. o[j] + 1 = (o[j - 1] + 1) + ls[j].s_elems
      <4> DEFINE x == o[j - 1]
                 y == o[j]
                 l == ls[j].s_elems
      <4>1. x \in Nat /\ y \in Nat /\ l \in Nat /\ y = x + l
        BY <2>1
      <4> HIDE DEF x, y, l
      <4>2. y + 1 = (x + 1) + l
        BY <4>1
      <4> QED
        BY <4>2 DEF x, y, l
    <3>7. v[j] = v[j - 1] + r[j].s_elems
      BY <3>1, <3>6
    <3>8. Continues(d, v[j - 1], r[j])
      BY <3>1, <3>5
    <3> QED
      BY <3>7, <3>8
  <2> QED
    BY <2>0, <2>2, <2>3, <2>4
<1>11. v[0] = 0 /\ v[n] = Len(d)
  <2>1. 0 \in 0 .. n /\ n \in 0 .. n /\ 0 < a /\ ~(n < a)
    BY <1>0, <1>4
  <2> QED
    BY <1>0, <1>3, <1>6, <2>1
<1>12. Lays(r, d, v)
  BY <1>2, <1>9, <1>10, <1>11 DEF Lays, Offsets
<1> QED
  BY <1>12 DEF r, v, n

\* A slab without elements may come.
LEMMA EmptyLinkedLaid ==
    ASSUME NEW ls \in Seq(Slab), NEW c \in Seq(Elem), NEW o, Lays(ls, c, o),
           NEW p \in 1 .. Len(ls) + 1, NEW t \in Slab, t.s_elems = 0
    PROVE  Lays(InsertAt(ls, p, t), c,
                [j \in 0 .. Len(ls) + 1 |-> IF j < p THEN o[j] ELSE o[j - 1]])
<1> DEFINE n == Len(ls)
           r == InsertAt(ls, p, t)
           v == [j \in 0 .. n + 1 |-> IF j < p THEN o[j] ELSE o[j - 1]]
<1>0. /\ n \in Nat /\ o[0] = 0 /\ o[n] = Len(c)
      /\ \A j \in 0 .. n : o[j] \in Nat
      /\ \A j \in 1 .. n : /\ ls[j].s_elems \in Nat /\ o[j] = o[j - 1] + ls[j].s_elems
                           /\ Continues(c, o[j - 1], ls[j])
  <2>1. n \in Nat /\ o[0] = 0 /\ o[n] = Len(c)
    BY LaysFacts
  <2>2. \A j \in 0 .. n : o[j] \in Nat
    BY LaysFacts
  <2>3. \A j \in 1 .. n : ls[j].s_elems \in Nat /\ o[j] = o[j - 1] + ls[j].s_elems
    BY LaysFacts
  <2>4. \A j \in 1 .. n : Continues(c, o[j - 1], ls[j])
    BY LaysFacts
  <2> QED
    BY <2>1, <2>2, <2>3, <2>4
<1>1. /\ r \in Seq(Slab) /\ Len(r) = n + 1
      /\ \A j \in 1 .. n + 1 : r[j] = IF j < p THEN ls[j] ELSE IF j = p THEN t ELSE ls[j - 1]
  BY InsertAtProperties
<1>2. \A j \in 0 .. n + 1 : v[j] = IF j < p THEN o[j] ELSE o[j - 1]
  OBVIOUS
<1>3. p \in 1 .. n + 1
  OBVIOUS
<1> HIDE DEF n, r
<1>4. v \in [0 .. n + 1 -> Nat]
  <2>1. ASSUME NEW j \in 0 .. n + 1, j < p PROVE o[j] \in Nat
    <3>1. j \in 0 .. n
      BY <1>0, <1>3, <2>1
    <3> QED
      BY <1>0, <3>1
  <2>2. ASSUME NEW j \in 0 .. n + 1, ~(j < p) PROVE o[j - 1] \in Nat
    <3>1. j - 1 \in 0 .. n
      BY <1>0, <1>3, <2>2
    <3> QED
      BY <1>0, <3>1
  <2> QED
    BY <2>1, <2>2
<1> HIDE DEF v
<1>5. ASSUME NEW j \in 1 .. n + 1
      PROVE  v[j] = v[j - 1] + r[j].s_elems /\ Continues(c, v[j - 1], r[j])
  <2>0. j \in 0 .. n + 1 /\ j - 1 \in 0 .. n + 1 /\ j \in Int /\ p \in Int
    BY <1>0, <1>3
  <2>1. CASE j < p
    <3>1. j \in 1 .. n /\ j - 1 < p
      BY <1>0, <1>3, <2>0, <2>1
    <3>2. v[j] = o[j] /\ v[j - 1] = o[j - 1] /\ r[j] = ls[j]
      BY <1>1, <1>2, <2>0, <2>1, <3>1
    <3> QED
      BY <1>0, <3>1, <3>2
  <2>2. CASE j = p
    <3>1. ~(j < p) /\ j - 1 < p /\ j - 1 \in 0 .. n
      BY <1>0, <1>3, <2>2
    <3>2. v[j] = o[j - 1] /\ v[j - 1] = o[j - 1] /\ r[j] = t
      BY <1>1, <1>2, <2>0, <2>2, <3>1
    <3>3. o[j - 1] \in Nat /\ o[j - 1] = o[j - 1] + 0
      BY <1>0, <3>1
    <3>4. Continues(c, v[j - 1], t)
      BY DEF Continues
    <3> QED
      BY <3>2, <3>3, <3>4
  <2>3. CASE j > p
    <3> DEFINE i == j - 1
    <3>1. i \in 1 .. n /\ ~(j < p) /\ j # p /\ ~(i < p) /\ i \in 0 .. n + 1
      BY <1>0, <1>3, <2>0, <2>3
    <3>2. v[j] = o[i] /\ r[j] = ls[i]
      BY <1>1, <1>2, <2>0, <3>1
    <3> HIDE DEF i
    <3>3. v[i] = o[i - 1]
      BY <1>2, <3>1
    <3>4. o[i] = o[i - 1] + ls[i].s_elems /\ Continues(c, o[i - 1], ls[i])
      BY <1>0, <3>1
    <3>5. v[j] = v[i] + r[j].s_elems /\ Continues(c, v[i], r[j])
      BY <3>2, <3>3, <3>4
    <3> QED
      BY <3>5 DEF i
  <2> QED
    BY <2>0, <2>1, <2>2, <2>3
<1>6. v[0] = 0 /\ v[n + 1] = Len(c)
  <2>1. 0 \in 0 .. n + 1 /\ n + 1 \in 0 .. n + 1 /\ 0 < p /\ ~(n + 1 < p) /\ (n + 1) - 1 = n
    BY <1>0, <1>3
  <2> QED
    BY <1>0, <1>2, <2>1
<1>7. Lays(r, c, v)
  BY <1>1, <1>4, <1>5, <1>6 DEF Lays, Offsets
<1> QED
  BY <1>7 DEF r, v, n

-----------------------------------------------------------------------------
(* Additions to a chain *)

\* A chain with slabs, none of them empty, that holds `c' and has exact extrema.
Stands(ls, c) ==
    /\ Holds(ls, c, TRUE) /\ Len(ls) > 0
    /\ \A a \in 1 .. Len(ls) : ls[a].s_elems > 0

\* `r' stands and holds `c' with `e' at place `p'.
Adds(r, c, p, e) == p \in 1 .. Len(c) + 1 /\ Stands(r, InsertAt(c, p, e))

\* An element goes to index `i' of slab `a'.  Another slab may be empty no more than
\* that one.
LEMMA GainedAdds ==
    ASSUME NEW ls, NEW c, Holds(ls, c, TRUE), NEW o, Lays(ls, c, o),
           NEW a \in 1 .. Len(ls), ls[a].s_elems < SELEM_MAX,
           \A j \in 1 .. Len(ls) : j # a => ls[j].s_elems > 0,
           NEW e \in Elem, NEW i \in 0 .. ls[a].s_elems
    PROVE  Adds(Put(ls, a, add_elem(ls[a], e, i)), c, (o[a - 1] + i) + 1, e)
<1> DEFINE n == Len(ls)
           t == add_elem(ls[a], e, i)
           r == Put(ls, a, t)
           p == (o[a - 1] + i) + 1
           d == InsertAt(c, p, e)
<1>0. /\ ls \in Seq(Slab) /\ c \in Seq(Elem) /\ n \in Nat /\ Len(c) \in Nat
      /\ ls[a] \in Slab /\ ls[a].s_elems \in Nat
      /\ \A j \in 1 .. n : Capped(ls[j], TRUE)
  <2>1. ls \in Seq(Slab) /\ c \in Seq(Elem) /\ n \in Nat /\ Len(c) \in Nat
    BY HoldsFacts
  <2>2. \A j \in 1 .. n : Capped(ls[j], TRUE)
    BY HoldsFacts
  <2>3. ls[a] \in Slab /\ ls[a].s_elems \in Nat
    BY <2>1, SlabAt
  <2> QED
    BY <2>1, <2>2, <2>3
<1>1. /\ t \in Slab /\ GainedAt(ls[a], t, i, e) /\ Capped(t, TRUE)
      /\ t.s_elems = ls[a].s_elems + 1
  <2>1. Capped(ls[a], TRUE)
    BY <1>0
  <2>2. t \in Slab /\ GainedAt(ls[a], t, i, e) /\ Capped(t, TRUE)
    BY <1>0, <2>1, add_elemGains
  <2> HIDE DEF t
  <2>3. t.s_elems = ls[a].s_elems + 1
    BY <2>2 DEF GainedAt
  <2> QED
    BY <2>2, <2>3
<1> HIDE DEF t
<1>2. p \in 1 .. Len(c) + 1
  <2> DEFINE x == o[a - 1]
             y == o[a]
             k == ls[a].s_elems
  <2>1. x \in Nat /\ y \in Nat /\ y <= Len(c) /\ y = x + k /\ k \in Nat /\ i \in 0 .. k
    BY <1>0, LaysFacts
  <2> HIDE DEF x, y, k
  <2>2. (x + i) + 1 \in 1 .. Len(c) + 1
    BY <1>0, <2>1
  <2> QED
    BY <2>2 DEF x
<1>3. Longer(c, d, p, e) /\ d \in Seq(Elem)
  <2> HIDE DEF p
  <2>1. Longer(c, d, p, e)
    BY <1>0, <1>2, InsertedLonger
  <2> HIDE DEF d
  <2> QED
    BY <2>1 DEF Longer
<1>4. \E v : Lays(r, d, v)
  <2>1. p = (o[a - 1] + i) + 1
    OBVIOUS
  <2> HIDE DEF p, d
  <2>2. Lays(r, d, [j \in 0 .. Len(ls) |-> IF j < a THEN o[j] ELSE o[j] + 1])
    BY <1>0, <1>1, <1>3, <2>1, GainedLaid
  <2> QED
    BY <2>2
<1>5. r \in Seq(Slab) /\ Len(r) = n /\ \A j \in 1 .. n : r[j] = IF j = a THEN t ELSE ls[j]
  BY <1>0, <1>1, PutProperties
<1> HIDE DEF r, d, p
<1>6. \A j \in 1 .. Len(r) : Capped(r[j], TRUE)
  BY <1>0, <1>1, <1>5
<1>7. \A j \in 1 .. Len(r) : r[j].s_elems > 0
  BY <1>0, <1>1, <1>5
<1>8. Len(r) > 0
  BY <1>0, <1>5
<1>9. Holds(r, d, TRUE)
  BY <1>3, <1>4, <1>5, <1>6 DEF Holds
<1>10. Adds(r, c, p, e)
  BY <1>2, <1>7, <1>8, <1>9 DEF Adds, Stands, d
<1> QED
  BY <1>10 DEF r, t, p

\* A slab with the new element alone is linked in before the `b'-th.
LEMMA NewSlabAdds ==
    ASSUME NEW ls, NEW c, Stands(ls, c), NEW o, Lays(ls, c, o),
           NEW b \in 1 .. Len(ls) + 1, NEW e \in Elem
    PROVE  Adds(InsertAt(ls, b, add_elem(mk_slab, e, 0)), c, o[b - 1] + 1, e)
<1> DEFINE n == Len(ls)
           z == InsertAt(ls, b, mk_slab)
           t == add_elem(mk_slab, e, 0)
           r == InsertAt(ls, b, t)
           v == [j \in 0 .. n + 1 |-> IF j < b THEN o[j] ELSE o[j - 1]]
<1>0. /\ ls \in Seq(Slab) /\ c \in Seq(Elem) /\ n \in Nat
      /\ SELEM_MAX \in Nat /\ SELEM_MAX >= 2
      /\ \A j \in 1 .. n : Capped(ls[j], TRUE) /\ ls[j].s_elems > 0
  BY HoldsFacts DEF Stands
<1>1. mk_slab \in Slab /\ mk_slab.s_elems = 0
  BY mk_slabIsSlab
<1>2. t \in Slab
  BY OneElemSlab
<1>3. /\ z \in Seq(Slab) /\ Len(z) = n + 1
      /\ \A j \in 1 .. n + 1 :
            z[j] = IF j < b THEN ls[j] ELSE IF j = b THEN mk_slab ELSE ls[j - 1]
  BY <1>0, <1>1, InsertAtProperties
<1>4. /\ r \in Seq(Slab) /\ Len(r) = n + 1
      /\ \A j \in 1 .. n + 1 : r[j] = IF j < b THEN ls[j] ELSE IF j = b THEN t ELSE ls[j - 1]
  BY <1>0, <1>2, InsertAtProperties
<1>5. Lays(z, c, v)
  BY <1>0, <1>1, EmptyLinkedLaid
<1>6. b \in 1 .. n + 1 /\ b - 1 \in 0 .. n + 1 /\ b - 1 < b /\ ~(b < b)
  BY <1>0
<1>7. v[b - 1] = o[b - 1]
  BY <1>6
<1> HIDE DEF n, z, r, t, v
<1>8. z[b] = mk_slab /\ \A j \in 1 .. Len(z) : j # b =>
          (\E a \in 1 .. n : z[j] = ls[a])
  <2>1. z[b] = mk_slab
    BY <1>3, <1>6
  <2>2. ASSUME NEW j \in 1 .. n + 1, j # b PROVE \E a \in 1 .. n : z[j] = ls[a]
    <3>1. CASE j < b
      <4>1. j \in 1 .. n
        BY <1>0, <1>6, <3>1
      <4> QED
        BY <1>3, <3>1, <4>1
    <3>2. CASE j > b
      <4>1. j - 1 \in 1 .. n /\ ~(j < b)
        BY <1>0, <1>6, <3>2
      <4> QED
        BY <1>3, <2>2, <4>1
    <3> QED
      BY <1>6, <2>2, <3>1, <3>2
  <2> QED
    BY <1>3, <2>1, <2>2
<1>9. Holds(z, c, TRUE)
  <2>1. Capped(mk_slab, TRUE)
    BY <1>1 DEF Capped
  <2>2. \A j \in 1 .. Len(z) : Capped(z[j], TRUE)
    BY <1>0, <1>8, <2>1
  <2> QED
    BY <1>0, <1>3, <1>5, <2>2 DEF Holds
<1>10. Adds(Put(z, b, add_elem(z[b], e, 0)), c, (v[b - 1] + 0) + 1, e)
  <2>1. b \in 1 .. Len(z) /\ z[b].s_elems < SELEM_MAX /\ 0 \in 0 .. z[b].s_elems
    BY <1>0, <1>1, <1>3, <1>6, <1>8
  <2>2. \A j \in 1 .. Len(z) : j # b => z[j].s_elems > 0
    BY <1>0, <1>8
  <2> QED
    BY <1>5, <1>9, <2>1, <2>2, GainedAdds
<1>11. Put(z, b, t) = r
  <2>1. /\ Put(z, b, t) \in Seq(Slab) /\ Len(Put(z, b, t)) = n + 1
        /\ \A j \in 1 .. n + 1 : Put(z, b, t)[j] = IF j = b THEN t ELSE z[j]
    <3>1. b \in 1 .. Len(z) /\ z \in Seq(Slab) /\ t \in Slab
      BY <1>2, <1>3, <1>6
    <3>2. /\ Put(z, b, t) \in Seq(Slab) /\ Len(Put(z, b, t)) = Len(z)
          /\ \A j \in 1 .. Len(z) : Put(z, b, t)[j] = IF j = b THEN t ELSE z[j]
      <4> HIDE DEF z, t
      <4> QED
        BY ZenonT(60), <3>1, PutProperties
    <3> QED
      BY <1>3, <3>2
  <2>2. \A j \in 1 .. n + 1 : Put(z, b, t)[j] = r[j]
    BY <1>3, <1>4, <2>1
  <2> HIDE DEF Put
  <2> QED
    BY <1>4, <2>1, <2>2, SeqEqual
<1>12. (v[b - 1] + 0) + 1 = o[b - 1] + 1
  <2>1. b - 1 \in 0 .. n
    BY <1>0, <1>6
  <2>2. o[b - 1] \in Nat
    BY <1>0, <2>1, LaysFacts DEF n
  <2> QED
    BY <1>7, <2>2
<1>13. Adds(r, c, o[b - 1] + 1, e)
  BY <1>8, <1>10, <1>11, <1>12 DEF t
<1> QED
  BY <1>13 DEF r, t

\* What forgetting the last and the first element of a full slab leaves.
LEMMA DropLastFacts ==
    ASSUME NEW s \in Slab, s.s_elems = SELEM_MAX, Capped(s, TRUE)
    PROVE  /\ DropLast(s) \in Slab /\ DropLast(s).s_elems = SELEM_MAX - 1
           /\ \A j \in 0 .. SELEM_MAX - 2 : DropLast(s).s_arr[j] = s.s_arr[j]
           /\ Capped(DropLast(s), TRUE)
<1> DEFINE t == DropLast(s)
<1>0. SELEM_MAX \in Nat /\ SELEM_MAX >= 2
  BY SlabFacts
<1>1. t \in Slab /\ t.s_elems = SELEM_MAX - 1
  BY DropLastIsSlab
<1>2. t.s_arr = s.s_arr /\ t.s_min = s.s_min /\ t.s_max = s.s_arr[SELEM_MAX - 2]
  BY DEF DropLast, Slab
<1> HIDE DEF t
<1>3. Capped(t, TRUE)
  BY <1>0, <1>1, <1>2 DEF Capped, StandsFor
<1> QED
  BY <1>1, <1>2, <1>3 DEF t

LEMMA DropFirstFacts ==
    ASSUME NEW s \in Slab, s.s_elems = SELEM_MAX, Capped(s, TRUE)
    PROVE  /\ DropFirst(s) \in Slab /\ DropFirst(s).s_elems = SELEM_MAX - 1
           /\ \A j \in 0 .. SELEM_MAX - 2 : DropFirst(s).s_arr[j] = s.s_arr[j + 1]
           /\ Capped(DropFirst(s), TRUE)
<1> DEFINE t == DropFirst(s)
<1>0. /\ SELEM_MAX \in Nat /\ SELEM_MAX >= 2
      /\ \A j \in 0 .. SELEM_MAX - 1 : j \in Index
  BY SlabFacts DEF Index
<1>1. t \in Slab /\ t.s_elems = SELEM_MAX - 1
  BY DropFirstIsSlab
<1>2. /\ \A j \in 0 .. SELEM_MAX - 2 : t.s_arr[j] = s.s_arr[j + 1]
      /\ t.s_min = t.s_arr[0] /\ t.s_max = s.s_max
  <2> DEFINE arr == [j \in Index |->
                        IF j < SELEM_MAX - 1 THEN s.s_arr[j + 1] ELSE s.s_arr[j]]
  <2>1. t = SetFront(s, s.s_elems - 1, arr, arr[0])
    BY DEF DropFirst, SetFront
  <2> HIDE DEF arr, t
  <2>2. t.s_arr = arr /\ t.s_min = arr[0] /\ t.s_max = s.s_max
    BY <1>0, <2>1 DEF SetFront, Slab
  <2>3. \A j \in 0 .. SELEM_MAX - 2 : arr[j] = s.s_arr[j + 1]
    BY <1>0 DEF arr
  <2> QED
    BY <2>2, <2>3
<1> HIDE DEF t
<1>3. Capped(t, TRUE)
  <2>1. t.s_arr[SELEM_MAX - 2] = s.s_arr[SELEM_MAX - 1]
    BY <1>0, <1>2
  <2> QED
    BY <1>0, <1>1, <1>2, <2>1 DEF Capped, StandsFor
<1> QED
  BY <1>1, <1>2, <1>3 DEF t

\* The last element of a full slab goes to the front of the next, or its first to the
\* end of the previous one: the elements of the two are the same, in the same order.
LEMMA LastMovesOn ==
    ASSUME NEW s \in Slab, s.s_elems = SELEM_MAX,
           NEW t \in Slab, t.s_elems = SELEM_MAX - 1,
           \A j \in 0 .. SELEM_MAX - 2 : t.s_arr[j] = s.s_arr[j],
           NEW d \in Slab, NEW u, GainedAt(d, u, 0, s.s_arr[SELEM_MAX - 1])
    PROVE  SameRun(s, d, t, u)
<1> DEFINE m == d.s_elems
           l == SELEM_MAX - 1
<1>0. SELEM_MAX \in Nat /\ SELEM_MAX >= 2 /\ m \in Nat /\ l \in Nat /\ SELEM_MAX = l + 1
  <2>1. SELEM_MAX \in Nat /\ SELEM_MAX >= 2 /\ d.s_elems \in 0 .. SELEM_MAX
    BY SlabFacts
  <2> QED
    BY <2>1
<1>1. /\ u.s_elems = m + 1
      /\ \A j \in 0 .. m : u.s_arr[j] = IF j < 0 THEN d.s_arr[j]
                               ELSE IF j = 0 THEN s.s_arr[l] ELSE d.s_arr[j - 1]
  BY DEF GainedAt
<1>2. t.s_elems = l /\ \A j \in 0 .. l - 1 : t.s_arr[j] = s.s_arr[j]
  <2>1. SELEM_MAX - 2 = l - 1
    BY <1>0
  <2> QED
    BY <2>1
<1> HIDE DEF m, l
<1>3. ASSUME NEW j \in 0 .. (l + 1) + m - 1 PROVE AtRun(t, u, j) = AtRun(s, d, j)
  <2>1. CASE j < l
    BY <1>0, <1>2, <2>1 DEF AtRun
  <2>2. CASE j = l
    <3>1. AtRun(t, u, j) = u.s_arr[0]
      BY <1>0, <1>2, <2>2 DEF AtRun
    <3>2. AtRun(s, d, j) = s.s_arr[l]
      BY <1>0, <2>2 DEF AtRun
    <3> QED
      BY <1>0, <1>1, <3>1, <3>2
  <2>3. CASE j > l
    <3>1. AtRun(t, u, j) = u.s_arr[j - l]
      BY <1>0, <1>2, <2>3 DEF AtRun
    <3>2. AtRun(s, d, j) = d.s_arr[j - (l + 1)]
      BY <1>0, <2>3 DEF AtRun
    <3>3. j - l \in 0 .. m /\ ~(j - l < 0) /\ j - l # 0 /\ (j - l) - 1 = j - (l + 1)
      BY <1>0, <2>3
    <3> QED
      BY <1>1, <3>1, <3>2, <3>3
  <2> QED
    BY <1>0, <2>1, <2>2, <2>3
<1>4. t.s_elems + u.s_elems = s.s_elems + d.s_elems /\ s.s_elems + d.s_elems = (l + 1) + m
  BY <1>0, <1>1, <1>2 DEF m
<1>5. \A j \in 0 .. s.s_elems + d.s_elems - 1 : AtRun(t, u, j) = AtRun(s, d, j)
  <2>1. s.s_elems + d.s_elems - 1 = (l + 1) + m - 1
    <3>1. s.s_elems = l + 1 /\ d.s_elems = m
      BY <1>0 DEF m
    <3> QED
      BY <3>1
  <2> QED
    BY <1>3, <2>1
<1> QED
  BY <1>4, <1>5 DEF SameRun

LEMMA FirstMovesBack ==
    ASSUME NEW s \in Slab, s.s_elems = SELEM_MAX,
           NEW t \in Slab, t.s_elems = SELEM_MAX - 1,
           \A j \in 0 .. SELEM_MAX - 2 : t.s_arr[j] = s.s_arr[j + 1],
           NEW d \in Slab, NEW u, GainedAt(d, u, d.s_elems, s.s_arr[0])
    PROVE  SameRun(d, s, u, t)
<1> DEFINE m == d.s_elems
           l == SELEM_MAX - 1
<1>0. SELEM_MAX \in Nat /\ SELEM_MAX >= 2 /\ m \in Nat /\ l \in Nat /\ SELEM_MAX = l + 1
  <2>1. SELEM_MAX \in Nat /\ SELEM_MAX >= 2 /\ d.s_elems \in 0 .. SELEM_MAX
    BY SlabFacts
  <2> QED
    BY <2>1
<1>1. /\ u.s_elems = m + 1
      /\ \A j \in 0 .. m : u.s_arr[j] = IF j < m THEN d.s_arr[j]
                               ELSE IF j = m THEN s.s_arr[0] ELSE d.s_arr[j - 1]
  BY DEF GainedAt
<1>2. t.s_elems = l /\ \A j \in 0 .. l - 1 : t.s_arr[j] = s.s_arr[j + 1]
  <2>1. SELEM_MAX - 2 = l - 1
    BY <1>0
  <2> QED
    BY <2>1
<1>3. d.s_elems = m
  OBVIOUS
<1> HIDE DEF m, l
<1>4. ASSUME NEW j \in 0 .. m + (l + 1) - 1 PROVE AtRun(u, t, j) = AtRun(d, s, j)
  <2>1. CASE j < m
    BY <1>0, <1>1, <1>3, <2>1 DEF AtRun
  <2>2. CASE j = m
    <3>1. AtRun(u, t, j) = u.s_arr[m]
      BY <1>0, <1>1, <2>2 DEF AtRun
    <3>2. AtRun(d, s, j) = s.s_arr[0]
      BY <1>0, <1>3, <2>2 DEF AtRun
    <3> QED
      BY <1>0, <1>1, <3>1, <3>2
  <2>3. CASE j > m
    <3>1. AtRun(u, t, j) = t.s_arr[j - (m + 1)]
      BY <1>0, <1>1, <2>3 DEF AtRun
    <3>2. AtRun(d, s, j) = s.s_arr[j - m]
      BY <1>0, <1>3, <2>3 DEF AtRun
    <3>3. j - (m + 1) \in 0 .. l - 1 /\ (j - (m + 1)) + 1 = j - m
      BY <1>0, <2>3
    <3> QED
      BY <1>2, <3>1, <3>2, <3>3
  <2> QED
    BY <1>0, <2>1, <2>2, <2>3
<1>5. u.s_elems + t.s_elems = d.s_elems + s.s_elems /\ d.s_elems + s.s_elems = m + (l + 1)
  BY <1>0, <1>1, <1>2, <1>3
<1>6. \A j \in 0 .. d.s_elems + s.s_elems - 1 : AtRun(u, t, j) = AtRun(d, s, j)
  <2>1. d.s_elems + s.s_elems - 1 = m + (l + 1) - 1
    <3>1. s.s_elems = l + 1 /\ d.s_elems = m
      BY <1>0, <1>3
    <3> QED
      BY <3>1
  <2> QED
    BY <1>4, <2>1
<1> QED
  BY <1>5, <1>6 DEF SameRun

\* The chain `r' is `ls' but for two slabs.
IsPut2(r, ls, a, x, b, y) ==
    /\ r \in Seq(Slab) /\ Len(r) = Len(ls)
    /\ \A j \in 1 .. Len(ls) : r[j] = IF j = a THEN x ELSE IF j = b THEN y ELSE ls[j]

LEMMA Put2Is ==
    ASSUME NEW ls \in Seq(Slab), NEW a \in 1 .. Len(ls), NEW b \in 1 .. Len(ls),
           NEW x \in Slab, NEW y \in Slab, a # b
    PROVE  IsPut2(Put2(ls, a, x, b, y), ls, a, x, b, y)
BY Put2Properties DEF IsPut2

\* `e' goes to index `q' of the full slab `a', which spills to the next slab.
LEMMA SpillNextAdds ==
    ASSUME NEW ls, NEW c, Holds(ls, c, TRUE), NEW o, Lays(ls, c, o),
           NEW a \in 1 .. Len(ls), NEW b \in 1 .. Len(ls), b = a + 1,
           ls[a].s_elems = SELEM_MAX, ls[b].s_elems < SELEM_MAX,
           \A j \in 1 .. Len(ls) : j # b => ls[j].s_elems > 0,
           NEW e \in Elem, NEW q \in 0 .. SELEM_MAX - 1
    PROVE  Adds(addsn(ls, a, e, q), c, (o[a - 1] + q) + 1, e)
<1> DEFINE n == Len(ls)
           s == ls[a]
           last == s.s_arr[SELEM_MAX - 1]
           t == DropLast(s)
           u == add_elem(ls[b], last, 0)
           x == add_elem(t, e, q)
           m == Put2(ls, a, t, b, u)
           r == Put(m, a, x)
           v == [o EXCEPT ![a] = o[a - 1] + m[a].s_elems]
<1>0. /\ ls \in Seq(Slab) /\ c \in Seq(Elem) /\ n \in Nat
      /\ SELEM_MAX \in Nat /\ SELEM_MAX >= 2
      /\ s \in Slab /\ s.s_elems = SELEM_MAX /\ Capped(s, TRUE)
      /\ ls[b] \in Slab /\ ls[b].s_elems \in Nat /\ Capped(ls[b], TRUE)
  <2>1. ls \in Seq(Slab) /\ c \in Seq(Elem) /\ n \in Nat /\ SELEM_MAX \in Nat /\ SELEM_MAX >= 2
    BY HoldsFacts
  <2>2. \A j \in 1 .. n : ls[j] \in Slab /\ ls[j].s_elems \in 0 .. SELEM_MAX
    BY HoldsFacts
  <2>3. \A j \in 1 .. n : Capped(ls[j], TRUE)
    BY HoldsFacts
  <2>4. s \in Slab /\ s.s_elems = SELEM_MAX /\ Capped(s, TRUE)
    BY <2>2, <2>3
  <2>5. ls[b] \in Slab /\ ls[b].s_elems \in 0 .. SELEM_MAX /\ Capped(ls[b], TRUE)
    BY <2>2, <2>3
  <2>6. ls[b].s_elems \in Nat
    BY <2>1, <2>5
  <2> QED
    BY <2>1, <2>4, <2>5, <2>6
<1>a. a # b /\ a + 1 \in 1 .. n /\ a \in 1 .. n /\ b \in 1 .. n
  BY <1>0
<1>1. last \in Elem
  BY <1>0, SlabFacts
<1>2. /\ t \in Slab /\ t.s_elems = SELEM_MAX - 1 /\ Capped(t, TRUE)
      /\ \A j \in 0 .. SELEM_MAX - 2 : t.s_arr[j] = s.s_arr[j]
  BY <1>0, DropLastFacts
<1>3. u \in Slab /\ GainedAt(ls[b], u, 0, last) /\ Capped(u, TRUE)
  <2>1. 0 \in 0 .. ls[b].s_elems
    BY <1>0
  <2> QED
    BY <1>0, <1>1, <2>1, add_elemGains
<1>4. u.s_elems > 0
  BY <1>0, <1>3 DEF GainedAt
<1>5. x \in Slab
  BY <1>0, <1>2, add_elemIsSlab
<1>6. addsn(ls, a, e, q) = Put2(ls, a, x, b, u)
  <2>1. (IF q > t.s_elems THEN q - 1 ELSE q) = q
    BY <1>0, <1>2
  <2>2. addsn(ls, a, e, q) = [ls EXCEPT ![a] = add_elem(t, e, IF q > t.s_elems THEN q - 1 ELSE q),
                                        ![a + 1] = add_elem(ls[a + 1], s.s_arr[s.s_elems - 1], 0)]
    BY DEF addsn
  <2> QED
    BY <1>0, <2>1, <2>2 DEF Put2
<1> HIDE DEF s, last, t, u, x
<1>7. SameRun(s, ls[b], t, u)
  BY <1>0, <1>2, <1>3, LastMovesOn DEF last
<1>c. ls \in Seq(Slab) /\ a \in 1 .. n /\ b \in 1 .. n /\ a # b /\ t \in Slab /\ u \in Slab /\ x \in Slab
  BY <1>0, <1>2, <1>3, <1>5, <1>a
<1>8. /\ m \in Seq(Slab) /\ Len(m) = n
      /\ \A j \in 1 .. n : m[j] = IF j = a THEN t ELSE IF j = b THEN u ELSE ls[j]
  <2>1. IsPut2(m, ls, a, t, b, u)
    BY <1>c, Put2Is
  <2> HIDE DEF m
  <2> QED
    BY <2>1 DEF IsPut2
<1>9. /\ r \in Seq(Slab) /\ Len(r) = n
      /\ \A j \in 1 .. n : r[j] = IF j = a THEN x ELSE m[j]
  <2>1. a \in 1 .. Len(m)
    BY <1>8
  <2> HIDE DEF m
  <2>2. /\ r \in Seq(Slab) /\ Len(r) = Len(m)
        /\ \A j \in 1 .. Len(m) : r[j] = IF j = a THEN x ELSE m[j]
    BY <1>5, <1>8, <2>1, PutProperties
  <2> QED
    BY <1>8, <2>2
<1>10. Put2(ls, a, x, b, u) = r
  <2> DEFINE z == Put2(ls, a, x, b, u)
  <2>1. /\ z \in Seq(Slab) /\ Len(z) = n
        /\ \A j \in 1 .. n : z[j] = IF j = a THEN x ELSE IF j = b THEN u ELSE ls[j]
    <3>1. IsPut2(z, ls, a, x, b, u)
      BY <1>c, Put2Is
    <3> HIDE DEF z
    <3> QED
      BY <3>1 DEF IsPut2
  <2> HIDE DEF z, r, m
  <2>2. \A j \in 1 .. n : z[j] = r[j]
    BY <1>8, <1>9, <2>1
  <2>3. z = r
    BY <1>9, <2>1, <2>2, SeqEqual
  <2> QED
    BY <2>3 DEF z
<1> HIDE DEF r, m
<1>11. m[a] = t /\ m[b] = u
  BY <1>8, <1>a
<1>12. \A j \in 1 .. n : j # a /\ j # b => m[j] = ls[j]
  BY <1>8
<1>13. SameRun(ls[a], ls[b], m[a], m[b])
  BY <1>7, <1>11 DEF s
<1>14. Lays(m, c, v)
  BY <1>0, <1>8, <1>12, <1>13, TwoLaid
<1>15. Holds(m, c, TRUE)
  BY <1>2, <1>3, <1>8, <1>11, <1>12, <1>13, TwoHeld
<1>16. v[a - 1] = o[a - 1]
  <2>1. a - 1 # a
    BY <1>a
  <2> QED
    BY <2>1
<1> HIDE DEF v
<1>17. Adds(Put(m, a, add_elem(m[a], e, q)), c, (v[a - 1] + q) + 1, e)
  <2>1. a \in 1 .. Len(m) /\ m[a].s_elems < SELEM_MAX /\ q \in 0 .. m[a].s_elems
    BY <1>0, <1>2, <1>8, <1>11
  <2>2. \A j \in 1 .. Len(m) : j # a => m[j].s_elems > 0
    BY <1>4, <1>8, <1>11, <1>12
  <2> QED
    BY <1>14, <1>15, <2>1, <2>2, GainedAdds
<1> QED
  BY <1>6, <1>10, <1>11, <1>16, <1>17 DEF r, x

\* The same with a spill to the previous slab.  No element may go before the one
\* that is spilled.
LEMMA SpillPrevAdds ==
    ASSUME NEW ls, NEW c, Holds(ls, c, TRUE), NEW o, Lays(ls, c, o),
           NEW a \in 1 .. Len(ls), NEW b \in 1 .. Len(ls), b = a - 1,
           ls[a].s_elems = SELEM_MAX, ls[b].s_elems < SELEM_MAX,
           \A j \in 1 .. Len(ls) : ls[j].s_elems > 0,
           NEW e \in Elem, NEW q \in 1 .. SELEM_MAX
    PROVE  Adds(addsp(ls, a, e, q), c, (o[a - 1] + q) + 1, e)
<1> DEFINE n == Len(ls)
           s == ls[a]
           first == s.s_arr[0]
           t == DropFirst(s)
           u == add_elem(ls[b], first, ls[b].s_elems)
           x == add_elem(t, e, q - 1)
           m == Put2(ls, a, t, b, u)
           r == Put(m, a, x)
           v == [o EXCEPT ![b] = o[b - 1] + m[b].s_elems]
<1>0. /\ ls \in Seq(Slab) /\ c \in Seq(Elem) /\ n \in Nat
      /\ SELEM_MAX \in Nat /\ SELEM_MAX >= 2
      /\ s \in Slab /\ s.s_elems = SELEM_MAX /\ Capped(s, TRUE)
      /\ ls[b] \in Slab /\ ls[b].s_elems \in Nat /\ Capped(ls[b], TRUE)
  <2>1. ls \in Seq(Slab) /\ c \in Seq(Elem) /\ n \in Nat /\ SELEM_MAX \in Nat /\ SELEM_MAX >= 2
    BY HoldsFacts
  <2>2. \A j \in 1 .. n : ls[j] \in Slab /\ ls[j].s_elems \in 0 .. SELEM_MAX
    BY HoldsFacts
  <2>3. \A j \in 1 .. n : Capped(ls[j], TRUE)
    BY HoldsFacts
  <2>4. s \in Slab /\ s.s_elems = SELEM_MAX /\ Capped(s, TRUE)
    BY <2>2, <2>3
  <2>5. ls[b] \in Slab /\ ls[b].s_elems \in 0 .. SELEM_MAX /\ Capped(ls[b], TRUE)
    BY <2>2, <2>3
  <2>6. ls[b].s_elems \in Nat
    BY <2>1, <2>5
  <2> QED
    BY <2>1, <2>4, <2>5, <2>6
<1>a. a # b /\ a - 1 \in 1 .. n /\ a \in 1 .. n /\ b \in 1 .. n /\ a = b + 1 /\ a - 1 = b
  BY <1>0
<1>1. first \in Elem
  BY <1>0, SlabFacts
<1>2. /\ t \in Slab /\ t.s_elems = SELEM_MAX - 1 /\ Capped(t, TRUE)
      /\ \A j \in 0 .. SELEM_MAX - 2 : t.s_arr[j] = s.s_arr[j + 1]
  BY <1>0, DropFirstFacts
<1>3. u \in Slab /\ GainedAt(ls[b], u, ls[b].s_elems, first) /\ Capped(u, TRUE)
  <2>1. ls[b].s_elems \in 0 .. ls[b].s_elems
    BY <1>0
  <2> QED
    BY <1>0, <1>1, <2>1, add_elemGains
<1>4. u.s_elems = ls[b].s_elems + 1 /\ u.s_elems > 0
  BY <1>0, <1>3 DEF GainedAt
<1>5. x \in Slab
  BY <1>0, <1>2, add_elemIsSlab
<1>6. addsp(ls, a, e, q) = Put2(ls, a, x, b, u)
  <2>1. (IF q > 0 THEN q - 1 ELSE q) = q - 1
    BY <1>0
  <2> QED
    BY <2>1, <1>0 DEF addsp, Put2
<1> HIDE DEF s, first, t, u, x
<1>7. SameRun(ls[b], s, u, t)
  BY <1>0, <1>2, <1>3, FirstMovesBack DEF first
<1>c. ls \in Seq(Slab) /\ a \in 1 .. n /\ b \in 1 .. n /\ a # b /\ t \in Slab /\ u \in Slab /\ x \in Slab
  BY <1>0, <1>2, <1>3, <1>5, <1>a
<1>8. /\ m \in Seq(Slab) /\ Len(m) = n
      /\ \A j \in 1 .. n : m[j] = IF j = a THEN t ELSE IF j = b THEN u ELSE ls[j]
  <2>1. IsPut2(m, ls, a, t, b, u)
    BY <1>c, Put2Is
  <2> HIDE DEF m
  <2> QED
    BY <2>1 DEF IsPut2
<1>9. /\ r \in Seq(Slab) /\ Len(r) = n
      /\ \A j \in 1 .. n : r[j] = IF j = a THEN x ELSE m[j]
  <2>1. a \in 1 .. Len(m)
    BY <1>8
  <2> HIDE DEF m
  <2>2. /\ r \in Seq(Slab) /\ Len(r) = Len(m)
        /\ \A j \in 1 .. Len(m) : r[j] = IF j = a THEN x ELSE m[j]
    BY <1>5, <1>8, <2>1, PutProperties
  <2> QED
    BY <1>8, <2>2
<1>10. Put2(ls, a, x, b, u) = r
  <2> DEFINE z == Put2(ls, a, x, b, u)
  <2>1. /\ z \in Seq(Slab) /\ Len(z) = n
        /\ \A j \in 1 .. n : z[j] = IF j = a THEN x ELSE IF j = b THEN u ELSE ls[j]
    <3>1. IsPut2(z, ls, a, x, b, u)
      BY <1>c, Put2Is
    <3> HIDE DEF z
    <3> QED
      BY <3>1 DEF IsPut2
  <2> HIDE DEF z, r, m
  <2>2. \A j \in 1 .. n : z[j] = r[j]
    BY <1>8, <1>9, <2>1
  <2>3. z = r
    BY <1>9, <2>1, <2>2, SeqEqual
  <2> QED
    BY <2>3 DEF z
<1> HIDE DEF r, m
<1>11. m[a] = t /\ m[b] = u
  BY <1>8, <1>a
<1>12. \A j \in 1 .. n : j # b /\ j # a => m[j] = ls[j]
  BY <1>8
<1>13. SameRun(ls[b], ls[a], m[b], m[a])
  BY <1>7, <1>11 DEF s
<1>14. Lays(m, c, v)
  BY <1>0, <1>8, <1>12, <1>13, <1>a, TwoLaid
<1>15. Holds(m, c, TRUE)
  BY <1>2, <1>3, <1>8, <1>11, <1>12, <1>13, <1>a, TwoHeld
<1>16. v[a - 1] = o[a - 1] + 1 /\ o[a - 1] \in Nat
  <2>1. o[b] = o[b - 1] + ls[b].s_elems /\ b - 1 \in 0 .. n /\ b \in 0 .. n
    BY <1>0, <1>a, LaysFacts
  <2>2. o[b - 1] \in Nat /\ o[b] \in Nat
    BY <1>0, <2>1, LaysFacts
  <2>3. DOMAIN o = 0 .. n
    BY DEF Lays, Offsets
  <2>4. v[b] = o[b - 1] + m[b].s_elems
    BY <2>1, <2>3
  <2> HIDE DEF v
  <2>5. v[b] = o[b] + 1
    BY <1>0, <1>4, <1>11, <2>1, <2>2, <2>4
  <2> QED
    BY <1>a, <2>2, <2>5
<1> HIDE DEF v
<1>17. Adds(Put(m, a, add_elem(m[a], e, q - 1)), c, (v[a - 1] + (q - 1)) + 1, e)
  <2>1. a \in 1 .. Len(m) /\ m[a].s_elems < SELEM_MAX /\ q - 1 \in 0 .. m[a].s_elems
    BY <1>0, <1>2, <1>8, <1>11
  <2>2. \A j \in 1 .. Len(m) : j # a => m[j].s_elems > 0
    BY <1>4, <1>8, <1>11, <1>12
  <2> QED
    BY <1>14, <1>15, <2>1, <2>2, GainedAdds
<1>18. (v[a - 1] + (q - 1)) + 1 = (o[a - 1] + q) + 1
  BY <1>0, <1>16
<1> QED
  BY <1>6, <1>10, <1>11, <1>17, <1>18 DEF r, x

\* The same with a spill to a new slab linked in behind slab `a'.
LEMMA SpillNewAdds ==
    ASSUME NEW ls, NEW c, Stands(ls, c), NEW o, Lays(ls, c, o),
           NEW a \in 1 .. Len(ls), ls[a].s_elems = SELEM_MAX,
           NEW e \in Elem, NEW q \in 0 .. SELEM_MAX - 1
    PROVE  Adds(addsn(InsertAt(ls, a + 1, mk_slab), a, e, q), c, (o[a - 1] + q) + 1, e)
<1> DEFINE n == Len(ls)
           b == a + 1
           z == InsertAt(ls, b, mk_slab)
           v == [j \in 0 .. n + 1 |-> IF j < b THEN o[j] ELSE o[j - 1]]
<1>0. /\ ls \in Seq(Slab) /\ c \in Seq(Elem) /\ n \in Nat
      /\ SELEM_MAX \in Nat /\ SELEM_MAX >= 2
      /\ \A j \in 1 .. n : Capped(ls[j], TRUE) /\ ls[j].s_elems > 0
  BY HoldsFacts DEF Stands
<1>1. mk_slab \in Slab /\ mk_slab.s_elems = 0
  BY mk_slabIsSlab
<1>2. b \in 1 .. n + 1 /\ a - 1 \in 0 .. n + 1 /\ a - 1 < b /\ a < b /\ a \in 1 .. n + 1
  BY <1>0
<1>3. /\ z \in Seq(Slab) /\ Len(z) = n + 1
      /\ \A j \in 1 .. n + 1 :
            z[j] = IF j < b THEN ls[j] ELSE IF j = b THEN mk_slab ELSE ls[j - 1]
  <2> HIDE DEF b
  <2> QED
    BY <1>0, <1>1, <1>2, InsertAtProperties
<1>5. Lays(z, c, v)
  BY <1>0, <1>1, <1>2, EmptyLinkedLaid
<1>7. v[a - 1] = o[a - 1]
  BY <1>2
<1>b. a + 1 = b
  OBVIOUS
<1> HIDE DEF n, z, v, b
<1>8. z[b] = mk_slab /\ z[a] = ls[a] /\ \A j \in 1 .. Len(z) : j # b =>
          (\E i \in 1 .. n : z[j] = ls[i])
  <2>1. z[b] = mk_slab
    <3>1. ~(b < b)
      BY <1>2
    <3> QED
      BY <1>2, <1>3, <3>1
  <2>a. z[a] = ls[a]
    BY <1>2, <1>3
  <2>2. ASSUME NEW j \in 1 .. n + 1, j # b PROVE \E i \in 1 .. n : z[j] = ls[i]
    <3>1. CASE j < b
      <4>1. j \in 1 .. n
        BY <1>0, <1>2, <3>1
      <4> QED
        BY <1>3, <3>1, <4>1
    <3>2. CASE j > b
      <4>1. j - 1 \in 1 .. n /\ ~(j < b)
        BY <1>0, <1>2, <3>2
      <4> QED
        BY <1>3, <2>2, <4>1
    <3> QED
      BY <1>2, <2>2, <3>1, <3>2
  <2> QED
    BY <1>3, <2>1, <2>a, <2>2
<1>9. Holds(z, c, TRUE)
  <2>1. Capped(mk_slab, TRUE)
    BY <1>1 DEF Capped
  <2>2. \A j \in 1 .. Len(z) : Capped(z[j], TRUE)
    BY <1>0, <1>8, <2>1
  <2> QED
    BY <1>0, <1>3, <1>5, <2>2 DEF Holds
<1>10. /\ a \in 1 .. Len(z) /\ b \in 1 .. Len(z) /\ z[a].s_elems = SELEM_MAX
       /\ z[b].s_elems < SELEM_MAX
       /\ \A j \in 1 .. Len(z) : j # b => z[j].s_elems > 0
  <2>1. a \in 1 .. Len(z) /\ b \in 1 .. Len(z)
    BY <1>2, <1>3
  <2>2. z[a].s_elems = SELEM_MAX /\ z[b].s_elems < SELEM_MAX
    BY <1>0, <1>1, <1>8
  <2>3. \A j \in 1 .. Len(z) : j # b => z[j].s_elems > 0
    BY <1>0, <1>8
  <2> QED
    BY <2>1, <2>2, <2>3
<1>11. Adds(addsn(z, a, e, q), c, (v[a - 1] + q) + 1, e)
  BY <1>5, <1>9, <1>10, <1>b, SpillNextAdds
<1> QED
  BY <1>7, <1>11 DEF z, b

-----------------------------------------------------------------------------
(* The searches of a temporary list *)

LEMMA KeysAreNats == \A x \in Elem : x.key \in Nat
BY ElemAssumption DEF Elem

LEMMA MaxOfRange ==
    ASSUME NEW a \in Nat, NEW n \in Nat, NEW S \in SUBSET (a .. n), S # {}
    PROVE  Max(S) \in S /\ \A y \in S : y <= Max(S)
<1> DEFINE T == {n - y : y \in S}
           m == n - Min(T)
<1>1. T \in SUBSET Nat /\ T # {}
  <2>1. ASSUME NEW y \in S PROVE n - y \in Nat
    <3>1. y \in a .. n
      OBVIOUS
    <3> QED
      BY <3>1
  <2> QED
    BY <2>1
<1>2. Min(T) \in T /\ \A y \in T : Min(T) <= y
  BY <1>1, MinOfNats
<1>3. m \in S /\ \A y \in S : m >= y
  <2>1. PICK x \in S : Min(T) = n - x
    BY <1>2
  <2>2. m = x
    BY <2>1
  <2>3. ASSUME NEW y \in S PROVE x >= y
    <3>1. n - y \in T
      OBVIOUS
    <3>2. n - x <= n - y
      BY <1>2, <2>1, <3>1
    <3>3. x \in Nat /\ y \in Nat
      OBVIOUS
    <3> QED
      BY <3>2, <3>3
  <2> QED
    BY <2>2, <2>3
<1> HIDE DEF m, T
<1>4. Max(S) \in S /\ \A y \in S : Max(S) >= y
  BY <1>3 DEF Max
<1>5. \A y \in S : y \in Nat
  OBVIOUS
<1> QED
  BY <1>4, <1>5

LEMMA slab_get_last_elemFacts ==
    ASSUME NEW s \in Slab, NEW k \in Nat
    PROVE  LET q == slab_get_last_elem(k, s)
           IN  /\ q \in 0 .. s.s_elems
               /\ q < s.s_elems => k < s.s_arr[q].key
               /\ \A j \in 0 .. s.s_elems - 1 : j < q => s.s_arr[j].key <= k
<1> DEFINE n == s.s_elems
           S == {i \in 0 .. n : i = n \/ k < s.s_arr[i].key}
           q == slab_get_last_elem(k, s)
<1>0. n \in Nat /\ \A j \in 0 .. n - 1 : s.s_arr[j].key \in Nat
  BY SlabFacts
<1>1. S \in SUBSET Nat /\ n \in S
  BY <1>0
<1>2. q = Min(S)
  BY DEF slab_get_last_elem
<1>3. q \in S /\ \A y \in S : q <= y
  BY <1>1, <1>2, MinOfNats
<1> HIDE DEF q
<1>4. q \in 0 .. n /\ (q < n => k < s.s_arr[q].key)
  BY <1>0, <1>3
<1>5. ASSUME NEW j \in 0 .. n - 1, j < q PROVE s.s_arr[j].key <= k
  <2>1. j \notin S
    BY <1>0, <1>3, <1>4, <1>5
  <2>2. j \in 0 .. n /\ s.s_arr[j].key \in Nat
    BY <1>0
  <2> QED
    BY <2>1, <2>2
<1> HIDE DEF S
<1> QED
  BY <1>4, <1>5 DEF q

LEMMA LinearScanFacts ==
    ASSUME NEW ls \in Seq(Slab), Len(ls) > 0, NEW k \in Nat
    PROVE  LET a == find_linear_scan(ls, k)
           IN  /\ a \in 1 .. Len(ls)
               /\ a = Len(ls) \/ k <= ls[a].s_max.key
               /\ \A j \in 1 .. Len(ls) : j < a => ls[j].s_max.key < k
<1> DEFINE n == Len(ls)
           S == {i \in 1 .. n : i = n \/ k <= ls[i].s_max.key}
           a == find_linear_scan(ls, k)
<1>0. n \in Nat /\ n > 0 /\ DOMAIN ls = 1 .. n /\ \A j \in 1 .. n : ls[j].s_max.key \in Nat
  <2>1. n \in Nat /\ n > 0 /\ DOMAIN ls = 1 .. n /\ \A j \in 1 .. n : ls[j] \in Slab
    BY SlabAt
  <2> QED
    BY <2>1, SlabFacts
<1>1. S \in SUBSET Nat /\ n \in S
  BY <1>0
<1>2. a = Min(S)
  BY <1>0 DEF find_linear_scan
<1>3. a \in S /\ \A y \in S : a <= y
  BY <1>1, <1>2, MinOfNats
<1> HIDE DEF a
<1>4. a \in 1 .. n /\ (a = n \/ k <= ls[a].s_max.key)
  BY <1>0, <1>3
<1>5. ASSUME NEW j \in 1 .. n, j < a PROVE ls[j].s_max.key < k
  <2>1. j \notin S
    <3> HIDE DEF S, n
    <3>1. a \in Nat /\ j \in Nat
      BY <1>0, <1>4
    <3> QED
      BY <1>3, <1>5, <3>1
  <2>2. ls[j].s_max.key \in Nat
    BY <1>0
  <2> QED
    BY <2>1, <2>2
<1> HIDE DEF S
<1> QED
  BY <1>4, <1>5 DEF a

\* Past the run of slabs that do not begin above `k'.
LEMMA list_get_last_slabFacts ==
    ASSUME NEW ls \in Seq(Slab), NEW k \in Nat, NEW a \in 1 .. Len(ls)
    PROVE  LET b == list_get_last_slab(ls, k, a)
           IN  /\ b \in a .. Len(ls)
               /\ a < b => sl_bnd_elem(k, ls[b]) # "UNDER"
               /\ b < Len(ls) => sl_bnd_elem(k, ls[b + 1]) = "UNDER"
<1> DEFINE n == Len(ls)
           S == {b \in a .. n : \A c \in a + 1 .. b : sl_bnd_elem(k, ls[c]) # "UNDER"}
           b == list_get_last_slab(ls, k, a)
<1>0. n \in Nat /\ a \in Nat
  BY SlabAt
<1>1. a \in S
  BY <1>0
<1>2. b = Max(S)
  BY DEF list_get_last_slab
<1>3. b \in S /\ \A y \in S : y <= b
  BY <1>0, <1>1, <1>2, MaxOfRange
<1> HIDE DEF b
<1>4. /\ b \in a .. n /\ b \in Nat
      /\ \A c \in a + 1 .. b : sl_bnd_elem(k, ls[c]) # "UNDER"
  BY <1>0, <1>3
<1>5. a < b => sl_bnd_elem(k, ls[b]) # "UNDER"
  BY <1>0, <1>4
<1>6. ASSUME b < n, sl_bnd_elem(k, ls[b + 1]) # "UNDER" PROVE FALSE
  <2>1. b + 1 \in a .. n
    BY <1>0, <1>4, <1>6
  <2>2. ASSUME NEW c \in a + 1 .. b + 1 PROVE sl_bnd_elem(k, ls[c]) # "UNDER"
    <3>1. c \in a + 1 .. b \/ c = b + 1
      BY <1>0, <1>4
    <3> QED
      BY <1>4, <1>6, <3>1
  <2>3. b + 1 \in S
    BY <2>1, <2>2
  <2> QED
    BY <1>3, <1>4, <2>3
<1> HIDE DEF S
<1> QED
  BY <1>4, <1>5, <1>6 DEF b

-----------------------------------------------------------------------------
(* Where an element belongs *)

KeysRise(c) == \A i, j \in 1 .. Len(c) : i < j => c[i].key <= c[j].key

\* Behind what is not above `k', before what is.
Behind(c, p, k) ==
    /\ \A j \in 1 .. Len(c) : j < p => c[j].key <= k
    /\ \A j \in 1 .. Len(c) : p <= j => k < c[j].key

LEMMA BehindNeighbours ==
    ASSUME NEW c \in Seq(Elem), KeysRise(c), NEW k \in Nat, NEW p \in 1 .. Len(c) + 1,
           p > 1 => c[p - 1].key <= k, p <= Len(c) => k < c[p].key
    PROVE  Behind(c, p, k)
<1>0. Len(c) \in Nat /\ \A j \in 1 .. Len(c) : c[j].key \in Nat
  <2>1. Len(c) \in Nat /\ \A j \in 1 .. Len(c) : c[j] \in Elem
    OBVIOUS
  <2> QED
    BY <2>1, KeysAreNats
<1>1. ASSUME NEW j \in 1 .. Len(c), j < p PROVE c[j].key <= k
  <2>1. p - 1 \in 1 .. Len(c) /\ p > 1 /\ (j = p - 1 \/ j < p - 1)
    BY <1>0, <1>1
  <2>2. c[j].key \in Nat /\ c[p - 1].key \in Nat /\ c[p - 1].key <= k
    BY <1>0, <2>1
  <2>3. j < p - 1 => c[j].key <= c[p - 1].key
    BY <2>1 DEF KeysRise
  <2> QED
    BY <2>1, <2>2, <2>3
<1>2. ASSUME NEW j \in 1 .. Len(c), p <= j PROVE k < c[j].key
  <2>1. p \in 1 .. Len(c) /\ (j = p \/ p < j)
    BY <1>0, <1>2
  <2>2. c[j].key \in Nat /\ c[p].key \in Nat /\ k < c[p].key
    BY <1>0, <2>1
  <2>3. p < j => c[p].key <= c[j].key
    BY <2>1 DEF KeysRise
  <2> QED
    BY <2>1, <2>2, <2>3
<1> QED
  BY <1>1, <1>2 DEF Behind

\* A slab of a chain that stands: its part of `c', and its extrema.
LEMMA StandsFacts ==
    ASSUME NEW ls, NEW c, Stands(ls, c), NEW o, Lays(ls, c, o), NEW a \in 1 .. Len(ls)
    PROVE  /\ Len(ls) \in Nat /\ Len(c) \in Nat /\ c \in Seq(Elem) /\ ls \in Seq(Slab)
           /\ ls[a] \in Slab /\ ls[a].s_elems \in 1 .. SELEM_MAX /\ ls[a].s_elems \in Nat
           /\ o[a - 1] \in Nat /\ o[a] \in Nat /\ o[a] = o[a - 1] + ls[a].s_elems
           /\ o[a] <= Len(c)
           /\ \A i \in 0 .. ls[a].s_elems - 1 : c[(o[a - 1] + i) + 1] = ls[a].s_arr[i]
           /\ c[o[a - 1] + 1] = ls[a].s_min /\ c[o[a]] = ls[a].s_max
           /\ ls[a].s_min = ls[a].s_arr[0] /\ ls[a].s_max = ls[a].s_arr[ls[a].s_elems - 1]
           /\ ls[a].s_min.key \in Nat /\ ls[a].s_max.key \in Nat
<1> DEFINE s == ls[a]
           m == s.s_elems
           w == o[a - 1]
<1>0. /\ ls \in Seq(Slab) /\ c \in Seq(Elem) /\ Len(ls) \in Nat /\ Len(c) \in Nat
      /\ s \in Slab /\ m \in 0 .. SELEM_MAX /\ Capped(s, TRUE) /\ m > 0 /\ SELEM_MAX \in Nat
  BY HoldsFacts DEF Stands
<1>1. w \in Nat /\ o[a] \in Nat /\ o[a] = w + m /\ o[a] <= Len(c) /\ Continues(c, w, s)
  BY <1>0, LaysFacts
<1>2. s.s_min = s.s_arr[0] /\ s.s_max = s.s_arr[m - 1]
  BY <1>0 DEF Capped, StandsFor
<1>3. \A i \in 0 .. m - 1 : c[(w + i) + 1] = s.s_arr[i]
  BY <1>1 DEF Continues
<1>4. s.s_min.key \in Nat /\ s.s_max.key \in Nat
  BY <1>0, SlabFacts
<1> HIDE DEF m, w, s
<1>5. m \in 1 .. SELEM_MAX /\ m \in Nat
  BY <1>0
<1>6. c[w + 1] = s.s_min
  <2>1. 0 \in 0 .. m - 1 /\ (w + 0) + 1 = w + 1
    BY <1>1, <1>5
  <2> QED
    BY <1>2, <1>3, <2>1
<1>7. c[o[a]] = s.s_max
  <2>1. m - 1 \in 0 .. m - 1 /\ (w + (m - 1)) + 1 = o[a]
    BY <1>1, <1>5
  <2> QED
    BY <1>2, <1>3, <2>1
<1>8. o[a] = w + m
  BY <1>1
<1> QED
  BY <1>0, <1>1, <1>2, <1>3, <1>4, <1>5, <1>6, <1>7, <1>8 DEF m, w, s

\* Index `q' of slab `a' is where `k' belongs.
LEMMA GapBehind ==
    ASSUME NEW ls, NEW c, Stands(ls, c), KeysRise(c), NEW o, Lays(ls, c, o),
           NEW a \in 1 .. Len(ls), NEW k \in Nat, NEW q \in 0 .. ls[a].s_elems,
           q > 0 => ls[a].s_arr[q - 1].key <= k,
           q = 0 => a = 1 \/ ls[a - 1].s_max.key <= k,
           q < ls[a].s_elems => k < ls[a].s_arr[q].key,
           q = ls[a].s_elems => a = Len(ls) \/ k < ls[a + 1].s_min.key
    PROVE  Behind(c, (o[a - 1] + q) + 1, k)
<1> DEFINE s == ls[a]
           m == s.s_elems
           w == o[a - 1]
           p == (w + q) + 1
<1>0. /\ Len(c) \in Nat /\ c \in Seq(Elem) /\ m \in Nat /\ w \in Nat /\ Len(ls) \in Nat
      /\ w + m <= Len(c) /\ q \in 0 .. m
      /\ \A i \in 0 .. m - 1 : c[(w + i) + 1] = s.s_arr[i]
  <2>1. /\ Len(c) \in Nat /\ c \in Seq(Elem) /\ m \in Nat /\ w \in Nat /\ Len(ls) \in Nat
        /\ o[a] = w + m /\ o[a] <= Len(c)
    BY StandsFacts
  <2>2. \A i \in 0 .. m - 1 : c[(w + i) + 1] = s.s_arr[i]
    <3>1. Continues(c, o[a - 1], ls[a])
      BY Zenon DEF Lays
    <3> QED
      BY <3>1 DEF Continues
  <2>3. q \in 0 .. m
    OBVIOUS
  <2> HIDE DEF m, w, s
  <2>4. w + m <= Len(c)
    BY <2>1
  <2> QED
    BY <2>1, <2>2, <2>3, <2>4
<1>a. /\ q > 0 => s.s_arr[q - 1].key <= k
      /\ q < m => k < s.s_arr[q].key
  OBVIOUS
<1>b. o[0] = 0 /\ o[Len(ls)] = Len(c)
  BY DEF Lays, Offsets
<1>c. o[a] = w + m
  BY StandsFacts
<1> HIDE DEF m, s, w
<1>1. p \in 1 .. Len(c) + 1
  BY <1>0
<1>2. ASSUME p > 1 PROVE c[p - 1].key <= k
  <2>1. CASE q > 0
    <3>1. q - 1 \in 0 .. m - 1 /\ (w + (q - 1)) + 1 = p - 1
      BY <1>0, <2>1
    <3>2. c[(w + (q - 1)) + 1] = s.s_arr[q - 1]
      BY <1>0, <3>1
    <3> QED
      BY <1>a, <2>1, <3>1, <3>2
  <2>2. CASE q = 0
    <3>1. p - 1 = w /\ w # 0
      BY <1>0, <1>2, <2>2
    <3>2. a # 1
      BY <1>b, <3>1 DEF w
    <3>3. a - 1 \in 1 .. Len(ls)
      BY <1>0, <3>2
    <3>4. c[o[a - 1]] = ls[a - 1].s_max
      BY <3>3, StandsFacts
    <3> QED
      BY <2>2, <3>1, <3>2, <3>4 DEF w
  <2> QED
    BY <1>0, <2>1, <2>2
<1>3. ASSUME p <= Len(c) PROVE k < c[p].key
  <2>1. CASE q < m
    <3>1. q \in 0 .. m - 1
      BY <1>0, <2>1
    <3> QED
      BY <1>0, <1>a, <2>1, <3>1
  <2>2. CASE q = m
    <3>1. p = o[a] + 1 /\ o[a] # Len(c)
      BY <1>0, <1>3, <1>c, <2>2
    <3>2. a # Len(ls)
      BY <1>b, <3>1
    <3>3. a + 1 \in 1 .. Len(ls) /\ (a + 1) - 1 = a
      BY <1>0, <3>2
    <3>4. c[o[(a + 1) - 1] + 1] = ls[a + 1].s_min
      BY <3>3, StandsFacts
    <3> QED
      BY <2>2, <3>1, <3>2, <3>3, <3>4 DEF m, s
  <2> QED
    BY <1>0, <2>1, <2>2
<1> HIDE DEF p
<1>4. Behind(c, p, k)
  BY <1>0, <1>1, <1>2, <1>3, BehindNeighbours
<1> QED
  BY <1>4 DEF p, w

-----------------------------------------------------------------------------
(* Additions to a temporary list *)

\* `r' holds `e' behind all elements of `c' that are not above it.
Placed(r, c, e) == \E p : Adds(r, c, p, e) /\ Behind(c, p, e.key)

\* The extrema of a slab, and of two slabs, rise.
LEMMA ExtremaRise ==
    ASSUME NEW ls, NEW c, Stands(ls, c), KeysRise(c), NEW o, Lays(ls, c, o)
    PROVE  /\ \A a \in 1 .. Len(ls) : ls[a].s_min.key <= ls[a].s_max.key
           /\ \A a, b \in 1 .. Len(ls) : a < b => ls[a].s_max.key <= ls[b].s_min.key
<1>1. ASSUME NEW a \in 1 .. Len(ls) PROVE ls[a].s_min.key <= ls[a].s_max.key
  <2> DEFINE w == o[a - 1]
             m == ls[a].s_elems
  <2>1. /\ c[w + 1] = ls[a].s_min /\ c[o[a]] = ls[a].s_max /\ ls[a].s_min.key \in Nat
        /\ w \in Nat /\ m \in Nat /\ o[a] = w + m /\ o[a] <= Len(c) /\ Len(c) \in Nat
    BY StandsFacts
  <2>2. m \in 1 .. SELEM_MAX
    BY StandsFacts
  <2> HIDE DEF w, m
  <2>3. w + 1 \in 1 .. Len(c) /\ o[a] \in 1 .. Len(c) /\ (w + 1 = o[a] \/ w + 1 < o[a])
    BY <2>1, <2>2
  <2>4. w + 1 < o[a] => c[w + 1].key <= c[o[a]].key
    BY <2>3 DEF KeysRise
  <2> QED
    BY <2>1, <2>3, <2>4
<1>2. ASSUME NEW a \in 1 .. Len(ls), NEW b \in 1 .. Len(ls), a < b
      PROVE  ls[a].s_max.key <= ls[b].s_min.key
  <2> DEFINE w == o[b - 1]
             u == o[a]
  <2>1. c[w + 1] = ls[b].s_min /\ w \in Nat /\ o[b] \in Nat /\ o[b] <= Len(c) /\ Len(c) \in Nat
    BY StandsFacts
  <2>2. o[b] = w + ls[b].s_elems /\ ls[b].s_elems \in 1 .. SELEM_MAX
    BY StandsFacts
  <2>3. c[u] = ls[a].s_max /\ u \in Nat
    BY StandsFacts
  <2>4. u = o[a - 1] + ls[a].s_elems /\ ls[a].s_elems \in 1 .. SELEM_MAX /\ o[a - 1] \in Nat
    BY StandsFacts
  <2>5. u <= w
    <3>1. ls \in Seq(Slab) /\ Len(ls) \in Nat /\ Offsets(ls, o)
      BY StandsFacts DEF Lays
    <3>2. a \in 0 .. Len(ls) /\ b - 1 \in 0 .. Len(ls) /\ a <= b - 1
      BY <1>2, <3>1
    <3> QED
      BY <3>1, <3>2, OffsetsRise
  <2> HIDE DEF w, u
  <2>6. u \in 1 .. Len(c) /\ w + 1 \in 1 .. Len(c) /\ u < w + 1
    <3> DEFINE t == o[b]
               l == Len(c)
               j == ls[b].s_elems
               h == o[a - 1]
               i == ls[a].s_elems
    <3>1. /\ w \in Nat /\ t \in Nat /\ t <= l /\ l \in Nat /\ t = w + j
          /\ j \in Nat /\ 1 <= j /\ u \in Nat /\ u = h + i /\ i \in Nat /\ 1 <= i
          /\ h \in Nat /\ u <= w
      <4>1. j \in 1 .. SELEM_MAX /\ i \in 1 .. SELEM_MAX
        BY <2>2, <2>4
      <4>2. t = w + j /\ u = h + i
        BY <2>2, <2>4
      <4>3. w \in Nat /\ t \in Nat /\ t <= l /\ l \in Nat /\ u \in Nat /\ h \in Nat
        BY <2>1, <2>3, <2>4
      <4> HIDE DEF t, l, j, h, i
      <4>4. j \in Nat /\ 1 <= j /\ i \in Nat /\ 1 <= i
        BY <4>1, SlabSizeAssumption
      <4> QED
        BY <2>5, <4>2, <4>3, <4>4
    <3> HIDE DEF t, l, j, h, i
    <3>2. 1 <= u /\ u <= l /\ 1 <= w + 1 /\ w + 1 <= l /\ u < w + 1
      BY <3>1
    <3> QED
      BY <3>1, <3>2 DEF l
  <2>7. c[u].key <= c[w + 1].key
    BY <2>6 DEF KeysRise
  <2> QED
    BY <2>1, <2>3, <2>7
<1> QED
  BY <1>1, <1>2

\* SortInto on a slab with room.
LEMMA RoomPlaces ==
    ASSUME NEW ls, NEW c, Stands(ls, c), KeysRise(c), NEW o, Lays(ls, c, o),
           NEW a \in 1 .. Len(ls), ls[a].s_elems < SELEM_MAX, NEW e \in Elem,
           a = 1 \/ ls[a - 1].s_max.key <= e.key \/ ls[a].s_min.key <= e.key,
           a = Len(ls) \/ e.key < ls[a + 1].s_min.key \/ e.key < ls[a].s_max.key
    PROVE  Placed(SortInto(ls, a, e), c, e)
<1> DEFINE s == ls[a]
           k == e.key
           m == s.s_elems
           q == slab_get_last_elem(k, s)
<1>0. /\ k \in Nat /\ s \in Slab /\ m \in Nat /\ m > 0
      /\ s.s_min = s.s_arr[0] /\ s.s_max = s.s_arr[m - 1]
      /\ s.s_min.key \in Nat /\ s.s_max.key \in Nat
  <2>1. k \in Nat
    BY KeysAreNats
  <2>2. s \in Slab /\ m \in 1 .. SELEM_MAX /\ m \in Nat
    BY StandsFacts
  <2>3. /\ s.s_min = s.s_arr[0] /\ s.s_max = s.s_arr[m - 1]
        /\ s.s_min.key \in Nat /\ s.s_max.key \in Nat
    BY StandsFacts
  <2> QED
    BY <2>1, <2>2, <2>3
<1>1. /\ q \in 0 .. m /\ (q < m => k < s.s_arr[q].key)
      /\ \A j \in 0 .. m - 1 : j < q => s.s_arr[j].key <= k
  BY <1>0, slab_get_last_elemFacts
<1>2. SortInto(ls, a, e) = Put(ls, a, add_elem(s, e, q))
  BY DEF SortInto, Put
<1> HIDE DEF q
<1>3. q > 0 => s.s_arr[q - 1].key <= k
  <2>1. q > 0 => q - 1 \in 0 .. m - 1 /\ q - 1 < q
    BY <1>0, <1>1
  <2> QED
    BY <1>1, <2>1
<1>4. q = 0 => a = 1 \/ ls[a - 1].s_max.key <= k
  <2>1. q = 0 => k < s.s_min.key
    BY <1>0, <1>1
  <2> QED
    BY <1>0, <2>1
<1>5. q = m => a = Len(ls) \/ k < ls[a + 1].s_min.key
  <2>1. q = m => s.s_max.key <= k
    BY <1>0, <1>3
  <2> QED
    BY <1>0, <2>1
<1>6. Adds(Put(ls, a, add_elem(s, e, q)), c, (o[a - 1] + q) + 1, e)
  BY <1>1, GainedAdds DEF Stands
<1>7. Behind(c, (o[a - 1] + q) + 1, k)
  BY <1>0, <1>1, <1>3, <1>4, <1>5, GapBehind
<1> QED
  BY <1>2, <1>6, <1>7 DEF Placed

\* The key belongs in front of slab `a', behind it, or between two of its elements.
Suits(ls, k, a, fs) ==
    /\ a \in 1 .. Len(ls)
    /\ \/ /\ fs = "UNDER" /\ k < ls[a].s_min.key
          /\ a = 1 \/ ls[a - 1].s_max.key <= k
       \/ /\ fs = "OVER" /\ ls[a].s_max.key <= k
          /\ a = Len(ls) \/ k < ls[a + 1].s_min.key
       \/ fs = "IN" /\ ls[a].s_min.key <= k /\ k < ls[a].s_max.key

LEMMA PlacedAt ==
    ASSUME NEW r, NEW c, NEW e, NEW p, Adds(r, c, p, e), Behind(c, p, e.key)
    PROVE  Placed(r, c, e)
BY DEF Placed

\* In front of slab `a'.
LEMMA UnderPlaces ==
    ASSUME NEW ls, NEW c, Stands(ls, c), KeysRise(c), NEW e \in Elem,
           NEW a, Suits(ls, e.key, a, "UNDER")
    PROVE  Placed(SortAddAt(ls, e, a, "UNDER"), c, e)
<1> DEFINE k == e.key
           n == Len(ls)
           b == a - 1
           d == a + 1
           q == slab_get_last_elem(k, ls[a])
<1> PICK o : Lays(ls, c, o)
  BY DEF Stands, Holds
<1>0. /\ a \in 1 .. n /\ k < ls[a].s_min.key /\ (a = 1 \/ ls[b].s_max.key <= k)
      /\ n \in Nat /\ k \in Nat /\ ls \in Seq(Slab) /\ Holds(ls, c, TRUE)
      /\ \A j \in 1 .. n : ls[j].s_elems > 0
  <2>1. a \in 1 .. n /\ k < ls[a].s_min.key /\ (a = 1 \/ ls[b].s_max.key <= k)
    BY DEF Suits
  <2>2. Holds(ls, c, TRUE) /\ \A j \in 1 .. n : ls[j].s_elems > 0
    BY DEF Stands
  <2>3. n \in Nat /\ ls \in Seq(Slab)
    BY <2>2, HoldsFacts
  <2>4. k \in Nat
    BY KeysAreNats
  <2> QED
    BY <2>1, <2>2, <2>3, <2>4
<1>1. /\ HasRoom(ls, a) <=> ls[a].s_elems < SELEM_MAX
      /\ HasRoom(ls, b) <=> b \in 1 .. n /\ ls[b].s_elems < SELEM_MAX
      /\ HasRoom(ls, d) <=> d \in 1 .. n /\ ls[d].s_elems < SELEM_MAX
  <2>1. a \in Int /\ b \in Int /\ d \in Int
    BY <1>0
  <2> HIDE DEF b, d
  <2> QED
    BY <1>0, <2>1, HasRoomAt
<1>2. /\ ls[a] \in Slab /\ ls[a].s_elems \in 1 .. SELEM_MAX /\ ls[a].s_elems \in Nat
      /\ ls[a].s_min = ls[a].s_arr[0] /\ ls[a].s_min.key \in Nat /\ ls[a].s_max.key \in Nat
      /\ SELEM_MAX \in Nat /\ SELEM_MAX >= 2 /\ ls[a].s_min.key <= ls[a].s_max.key
  <2>1. ls[a] \in Slab /\ ls[a].s_elems \in 1 .. SELEM_MAX /\ ls[a].s_elems \in Nat
    BY <1>0, StandsFacts
  <2>2. ls[a].s_min = ls[a].s_arr[0] /\ ls[a].s_min.key \in Nat /\ ls[a].s_max.key \in Nat
    BY <1>0, StandsFacts
  <2>3. SELEM_MAX \in Nat /\ SELEM_MAX >= 2
    BY <1>0, HoldsFacts
  <2>4. ls[a].s_min.key <= ls[a].s_max.key
    BY <1>0, ExtremaRise
  <2> QED
    BY <2>1, <2>2, <2>3, <2>4
<1>3. Behind(c, (o[a - 1] + 0) + 1, k)
  <2>1. 0 \in 0 .. ls[a].s_elems /\ 0 < ls[a].s_elems
    BY <1>2
  <2> QED
    BY <1>0, <1>2, <2>1, GapBehind
<1>4. CASE HasRoom(ls, a)
  <2>1. SortAddAt(ls, e, a, "UNDER") = SortInto(ls, a, e)
    BY <1>4 DEF SortAddAt
  <2>2. ls[a].s_elems < SELEM_MAX
    BY <1>1, <1>4
  <2>3. k < ls[a].s_max.key
    BY <1>0, <1>2
  <2>4. Placed(SortInto(ls, a, e), c, e)
    BY <1>0, <2>2, <2>3, RoomPlaces
  <2> QED
    BY <2>1, <2>4
<1>5. CASE ~HasRoom(ls, a) /\ HasRoom(ls, b)
  <2>1. SortAddAt(ls, e, a, "UNDER") = SortInto(ls, b, e)
    BY <1>5 DEF SortAddAt
  <2>2. b \in 1 .. n /\ ls[b].s_elems < SELEM_MAX
    BY <1>1, <1>5
  <2>3. ls[b].s_min.key \in Nat /\ ls[b].s_max.key \in Nat
    BY <2>2, StandsFacts
  <2>4. ls[b].s_min.key <= ls[b].s_max.key
    BY <2>2, ExtremaRise
  <2>5. ls[b].s_max.key <= k /\ b + 1 = a
    BY <1>0, <2>2
  <2>6. ls[b].s_min.key <= k /\ k < ls[b + 1].s_min.key
    BY <1>0, <2>3, <2>4, <2>5
  <2> HIDE DEF b
  <2>7. Placed(SortInto(ls, b, e), c, e)
    BY <2>2, <2>6, RoomPlaces
  <2> QED
    BY <2>1, <2>7
<1>6. CASE ~HasRoom(ls, a) /\ ~HasRoom(ls, b) /\ HasRoom(ls, d)
  <2>1. SortAddAt(ls, e, a, "UNDER") = addsn(ls, a, e, q)
    BY <1>6 DEF SortAddAt
  <2>2. d \in 1 .. n /\ ls[d].s_elems < SELEM_MAX
    BY <1>1, <1>6
  <2>3. ls[a].s_elems = SELEM_MAX
    BY <1>1, <1>2, <1>6
  <2>4. q = 0
    <3>1. /\ q \in 0 .. ls[a].s_elems
          /\ \A j \in 0 .. ls[a].s_elems - 1 : j < q => ls[a].s_arr[j].key <= k
      BY <1>0, <1>2, slab_get_last_elemFacts
    <3>2. 0 \in 0 .. ls[a].s_elems - 1
      BY <1>2
    <3> HIDE DEF q
    <3>3. ~(0 < q)
      BY <1>0, <1>2, <3>1, <3>2
    <3> QED
      BY <1>2, <3>1, <3>3
  <2>5. 0 \in 0 .. SELEM_MAX - 1
    BY <1>2
  <2>6. Adds(addsn(ls, a, e, 0), c, (o[a - 1] + 0) + 1, e)
    BY <1>0, <2>2, <2>3, <2>5, SpillNextAdds
  <2> QED
    BY <1>3, <2>1, <2>4, <2>6, PlacedAt
<1>7. CASE ~HasRoom(ls, a) /\ ~HasRoom(ls, b) /\ ~HasRoom(ls, d)
  <2>1. SortAddAt(ls, e, a, "UNDER") = InsertAt(ls, a, add_elem(mk_slab, e, 0))
    BY <1>7 DEF SortAddAt
  <2>2. a \in 1 .. Len(ls) + 1
    BY <1>0
  <2>3. Adds(InsertAt(ls, a, add_elem(mk_slab, e, 0)), c, o[a - 1] + 1, e)
    BY <2>2, NewSlabAdds
  <2>4. (o[a - 1] + 0) + 1 = o[a - 1] + 1
    <3>1. o[a - 1] \in Nat
      BY <1>0, StandsFacts
    <3> QED
      BY <3>1
  <2> QED
    BY <1>3, <2>1, <2>3, <2>4, PlacedAt
<1> QED
  BY <1>4, <1>5, <1>6, <1>7

\* Behind slab `a'.
LEMMA OverPlaces ==
    ASSUME NEW ls, NEW c, Stands(ls, c), KeysRise(c), NEW e \in Elem,
           NEW a, Suits(ls, e.key, a, "OVER")
    PROVE  Placed(SortAddAt(ls, e, a, "OVER"), c, e)
<1> DEFINE k == e.key
           n == Len(ls)
           b == a - 1
           d == a + 1
           m == ls[a].s_elems
           q == slab_get_last_elem(k, ls[a])
<1> PICK o : Lays(ls, c, o)
  BY DEF Stands, Holds
<1>0. /\ a \in 1 .. n /\ ls[a].s_max.key <= k /\ (a = n \/ k < ls[d].s_min.key)
      /\ n \in Nat /\ k \in Nat /\ ls \in Seq(Slab) /\ Holds(ls, c, TRUE)
      /\ \A j \in 1 .. n : ls[j].s_elems > 0
  <2>1. a \in 1 .. n /\ ls[a].s_max.key <= k /\ (a = n \/ k < ls[d].s_min.key)
    BY DEF Suits
  <2>2. Holds(ls, c, TRUE) /\ \A j \in 1 .. n : ls[j].s_elems > 0
    BY DEF Stands
  <2>3. n \in Nat /\ ls \in Seq(Slab)
    BY <2>2, HoldsFacts
  <2>4. k \in Nat
    BY KeysAreNats
  <2> QED
    BY <2>1, <2>2, <2>3, <2>4
<1>1. /\ HasRoom(ls, a) <=> m < SELEM_MAX
      /\ HasRoom(ls, b) <=> b \in 1 .. n /\ ls[b].s_elems < SELEM_MAX
      /\ HasRoom(ls, d) <=> d \in 1 .. n /\ ls[d].s_elems < SELEM_MAX
  <2>1. a \in Int /\ b \in Int /\ d \in Int
    BY <1>0
  <2> HIDE DEF b, d
  <2> QED
    BY <1>0, <2>1, HasRoomAt
<1>2. /\ ls[a] \in Slab /\ m \in 1 .. SELEM_MAX /\ m \in Nat
      /\ ls[a].s_max = ls[a].s_arr[m - 1] /\ ls[a].s_min.key \in Nat /\ ls[a].s_max.key \in Nat
      /\ SELEM_MAX \in Nat /\ SELEM_MAX >= 2 /\ ls[a].s_min.key <= ls[a].s_max.key
  <2>1. ls[a] \in Slab /\ m \in 1 .. SELEM_MAX /\ m \in Nat
    BY <1>0, StandsFacts
  <2>2. ls[a].s_max = ls[a].s_arr[m - 1] /\ ls[a].s_min.key \in Nat /\ ls[a].s_max.key \in Nat
    BY <1>0, StandsFacts
  <2>3. SELEM_MAX \in Nat /\ SELEM_MAX >= 2
    BY <1>0, HoldsFacts
  <2>4. ls[a].s_min.key <= ls[a].s_max.key
    BY <1>0, ExtremaRise
  <2> QED
    BY <2>1, <2>2, <2>3, <2>4
<1>a. ls[a].s_min.key <= k
  BY <1>0, <1>2
<1>3. Behind(c, (o[a - 1] + m) + 1, k)
  <2>1. m \in 0 .. ls[a].s_elems /\ ~(m < ls[a].s_elems) /\ m # 0
    BY <1>2
  <2>2. ls[a].s_arr[m - 1].key <= k
    BY <1>0, <1>2
  <2> HIDE DEF m
  <2> QED
    BY <1>0, <2>1, <2>2, GapBehind
<1>4. CASE HasRoom(ls, a)
  <2>1. SortAddAt(ls, e, a, "OVER") = SortInto(ls, a, e)
    BY <1>4 DEF SortAddAt
  <2>2. ls[a].s_elems < SELEM_MAX
    BY <1>1, <1>4
  <2>4. Placed(SortInto(ls, a, e), c, e)
    BY <1>0, <1>a, <2>2, RoomPlaces
  <2> QED
    BY <2>1, <2>4
<1>5. CASE ~HasRoom(ls, a) /\ HasRoom(ls, d)
  <2>1. SortAddAt(ls, e, a, "OVER") = SortInto(ls, d, e)
    BY <1>5 DEF SortAddAt
  <2>2. d \in 1 .. n /\ ls[d].s_elems < SELEM_MAX
    BY <1>1, <1>5
  <2>3. ls[d].s_min.key \in Nat /\ ls[d].s_max.key \in Nat
    BY <2>2, StandsFacts
  <2>4. ls[d].s_min.key <= ls[d].s_max.key
    BY <2>2, ExtremaRise
  <2>5. k < ls[d].s_min.key /\ d - 1 = a
    BY <1>0, <2>2
  <2>6. k < ls[d].s_max.key /\ ls[d - 1].s_max.key <= k
    BY <1>0, <2>3, <2>4, <2>5
  <2> HIDE DEF d
  <2>7. Placed(SortInto(ls, d, e), c, e)
    BY <2>2, <2>6, RoomPlaces
  <2> QED
    BY <2>1, <2>7
<1>6. CASE ~HasRoom(ls, a) /\ ~HasRoom(ls, d) /\ HasRoom(ls, b)
  <2>1. SortAddAt(ls, e, a, "OVER") = addsp(ls, a, e, q)
    BY <1>6 DEF SortAddAt
  <2>2. b \in 1 .. n /\ ls[b].s_elems < SELEM_MAX
    BY <1>1, <1>6
  <2>3. ls[a].s_elems = SELEM_MAX
    BY <1>1, <1>2, <1>6
  <2>4. q = m
    <3>1. q \in 0 .. m /\ (q < m => k < ls[a].s_arr[q].key)
      BY <1>0, <1>2, slab_get_last_elemFacts
    <3>2. q < m => ls[a].s_arr[q].key <= ls[a].s_max.key /\ ls[a].s_arr[q].key \in Nat
      <4> HIDE DEF q
      <4> SUFFICES ASSUME q < m
                   PROVE  ls[a].s_arr[q].key <= ls[a].s_max.key /\ ls[a].s_arr[q].key \in Nat
        OBVIOUS
      <4> DEFINE w == o[a - 1]
                 i == (w + q) + 1
      <4>1. w \in Nat /\ o[a] \in Nat /\ o[a] <= Len(c) /\ Len(c) \in Nat /\ c[o[a]] = ls[a].s_max
        BY <1>0, StandsFacts
      <4>2. o[a] = w + m
        BY <1>0, StandsFacts
      <4>3. q \in 0 .. m - 1
        BY <1>2, <3>1
      <4>4. c[i] = ls[a].s_arr[q]
        BY <1>0, <4>3, StandsFacts
      <4> HIDE DEF w, m
      <4>5. i \in 1 .. Len(c) /\ o[a] \in 1 .. Len(c) /\ (i = o[a] \/ i < o[a])
        BY <4>1, <4>2, <4>3, <1>2
      <4> HIDE DEF i
      <4>6. i < o[a] => c[i].key <= c[o[a]].key
        BY <4>5 DEF KeysRise
      <4>7. ls[a].s_arr[q].key \in Nat
        BY <1>2, <4>3, SlabFacts DEF m
      <4> QED
        BY <1>2, <4>1, <4>4, <4>5, <4>6, <4>7
    <3> HIDE DEF q, m
    <3>3. ~(q < m)
      BY <1>0, <1>2, <3>1, <3>2
    <3> QED
      BY <1>2, <3>1, <3>3
  <2>5. m \in 1 .. SELEM_MAX
    BY <1>2
  <2> HIDE DEF m, b, q
  <2>6. Adds(addsp(ls, a, e, m), c, (o[a - 1] + m) + 1, e)
    <3>1. b = a - 1
      BY DEF b
    <3> QED
      BY <1>0, <2>2, <2>3, <2>5, <3>1, SpillPrevAdds
  <2> QED
    BY <1>3, <2>1, <2>4, <2>6, PlacedAt
<1>7. CASE ~HasRoom(ls, a) /\ ~HasRoom(ls, b) /\ ~HasRoom(ls, d)
  <2>1. SortAddAt(ls, e, a, "OVER") = InsertAt(ls, d, add_elem(mk_slab, e, 0))
    BY <1>7 DEF SortAddAt
  <2>2. d \in 1 .. Len(ls) + 1 /\ d - 1 = a
    BY <1>0
  <2>3. Adds(InsertAt(ls, d, add_elem(mk_slab, e, 0)), c, o[d - 1] + 1, e)
    <3> HIDE DEF d
    <3> QED
      BY <2>2, NewSlabAdds
  <2>4. (o[a - 1] + m) + 1 = o[d - 1] + 1
    <3>1. o[a] = o[a - 1] + m
      BY <1>0, StandsFacts
    <3> QED
      BY <2>2, <3>1
  <2> QED
    BY <1>3, <2>1, <2>3, <2>4, PlacedAt
<1> QED
  BY <1>4, <1>5, <1>6, <1>7

\* Between two elements of slab `a'.
LEMMA InPlaces ==
    ASSUME NEW ls, NEW c, Stands(ls, c), KeysRise(c), NEW e \in Elem,
           NEW a, Suits(ls, e.key, a, "IN")
    PROVE  Placed(SortAddAt(ls, e, a, "IN"), c, e)
<1> DEFINE k == e.key
           n == Len(ls)
           b == a - 1
           d == a + 1
           m == ls[a].s_elems
           q == slab_get_last_elem(k, ls[a])
<1> PICK o : Lays(ls, c, o)
  BY DEF Stands, Holds
<1>0. /\ a \in 1 .. n /\ ls[a].s_min.key <= k /\ k < ls[a].s_max.key
      /\ n \in Nat /\ k \in Nat /\ ls \in Seq(Slab) /\ Holds(ls, c, TRUE)
      /\ \A j \in 1 .. n : ls[j].s_elems > 0
  <2>1. a \in 1 .. n /\ ls[a].s_min.key <= k /\ k < ls[a].s_max.key
    BY DEF Suits
  <2>2. Holds(ls, c, TRUE) /\ \A j \in 1 .. n : ls[j].s_elems > 0
    BY DEF Stands
  <2>3. n \in Nat /\ ls \in Seq(Slab)
    BY <2>2, HoldsFacts
  <2>4. k \in Nat
    BY KeysAreNats
  <2> QED
    BY <2>1, <2>2, <2>3, <2>4
<1>1. /\ HasRoom(ls, a) <=> m < SELEM_MAX
      /\ HasRoom(ls, b) <=> b \in 1 .. n /\ ls[b].s_elems < SELEM_MAX
      /\ HasRoom(ls, d) <=> d \in 1 .. n /\ ls[d].s_elems < SELEM_MAX
  <2>1. a \in Int /\ b \in Int /\ d \in Int
    BY <1>0
  <2> HIDE DEF b, d
  <2> QED
    BY <1>0, <2>1, HasRoomAt
<1>2. /\ ls[a] \in Slab /\ m \in 1 .. SELEM_MAX /\ m \in Nat
      /\ ls[a].s_min = ls[a].s_arr[0] /\ ls[a].s_max = ls[a].s_arr[m - 1]
      /\ ls[a].s_min.key \in Nat /\ ls[a].s_max.key \in Nat
      /\ SELEM_MAX \in Nat /\ SELEM_MAX >= 2
  <2>1. ls[a] \in Slab /\ m \in 1 .. SELEM_MAX /\ m \in Nat
    BY <1>0, StandsFacts
  <2>2. /\ ls[a].s_min = ls[a].s_arr[0] /\ ls[a].s_max = ls[a].s_arr[m - 1]
        /\ ls[a].s_min.key \in Nat /\ ls[a].s_max.key \in Nat
    BY <1>0, StandsFacts
  <2>3. SELEM_MAX \in Nat /\ SELEM_MAX >= 2
    BY <1>0, HoldsFacts
  <2> QED
    BY <2>1, <2>2, <2>3
<1>3. /\ q \in 0 .. m /\ (q < m => k < ls[a].s_arr[q].key)
      /\ \A j \in 0 .. m - 1 : j < q => ls[a].s_arr[j].key <= k
  BY <1>0, <1>2, slab_get_last_elemFacts
<1> HIDE DEF q
<1>4. q \in 1 .. m - 1
  <2>1. q # 0
    BY <1>0, <1>2, <1>3
  <2>2. q # m
    <3>1. m - 1 \in 0 .. m - 1 /\ (q = m => m - 1 < q)
      BY <1>2
    <3>2. q = m => ls[a].s_arr[m - 1].key <= k
      BY <1>3, <3>1
    <3> QED
      BY <1>0, <1>2, <3>2
  <2> HIDE DEF m
  <2> QED
    BY <1>2, <1>3, <2>1, <2>2
<1>5. Behind(c, (o[a - 1] + q) + 1, k)
  <2>1. q - 1 \in 0 .. m - 1 /\ q - 1 < q /\ q < m /\ q # 0 /\ q # m
    BY <1>2, <1>4
  <2>2. ls[a].s_arr[q - 1].key <= k
    BY <1>3, <2>1
  <2> QED
    BY <1>0, <1>3, <2>1, <2>2, GapBehind
<1>6. q \in 0 .. SELEM_MAX - 1 /\ q \in 1 .. SELEM_MAX
  BY <1>2, <1>4
<1>7. CASE HasRoom(ls, a)
  <2>1. SortAddAt(ls, e, a, "IN") = SortInto(ls, a, e)
    BY <1>7 DEF SortAddAt
  <2>2. ls[a].s_elems < SELEM_MAX
    BY <1>1, <1>7
  <2>3. Placed(SortInto(ls, a, e), c, e)
    BY <1>0, <2>2, RoomPlaces
  <2> QED
    BY <2>1, <2>3
<1>8. CASE ~HasRoom(ls, a)
  <2>0. ls[a].s_elems = SELEM_MAX
    BY <1>1, <1>2, <1>8
  <2>1. CASE HasRoom(ls, d)
    <3>1. SortAddAt(ls, e, a, "IN") = addsn(ls, a, e, q)
      BY <1>8, <2>1 DEF SortAddAt, q
    <3>2. d \in 1 .. n /\ ls[d].s_elems < SELEM_MAX
      BY <1>1, <2>1
    <3>3. Adds(addsn(ls, a, e, q), c, (o[a - 1] + q) + 1, e)
      BY <1>0, <1>6, <2>0, <3>2, SpillNextAdds
    <3> QED
      BY <1>5, <3>1, <3>3, PlacedAt
  <2>2. CASE ~HasRoom(ls, d) /\ HasRoom(ls, b)
    <3>1. SortAddAt(ls, e, a, "IN") = addsp(ls, a, e, q)
      BY <1>8, <2>2 DEF SortAddAt, q
    <3>2. b \in 1 .. n /\ ls[b].s_elems < SELEM_MAX /\ b = a - 1
      BY <1>1, <2>2
    <3> HIDE DEF b
    <3>3. Adds(addsp(ls, a, e, q), c, (o[a - 1] + q) + 1, e)
      BY <1>0, <1>6, <2>0, <3>2, SpillPrevAdds
    <3> QED
      BY <1>5, <3>1, <3>3, PlacedAt
  <2>3. CASE ~HasRoom(ls, d) /\ ~HasRoom(ls, b)
    <3>1. SortAddAt(ls, e, a, "IN") = addsn(InsertAt(ls, a + 1, mk_slab), a, e, q)
      BY <1>8, <2>3 DEF SortAddAt, q
    <3>2. Adds(addsn(InsertAt(ls, a + 1, mk_slab), a, e, q), c, (o[a - 1] + q) + 1, e)
      BY <1>0, <1>6, <2>0, SpillNewAdds
    <3> QED
      BY <1>5, <3>1, <3>2, PlacedAt
  <2> QED
    BY <2>1, <2>2, <2>3
<1> QED
  BY <1>7, <1>8

\* The search of a temporary list finds the place.
LEMMA SortScanSuits ==
    ASSUME NEW ls, NEW c, Stands(ls, c), KeysRise(c), NEW k \in Nat
    PROVE  Suits(ls, k, SortScan(ls, k).at, SortScan(ls, k).fs)
<1> DEFINE n == Len(ls)
           a == find_linear_scan(ls, k)
           b == list_get_last_slab(ls, k, a)
           fs == sl_bnd_elem(k, ls[a])
<1> PICK o : Lays(ls, c, o)
  BY DEF Stands, Holds
<1>0. ls \in Seq(Slab) /\ n \in Nat /\ n > 0
  BY HoldsFacts DEF Stands
<1>1. \A j \in 1 .. n : ls[j].s_min.key \in Nat /\ ls[j].s_max.key \in Nat
  BY StandsFacts
<1>2. /\ \A j \in 1 .. n : ls[j].s_min.key <= ls[j].s_max.key
      /\ \A i, j \in 1 .. n : i < j => ls[i].s_max.key <= ls[j].s_min.key
  BY ExtremaRise
<1>3. /\ a \in 1 .. n /\ (a = n \/ k <= ls[a].s_max.key)
      /\ \A j \in 1 .. n : j < a => ls[j].s_max.key < k
  BY <1>0, LinearScanFacts
<1>4. SortScan(ls, k) =
          IF fs # "IN" THEN [at |-> a, fs |-> fs]
          ELSE [at |-> b, fs |-> IF k = ls[b].s_max.key THEN "OVER" ELSE "IN"]
  BY DEF SortScan
<1>5. /\ b \in a .. n /\ (a < b => sl_bnd_elem(k, ls[b]) # "UNDER")
      /\ b < n => sl_bnd_elem(k, ls[b + 1]) = "UNDER"
  BY <1>0, <1>3, list_get_last_slabFacts
<1>6. CASE fs = "OVER"
  <2>1. k > ls[a].s_max.key
    BY <1>6 DEF sl_bnd_elem
  <2>2. SortScan(ls, k).at = a /\ SortScan(ls, k).fs = "OVER"
    BY <1>4, <1>6
  <2> HIDE DEF a, b, fs, n
  <2>3. a = n /\ ls[a].s_max.key <= k
    BY <1>1, <1>3, <2>1
  <2> QED
    BY <1>3, <2>2, <2>3 DEF Suits, n
<1>7. CASE fs = "UNDER"
  <2>1. k < ls[a].s_min.key
    BY <1>7 DEF sl_bnd_elem
  <2>2. SortScan(ls, k).at = a /\ SortScan(ls, k).fs = "UNDER"
    BY <1>4, <1>7
  <2> HIDE DEF a, b, fs, n
  <2>3. a = 1 \/ ls[a - 1].s_max.key <= k
    <3>1. a # 1 => a - 1 \in 1 .. n /\ a - 1 < a
      BY <1>0, <1>3
    <3> QED
      BY <1>1, <1>3, <3>1
  <2> QED
    BY <1>3, <2>1, <2>2, <2>3 DEF Suits, n
<1>8. CASE fs = "IN"
  <2>1. ~(k < ls[a].s_min.key)
    BY <1>8 DEF sl_bnd_elem
  <2>a. ~(k > ls[a].s_max.key)
    BY <1>8 DEF sl_bnd_elem
  <2>2. SortScan(ls, k).at = b /\ SortScan(ls, k).fs = IF k = ls[b].s_max.key THEN "OVER" ELSE "IN"
    BY <1>4, <1>8
  <2>3. sl_bnd_elem(k, ls[b]) # "UNDER" =>
            k > ls[b].s_max.key \/ ~(k < ls[b].s_min.key)
    BY DEF sl_bnd_elem
  <2>4. sl_bnd_elem(k, ls[b + 1]) = "UNDER" => k < ls[b + 1].s_min.key
    BY DEF sl_bnd_elem
  <2> HIDE DEF a, b, fs, n
  <2>5. b \in 1 .. n /\ a \in 1 .. n /\ a <= b
    BY <1>0, <1>3, <1>5
  <2>6. ls[b].s_min.key <= k /\ k <= ls[b].s_max.key
    <3>1. CASE a = b
      BY <1>1, <2>1, <2>a, <2>5, <3>1
    <3>2. CASE a < b
      <4>1. ls[a].s_max.key <= ls[b].s_min.key /\ ls[b].s_min.key <= ls[b].s_max.key
        BY <1>2, <2>5, <3>2
      <4>2. /\ ls[a].s_max.key \in Nat /\ ls[b].s_min.key \in Nat /\ ls[b].s_max.key \in Nat
        BY <1>1, <2>5
      <4>3. k > ls[b].s_max.key \/ ~(k < ls[b].s_min.key)
        BY <1>5, <2>3, <3>2
      <4> QED
        BY <2>a, <4>1, <4>2, <4>3
    <3> QED
      BY <2>5, <3>1, <3>2
  <2>7. b = n \/ k < ls[b + 1].s_min.key
    <3>1. b < n \/ b = n
      BY <1>0, <2>5
    <3> QED
      BY <1>5, <2>4, <3>1
  <2>8. CASE k = ls[b].s_max.key
    <3>1. SortScan(ls, k).fs = "OVER" /\ ls[b].s_max.key <= k
      BY <2>2, <2>6, <2>8
    <3> QED
      BY <2>2, <2>5, <2>7, <3>1 DEF Suits, n
  <2>9. CASE k # ls[b].s_max.key
    <3>1. SortScan(ls, k).fs = "IN"
      BY <2>2, <2>9
    <3>2. k < ls[b].s_max.key
      BY <1>1, <2>5, <2>6, <2>9
    <3> QED
      BY <2>2, <2>5, <2>6, <3>1, <3>2 DEF Suits, n
  <2> QED
    BY <2>8, <2>9
<1> QED
  BY <1>6, <1>7, <1>8 DEF sl_bnd_elem

LEMMA SortAddAtPlaces ==
    ASSUME NEW ls, NEW c, Stands(ls, c), KeysRise(c), NEW e \in Elem,
           NEW a, NEW fs, Suits(ls, e.key, a, fs)
    PROVE  Placed(SortAddAt(ls, e, a, fs), c, e)
<1>1. fs = "UNDER" \/ fs = "OVER" \/ fs = "IN"
  BY DEF Suits
<1> QED
  BY <1>1, UnderPlaces, OverPlaces, InPlaces

-----------------------------------------------------------------------------
(* Filling the temporary list *)

\* Elements that are told apart by their values: their places.
Numbered(es) == \A i \in DOMAIN es : es[i].val = i

InOrder(c) == \A p, q \in DOMAIN c : p < q => Precedes(c[p], c[q])

LEMMA InOrderKeys ==
    ASSUME NEW c \in Seq(Elem), InOrder(c)
    PROVE  KeysRise(c)
<1> SUFFICES ASSUME NEW i \in 1 .. Len(c), NEW j \in 1 .. Len(c), i < j
             PROVE  c[i].key <= c[j].key
  BY DEF KeysRise
<1>1. DOMAIN c = 1 .. Len(c) /\ c[i].key \in Nat /\ c[j].key \in Nat
  <2>1. DOMAIN c = 1 .. Len(c)
    BY LenProperties
  <2>2. c[i] \in Elem /\ c[j] \in Elem
    BY ElementOfSeq
  <2> QED
    BY <2>1, <2>2, KeysAreNats
<1>2. Precedes(c[i], c[j])
  BY <1>1 DEF InOrder
<1> QED
  BY <1>1, <1>2 DEF Precedes

\* An element that was added later than all others goes behind its equals.
LEMMA OrderGrows ==
    ASSUME NEW c \in Seq(Elem), InOrder(c), NEW e \in Elem, NEW p \in 1 .. Len(c) + 1,
           Behind(c, p, e.key), \A j \in 1 .. Len(c) : c[j].val < e.val
    PROVE  /\ InsertAt(c, p, e) \in Seq(Elem) /\ InOrder(InsertAt(c, p, e))
           /\ ToSet(InsertAt(c, p, e)) = ToSet(c) \cup {e}
<1> DEFINE n == Len(c)
           d == InsertAt(c, p, e)
<1>0. n \in Nat /\ DOMAIN c = 1 .. n /\ e.key \in Nat /\ \A j \in 1 .. n : c[j].key \in Nat
  <2>1. n \in Nat /\ DOMAIN c = 1 .. n
    BY LenProperties
  <2>2. \A j \in 1 .. n : c[j] \in Elem
    BY ElementOfSeq
  <2> QED
    BY <2>1, <2>2, KeysAreNats
<1>1. /\ d \in Seq(Elem) /\ Len(d) = n + 1
      /\ \A j \in 1 .. n + 1 : d[j] = IF j < p THEN c[j] ELSE IF j = p THEN e ELSE c[j - 1]
  BY InsertAtProperties
<1>2. /\ \A j \in 1 .. n : j < p => c[j].key <= e.key
      /\ \A j \in 1 .. n : p <= j => e.key < c[j].key
      /\ \A j \in 1 .. n : c[j].val < e.val
      /\ \A i, j \in 1 .. n : i < j => Precedes(c[i], c[j])
      /\ p \in 1 .. n + 1
  BY <1>0 DEF Behind, InOrder
<1>a. DOMAIN d = 1 .. n + 1
  BY <1>1, LenProperties
<1> HIDE DEF d, n
<1>3. ASSUME NEW i \in 1 .. n + 1, NEW j \in 1 .. n + 1, i < j
      PROVE  Precedes(d[i], d[j])
  <2>1. CASE j < p
    <3>1. i \in 1 .. n /\ j \in 1 .. n /\ i < p
      BY <1>0, <1>2, <1>3, <2>1
    <3> QED
      BY <1>1, <1>2, <1>3, <2>1, <3>1
  <2>2. CASE j = p
    <3>1. i \in 1 .. n /\ i < p /\ ~(j < p)
      BY <1>0, <1>2, <1>3, <2>2
    <3>2. d[i] = c[i] /\ d[j] = e
      BY <1>1, <2>2, <3>1
    <3>3. c[i].key < e.key \/ c[i].key = e.key
      BY <1>0, <1>2, <3>1
    <3> QED
      BY <1>2, <3>1, <3>2, <3>3 DEF Precedes
  <2>3. CASE j > p /\ i = p
    <3>1. j - 1 \in 1 .. n /\ p <= j - 1 /\ ~(j < p) /\ j # p /\ ~(i < p)
      BY <1>0, <1>2, <2>3
    <3>2. d[i] = e /\ d[j] = c[j - 1]
      BY <1>1, <2>3, <3>1
    <3> QED
      BY <1>2, <3>1, <3>2 DEF Precedes
  <2>4. CASE j > p /\ i < p
    <3>1. j - 1 \in 1 .. n /\ ~(j < p) /\ j # p /\ i \in 1 .. n /\ i < j - 1
      BY <1>0, <1>2, <2>4
    <3>2. d[i] = c[i] /\ d[j] = c[j - 1]
      BY <1>1, <2>4, <3>1
    <3> QED
      BY <1>2, <3>1, <3>2
  <2>5. CASE j > p /\ i > p
    <3>1. /\ j - 1 \in 1 .. n /\ ~(j < p) /\ j # p /\ i - 1 \in 1 .. n
          /\ i - 1 < j - 1 /\ ~(i < p) /\ i # p
      BY <1>0, <1>2, <1>3, <2>5
    <3>2. d[i] = c[i - 1] /\ d[j] = c[j - 1]
      BY <1>1, <3>1
    <3> QED
      BY <1>2, <3>1, <3>2
  <2> QED
    BY <1>0, <1>2, <2>1, <2>2, <2>3, <2>4, <2>5
<1>4. InOrder(d)
  BY <1>3, <1>a DEF InOrder
<1>5. ToSet(d) = ToSet(c) \cup {e}
  <2>1. ASSUME NEW j \in 1 .. n + 1 PROVE d[j] \in ToSet(c) \cup {e}
    <3>1. CASE j < p
      <4>1. j \in 1 .. n
        BY <1>0, <1>2, <3>1
      <4> QED
        BY <1>0, <1>1, <3>1, <4>1 DEF ToSet
    <3>2. CASE j = p
      BY <1>1, <1>2, <3>2
    <3>3. CASE j > p
      <4>1. j - 1 \in 1 .. n /\ ~(j < p) /\ j # p
        BY <1>0, <1>2, <3>3
      <4> QED
        BY <1>0, <1>1, <4>1 DEF ToSet
    <3> QED
      BY <1>2, <3>1, <3>2, <3>3
  <2>2. ASSUME NEW j \in 1 .. n PROVE \E i \in 1 .. n + 1 : d[i] = c[j]
    <3>1. CASE j < p
      <4>1. j \in 1 .. n + 1
        BY <1>0
      <4> QED
        BY <1>1, <3>1, <4>1
    <3>2. CASE p <= j
      <4>1. j + 1 \in 1 .. n + 1 /\ ~(j + 1 < p) /\ j + 1 # p /\ (j + 1) - 1 = j
        BY <1>0, <1>2, <3>2
      <4>2. d[j + 1] = c[j]
        BY <1>1, <4>1
      <4> QED
        BY <4>1, <4>2
    <3> QED
      BY <1>2, <3>1, <3>2
  <2>3. d[p] = e /\ p \in 1 .. n + 1
    <3>1. ~(p < p)
      BY <1>2
    <3> QED
      BY <1>1, <1>2, <3>1
  <2>4. ToSet(d) \subseteq ToSet(c) \cup {e}
    BY <1>a, <2>1 DEF ToSet
  <2>5. ToSet(c) \subseteq ToSet(d)
    BY <1>0, <1>a, <2>2 DEF ToSet
  <2>6. e \in ToSet(d)
    BY <1>a, <2>3 DEF ToSet
  <2> QED
    BY <2>4, <2>5, <2>6
<1>6. d \in Seq(Elem) /\ InOrder(d) /\ ToSet(d) = ToSet(c) \cup {e}
  BY <1>1, <1>4, <1>5
<1> QED
  BY <1>6 DEF d

\* Of the first `n' elements: their keys, and what was accepted.
KeysTo(es, n) == {es[i].key : i \in 1 .. n}
Took(es, n) == {es[p] : p \in {i \in 1 .. n : ~Refused(es, i)}}

LEMMA KeysGrow ==
    ASSUME NEW es, NEW n \in Nat
    PROVE  KeysTo(es, n + 1) = KeysTo(es, n) \cup {es[n + 1].key}
<1>1. 1 .. n + 1 = (1 .. n) \cup {n + 1}
  OBVIOUS
<1> QED
  BY <1>1 DEF KeysTo

LEMMA TookGrows ==
    ASSUME NEW es, NEW n \in Nat
    PROVE  Took(es, n + 1) = IF Refused(es, n + 1) THEN Took(es, n)
                             ELSE Took(es, n) \cup {es[n + 1]}
<1>1. 1 .. n + 1 = (1 .. n) \cup {n + 1}
  OBVIOUS
<1> QED
  BY <1>1 DEF Took

LEMMA RefusedIs ==
    ASSUME NEW es, NEW n \in Nat
    PROVE  Refused(es, n + 1) <=>
               es[n + 1].key \in KeysTo(es, n) /\ Cardinality(KeysTo(es, n)) < SMELEM_MAX
<1>1. (n + 1) - 1 = n
  OBVIOUS
<1> QED
  BY <1>1 DEF Refused, KeysTo

\* The temporary list, which is `c', after `n' additions.
SortState(es, n, tmp, c) ==
    /\ tmp \in [sml : Seq(Elem), slabs : Seq(Slab)]
    /\ c \in Seq(Elem) /\ InOrder(c) /\ ToSet(c) = Took(es, n)
    /\ IsFiniteSet(KeysTo(es, n)) /\ Cardinality(KeysTo(es, n)) \in Nat
    /\ \/ /\ tmp.slabs = <<>> /\ tmp.sml = c
          /\ Len(c) = Cardinality(KeysTo(es, n)) /\ Len(c) <= SMELEM_MAX
          /\ {x.key : x \in ToSet(c)} = KeysTo(es, n)
       \/ /\ Stands(tmp.slabs, c)
          /\ Cardinality(KeysTo(es, n)) >= SMELEM_MAX

LEMMA KeysCounted ==
    ASSUME NEW es, NEW n \in Nat, IsFiniteSet(KeysTo(es, n)),
           Cardinality(KeysTo(es, n)) \in Nat
    PROVE  /\ IsFiniteSet(KeysTo(es, n + 1))
           /\ Cardinality(KeysTo(es, n + 1)) \in Nat
           /\ Cardinality(KeysTo(es, n + 1)) =
                  IF es[n + 1].key \in KeysTo(es, n) THEN Cardinality(KeysTo(es, n))
                  ELSE Cardinality(KeysTo(es, n)) + 1
<1>1. KeysTo(es, n + 1) = KeysTo(es, n) \cup {es[n + 1].key}
  BY KeysGrow
<1>2. /\ IsFiniteSet(KeysTo(es, n) \cup {es[n + 1].key})
      /\ Cardinality(KeysTo(es, n) \cup {es[n + 1].key}) =
             IF es[n + 1].key \in KeysTo(es, n) THEN Cardinality(KeysTo(es, n))
             ELSE Cardinality(KeysTo(es, n)) + 1
  BY FS_AddElement
<1> QED
  BY <1>1, <1>2

\* What was taken was added before, so its numbers are lower.
LEMMA LaterNumber ==
    ASSUME NEW es \in Seq(Elem), Numbered(es), NEW n \in 0 .. Len(es) - 1,
           NEW c \in Seq(Elem), ToSet(c) = Took(es, n)
    PROVE  \A j \in 1 .. Len(c) : c[j].val < es[n + 1].val
<1> SUFFICES ASSUME NEW j \in 1 .. Len(c) PROVE c[j].val < es[n + 1].val
  OBVIOUS
<1>1. DOMAIN c = 1 .. Len(c) /\ DOMAIN es = 1 .. Len(es) /\ Len(es) \in Nat
  BY LenProperties
<1>2. c[j] \in Took(es, n)
  BY <1>1 DEF ToSet
<1>3. PICK i \in 1 .. n : c[j] = es[i]
  BY <1>2 DEF Took
<1>4. i \in 1 .. Len(es) /\ n + 1 \in 1 .. Len(es) /\ i < n + 1
  BY <1>1
<1>5. es[i].val = i /\ es[n + 1].val = n + 1
  BY <1>1, <1>4 DEF Numbered
<1> QED
  BY <1>3, <1>4, <1>5

\* An addition to the small list.
LEMMA SmallStep ==
    ASSUME NEW es \in Seq(Elem), Numbered(es), NEW n \in 0 .. Len(es) - 1,
           NEW tmp, NEW c, SortState(es, n, tmp, c),
           tmp.slabs = <<>>, tmp.sml = c, Len(c) < SMELEM_MAX,
           Len(c) = Cardinality(KeysTo(es, n)),
           {x.key : x \in ToSet(c)} = KeysTo(es, n)
    PROVE  \E d : SortState(es, n + 1, SortAdd(tmp, es[n + 1]), d)
<1> DEFINE e == es[n + 1]
           m == Len(c)
           K == KeysTo(es, n)
           P == {p \in 1 .. m + 1 : p = m + 1 \/ e.key < c[p].key}
           i == Min(P)
           d == InsertAt(c, i, e)
<1>0. /\ tmp \in [sml : Seq(Elem), slabs : Seq(Slab)]
      /\ c \in Seq(Elem) /\ InOrder(c) /\ ToSet(c) = Took(es, n)
      /\ IsFiniteSet(K) /\ Cardinality(K) \in Nat /\ n \in Nat
  BY DEF SortState
<1>1. /\ m \in Nat /\ DOMAIN c = 1 .. m /\ e \in Elem /\ e.key \in Nat
      /\ \A j \in 1 .. m : c[j].key \in Nat
      /\ SMELEM_MAX \in Nat
  <2>1. m \in Nat /\ DOMAIN c = 1 .. m
    BY <1>0, LenProperties
  <2>2. \A j \in 1 .. m : c[j] \in Elem
    BY <1>0, ElementOfSeq
  <2>3. n + 1 \in 1 .. Len(es)
    BY LenProperties
  <2>4. e \in Elem
    BY <2>3, ElementOfSeq
  <2> QED
    BY <2>1, <2>2, <2>4, KeysAreNats, SmallListAssumption, SlabSizeAssumption
<1>2. /\ IsFiniteSet(KeysTo(es, n + 1)) /\ Cardinality(KeysTo(es, n + 1)) \in Nat
      /\ Cardinality(KeysTo(es, n + 1)) = IF e.key \in K THEN m ELSE m + 1
  <2>1. /\ IsFiniteSet(KeysTo(es, n + 1)) /\ Cardinality(KeysTo(es, n + 1)) \in Nat
        /\ Cardinality(KeysTo(es, n + 1)) =
               IF e.key \in K THEN Cardinality(K) ELSE Cardinality(K) + 1
    BY <1>0, KeysCounted
  <2> QED
    BY <2>1
<1>3. KeysTo(es, n + 1) = K \cup {e.key}
  BY <1>0, KeysGrow
<1>4. Refused(es, n + 1) <=> e.key \in K
  BY <1>0, RefusedIs
<1>5. Took(es, n + 1) = IF Refused(es, n + 1) THEN Took(es, n) ELSE Took(es, n) \cup {e}
  BY <1>0, TookGrows
<1>6. SortAdd(tmp, e) = [tmp EXCEPT !.sml = SortAddSmall(c, e)]
  BY DEF SortAdd
<1>7. e.key \in K <=> \E p \in 1 .. m : c[p].key = e.key
  <2>1. K = {x.key : x \in ToSet(c)} /\ ToSet(c) = {c[p] : p \in 1 .. m}
    BY <1>1 DEF ToSet
  <2> HIDE DEF K, e, m
  <2> QED
    BY <2>1
<1>8. CASE e.key \in K
  <2>1. SortAddSmall(c, e) = c
    BY <1>1, <1>7, <1>8 DEF SortAddSmall
  <2>2. SortAdd(tmp, e) = tmp
    BY <1>0, <1>6, <2>1
  <2>3. KeysTo(es, n + 1) = K /\ Took(es, n + 1) = Took(es, n)
    BY <1>3, <1>4, <1>5, <1>8
  <2>4. SortState(es, n + 1, tmp, c)
    BY <2>3 DEF SortState
  <2> QED
    BY <2>2, <2>4
<1>9. CASE e.key \notin K
  <2>1. SortAddSmall(c, e) = d
    BY <1>1, <1>7, <1>9 DEF SortAddSmall
  <2>2. /\ i \in 1 .. m + 1 /\ (i = m + 1 \/ e.key < c[i].key)
        /\ \A y \in P : i <= y
    <3>1. P \in SUBSET Nat /\ m + 1 \in P
      BY <1>1
    <3>2. i \in P /\ \A y \in P : i <= y
      BY <3>1, MinOfNats
    <3> QED
      BY <3>2
  <2> HIDE DEF i
  <2>3. Behind(c, i, e.key)
    <3>1. i > 1 => c[i - 1].key <= e.key
      <4> SUFFICES ASSUME i > 1 PROVE c[i - 1].key <= e.key
        OBVIOUS
      <4>1. i - 1 \in 1 .. m + 1 /\ i - 1 \in 1 .. m /\ ~(i <= i - 1)
        BY <1>1, <2>2
      <4>2. ~(e.key < c[i - 1].key)
        BY <2>2, <4>1
      <4> QED
        BY <1>1, <4>1, <4>2
    <3>2. i <= m => e.key < c[i].key
      BY <1>1, <2>2
    <3>3. KeysRise(c)
      BY <1>0, InOrderKeys
    <3> HIDE DEF P
    <3> QED
      BY <1>0, <1>1, <2>2, <3>1, <3>2, <3>3, BehindNeighbours
  <2>4. \A j \in 1 .. m : c[j].val < e.val
    BY <1>0, LaterNumber
  <2>5. d \in Seq(Elem) /\ InOrder(d) /\ ToSet(d) = ToSet(c) \cup {e} /\ Len(d) = m + 1
    <3>1. d \in Seq(Elem) /\ InOrder(d) /\ ToSet(d) = ToSet(c) \cup {e}
      BY <1>0, <1>1, <2>2, <2>3, <2>4, OrderGrows
    <3>2. Len(d) = m + 1
      <4>1. i \in 1 .. Len(c) + 1 /\ c \in Seq(Elem) /\ e \in Elem
        BY <1>0, <1>1, <2>2
      <4> HIDE DEF e, P
      <4>2. Longer(c, InsertAt(c, i, e), i, e)
        BY Zenon, <4>1, InsertedLonger
      <4>3. Len(InsertAt(c, i, e)) = Len(c) + 1
        BY Zenon, <4>2 DEF Longer
      <4> QED
        BY Zenon, <4>3
    <3> QED
      BY <3>1, <3>2
  <2> HIDE DEF d
  <2>6. ToSet(d) = Took(es, n + 1)
    BY <1>0, <1>4, <1>5, <1>9, <2>5
  <2>7. {x.key : x \in ToSet(d)} = KeysTo(es, n + 1)
    BY <1>3, <2>5
  <2>8. Len(d) = Cardinality(KeysTo(es, n + 1)) /\ Len(d) <= SMELEM_MAX
    BY <1>1, <1>2, <1>9, <2>5
  <2> DEFINE t == [tmp EXCEPT !.sml = d]
  <2>9. t \in [sml : Seq(Elem), slabs : Seq(Slab)] /\ t.sml = d /\ t.slabs = <<>>
    BY <1>0, <2>5
  <2>10. SortAdd(tmp, e) = t
    BY <1>6, <2>1
  <2> HIDE DEF t
  <2>11. SortState(es, n + 1, t, d)
    BY <1>2, <2>5, <2>6, <2>7, <2>8, <2>9 DEF SortState
  <2> QED
    BY <2>10, <2>11
<1> QED
  BY <1>8, <1>9

\* An addition to the slabs, of which a full small list becomes the first.
LEMMA SlabStep ==
    ASSUME NEW es \in Seq(Elem), Numbered(es), NEW n \in 0 .. Len(es) - 1,
           NEW tmp, NEW c, SortState(es, n, tmp, c),
           NEW ls, Stands(ls, c), Cardinality(KeysTo(es, n)) >= SMELEM_MAX,
           NEW at, at = SortScan(ls, es[n + 1].key),
           SortAdd(tmp, es[n + 1]) =
               [sml |-> <<>>, slabs |-> SortAddAt(ls, es[n + 1], at.at, at.fs)]
    PROVE  /\ \E d : SortState(es, n + 1, SortAdd(tmp, es[n + 1]), d)
           /\ SortAdd(tmp, es[n + 1]).slabs # <<>>
<1> DEFINE e == es[n + 1]
           K == KeysTo(es, n)
           r == SortAddAt(ls, e, at.at, at.fs)
<1>0. /\ c \in Seq(Elem) /\ InOrder(c) /\ ToSet(c) = Took(es, n)
      /\ IsFiniteSet(K) /\ Cardinality(K) \in Nat /\ n \in Nat
  BY DEF SortState
<1>1. /\ e \in Elem /\ e.key \in Nat /\ SMELEM_MAX \in Nat
  <2>1. n + 1 \in 1 .. Len(es)
    BY LenProperties
  <2>2. e \in Elem
    BY <2>1, ElementOfSeq
  <2> QED
    BY <2>2, KeysAreNats, SmallListAssumption, SlabSizeAssumption
<1>2. /\ IsFiniteSet(KeysTo(es, n + 1)) /\ Cardinality(KeysTo(es, n + 1)) \in Nat
      /\ Cardinality(KeysTo(es, n + 1)) >= SMELEM_MAX
  <2>1. /\ IsFiniteSet(KeysTo(es, n + 1)) /\ Cardinality(KeysTo(es, n + 1)) \in Nat
        /\ Cardinality(KeysTo(es, n + 1)) =
               IF e.key \in K THEN Cardinality(K) ELSE Cardinality(K) + 1
    BY <1>0, KeysCounted
  <2> QED
    BY <1>0, <1>1, <2>1
<1>3. ~Refused(es, n + 1)
  <2>1. ~(Cardinality(K) < SMELEM_MAX)
    BY <1>0, <1>1
  <2> QED
    BY <1>0, <2>1, RefusedIs
<1>4. Took(es, n + 1) = Took(es, n) \cup {e}
  BY <1>0, <1>3, TookGrows
<1>5. KeysRise(c)
  BY <1>0, InOrderKeys
<1>6. Suits(ls, e.key, at.at, at.fs)
  BY <1>1, <1>5, SortScanSuits
<1>7. Placed(r, c, e)
  BY <1>1, <1>5, <1>6, SortAddAtPlaces
<1> HIDE DEF r
<1>8. PICK p : Adds(r, c, p, e) /\ Behind(c, p, e.key)
  BY <1>7 DEF Placed
<1> DEFINE d == InsertAt(c, p, e)
<1>9. p \in 1 .. Len(c) + 1 /\ Stands(r, d)
  BY <1>8 DEF Adds
<1>10. \A j \in 1 .. Len(c) : c[j].val < e.val
  BY <1>0, LaterNumber
<1>11. d \in Seq(Elem) /\ InOrder(d) /\ ToSet(d) = ToSet(c) \cup {e}
  BY <1>0, <1>1, <1>8, <1>9, <1>10, OrderGrows
<1>12. r \in Seq(Slab)
  BY <1>9, HoldsFacts DEF Stands
<1> DEFINE t == [sml |-> <<>>, slabs |-> r]
<1>13. t \in [sml : Seq(Elem), slabs : Seq(Slab)] /\ t.slabs = r
  <2>1. <<>> \in Seq(Elem)
    BY EmptySeq
  <2> QED
    BY <1>12, <2>1
<1>14. SortAdd(tmp, e) = t
  BY DEF r
<1> HIDE DEF t, d
<1>15. SortState(es, n + 1, t, d)
  BY <1>0, <1>2, <1>4, <1>9, <1>11, <1>13 DEF SortState
<1>16. t.slabs # <<>>
  <2>1. Len(r) # 0 /\ Len(<<>>) = 0
    BY <1>9, EmptySeq DEF Stands
  <2>2. r # <<>>
    BY <2>1, Zenon
  <2> QED
    BY <1>13, <2>2
<1> QED
  BY <1>14, <1>15, <1>16

\* A full small list that becomes a slab stands.
LEMMA FullSmallStands ==
    ASSUME NEW c \in Seq(Elem), Len(c) = SMELEM_MAX
    PROVE  Stands(<<small_list_to_slab(c)>>, c)
<1>1. Len(c) > 0 /\ Len(c) <= SELEM_MAX
  BY SmallListAssumption, SlabSizeAssumption
<1>2. LET ls == <<small_list_to_slab(c)>>
      IN  Holds(ls, c, TRUE) /\ Chain(ls) /\ Len(ls) > 0
  BY <1>1, BecameSlabs
<1> QED
  BY <1>2 DEF Stands, Chain

LEMMA SortStep ==
    ASSUME NEW es \in Seq(Elem), Numbered(es), NEW n \in 0 .. Len(es) - 1,
           NEW tmp, NEW c, SortState(es, n, tmp, c)
    PROVE  /\ \E d : SortState(es, n + 1, SortAdd(tmp, es[n + 1]), d)
           /\ SortAdd(tmp, es[n + 1]).slabs # <<>> <=> Cardinality(KeysTo(es, n)) >= SMELEM_MAX
<1> DEFINE e == es[n + 1]
           small == tmp.slabs = <<>>
           ls == IF small THEN <<small_list_to_slab(tmp.sml)>> ELSE tmp.slabs
           at == SortScan(ls, e.key)
           K == KeysTo(es, n)
<1>0. /\ Cardinality(K) \in Nat /\ c \in Seq(Elem) /\ Len(c) \in Nat /\ SMELEM_MAX \in Nat
      /\ \/ /\ small /\ tmp.sml = c /\ Len(c) = Cardinality(K) /\ Len(c) <= SMELEM_MAX
            /\ {x.key : x \in ToSet(c)} = K
         \/ Stands(tmp.slabs, c) /\ Cardinality(K) >= SMELEM_MAX
  BY LenProperties, SmallListAssumption, SlabSizeAssumption DEF SortState
<1>1. Stands(tmp.slabs, c) => ~small
  BY EmptySeq DEF Stands
<1>2. CASE small /\ Len(c) < SMELEM_MAX
  <2>1. \E d : SortState(es, n + 1, SortAdd(tmp, es[n + 1]), d)
    BY <1>0, <1>1, <1>2, SmallStep
  <2>2. SortAdd(tmp, e).slabs = <<>>
    <3>1. tmp \in [sml : Seq(Elem), slabs : Seq(Slab)] /\ small /\ Len(tmp.sml) < SMELEM_MAX
      BY <1>0, <1>1, <1>2 DEF SortState
    <3>2. SortAdd(tmp, e) = [tmp EXCEPT !.sml = SortAddSmall(@, e)]
      BY <3>1 DEF SortAdd
    <3> QED
      BY <3>1, <3>2
  <2>3. ~(Cardinality(K) >= SMELEM_MAX)
    BY <1>0, <1>1, <1>2
  <2> QED
    BY <2>1, <2>2, <2>3
<1>3. CASE ~(small /\ Len(c) < SMELEM_MAX)
  <2>1. Stands(ls, c) /\ Cardinality(K) >= SMELEM_MAX
    <3>1. CASE small
      <4>1. Len(c) = SMELEM_MAX /\ Cardinality(K) >= SMELEM_MAX /\ tmp.sml = c
        BY <1>0, <1>1, <1>3, <3>1
      <4>2. ls = <<small_list_to_slab(c)>>
        BY <3>1, <4>1
      <4> HIDE DEF ls
      <4> QED
        BY <1>0, <4>1, <4>2, FullSmallStands
    <3>2. CASE ~small
      BY <1>0, <3>2
    <3> QED
      BY <3>1, <3>2
  <2>2. SortAdd(tmp, e) = [sml |-> <<>>, slabs |-> SortAddAt(ls, e, at.at, at.fs)]
    <3>1. ~(small /\ Len(tmp.sml) < SMELEM_MAX)
      BY <1>0, <1>1, <1>3
    <3> QED
      BY <3>1 DEF SortAdd
  <2> HIDE DEF ls
  <2> QED
    BY <2>1, <2>2, SlabStep
<1> QED
  BY <1>2, <1>3

\* The temporary list after each addition.
IsSorting(f, es, n) ==
    f = [i \in 0 .. n |-> IF i = 0 THEN [sml |-> <<>>, slabs |-> <<>>]
                          ELSE SortAdd(f[i - 1], es[i])]

LEMMA SortingExists ==
    ASSUME NEW es, NEW N \in Nat
    PROVE  \E f : IsSorting(f, es, N)
<1> DEFINE none == [sml |-> <<>>, slabs |-> <<>>]
           S == {n \in Nat : \E f : IsSorting(f, es, n)}
<1>1. 0 \in S
  <2> DEFINE f == [i \in 0 .. 0 |-> none]
  <2>1. f = [i \in 0 .. 0 |-> IF i = 0 THEN none ELSE SortAdd(f[i - 1], es[i])]
    OBVIOUS
  <2>2. IsSorting(f, es, 0)
    BY <2>1 DEF IsSorting
  <2> QED
    BY <2>2
<1>2. ASSUME NEW n \in Nat, n \in S
      PROVE  n + 1 \in S
  <2>1. PICK f : IsSorting(f, es, n)
    BY <1>2
  <2> DEFINE g == [i \in 0 .. n + 1 |-> IF i = n + 1 THEN SortAdd(f[n], es[n + 1]) ELSE f[i]]
             h == [i \in 0 .. n + 1 |-> IF i = 0 THEN none ELSE SortAdd(g[i - 1], es[i])]
  <2>2. \A i \in 0 .. n : f[i] = IF i = 0 THEN none ELSE SortAdd(f[i - 1], es[i])
    BY <2>1 DEF IsSorting
  <2> HIDE DEF none
  <2>3. \A i \in 0 .. n + 1 : g[i] = h[i]
    <3> SUFFICES ASSUME NEW i \in 0 .. n + 1 PROVE g[i] = h[i]
      OBVIOUS
    <3>1. CASE i = 0
      BY <2>2, <3>1
    <3>2. CASE i = n + 1
      <4>1. g[i] = SortAdd(f[n], es[n + 1]) /\ i - 1 = n /\ i # 0
        BY <3>2
      <4>2. g[n] = f[n]
        OBVIOUS
      <4>3. h[i] = SortAdd(g[i - 1], es[i])
        BY <4>1
      <4> QED
        BY <3>2, <4>1, <4>2, <4>3
    <3>3. CASE i # 0 /\ i # n + 1
      <4>1. g[i] = f[i] /\ i \in 0 .. n /\ i - 1 \in 0 .. n
        BY <3>3
      <4>2. g[i - 1] = f[i - 1]
        BY <4>1
      <4>3. h[i] = SortAdd(g[i - 1], es[i])
        BY <3>3
      <4> QED
        BY <2>2, <3>3, <4>1, <4>2, <4>3
    <3> QED
      BY <3>1, <3>2, <3>3
  <2>4. g = h
    BY <2>3
  <2> HIDE DEF g
  <2>5. IsSorting(g, es, n + 1)
    BY <2>4 DEF IsSorting, none
  <2> QED
    BY <2>5
<1> HIDE DEF S
<1>3. Nat \subseteq S
  BY <1>1, <1>2, SetInduction
<1> QED
  BY <1>3 DEF S

\* Every way to fill the temporary list goes through such states.
LEMMA SortStateReached ==
    ASSUME NEW es \in Seq(Elem), Numbered(es), NEW f, IsSorting(f, es, Len(es)),
           NEW m \in 0 .. Len(es)
    PROVE  \E c : SortState(es, m, f[m], c)
<1> DEFINE N == Len(es)
           none == [sml |-> <<>>, slabs |-> <<>>]
           S == {n \in Nat : n <= N => \E c : SortState(es, n, f[n], c)}
<1>0. N \in Nat
  BY LenProperties
<1>3. \A i \in 0 .. N : f[i] = IF i = 0 THEN none ELSE SortAdd(f[i - 1], es[i])
  BY DEF IsSorting
<1>4. 0 \in S
  <2>1. f[0] = none
    BY <1>0, <1>3
  <2>2. /\ none \in [sml : Seq(Elem), slabs : Seq(Slab)] /\ <<>> \in Seq(Elem)
        /\ Len(<<>>) = 0 /\ none.slabs = <<>> /\ none.sml = <<>>
    BY EmptySeq
  <2>3. DOMAIN <<>> = {}
    OBVIOUS
  <2>4. KeysTo(es, 0) = {} /\ Took(es, 0) = {}
    BY DEF KeysTo, Took
  <2>5. ToSet(<<>>) = {} /\ InOrder(<<>>)
    BY <2>3 DEF ToSet, InOrder
  <2>6. IsFiniteSet({}) /\ Cardinality({}) = 0
    BY FS_EmptySet
  <2>7. 0 <= SMELEM_MAX
    BY SmallListAssumption, SlabSizeAssumption
  <2> HIDE DEF none
  <2>a. {x.key : x \in ToSet(<<>>)} = KeysTo(es, 0)
    BY <2>4, <2>5
  <2>b. /\ IsFiniteSet(KeysTo(es, 0)) /\ Cardinality(KeysTo(es, 0)) \in Nat
        /\ Len(<<>>) = Cardinality(KeysTo(es, 0)) /\ Len(<<>>) <= SMELEM_MAX
        /\ ToSet(<<>>) = Took(es, 0)
    <3>1. Cardinality(KeysTo(es, 0)) = 0 /\ IsFiniteSet(KeysTo(es, 0))
      BY <2>4, <2>6
    <3>2. Len(<<>>) = 0 /\ ToSet(<<>>) = Took(es, 0)
      BY <2>2, <2>4, <2>5
    <3>3. 0 \in Nat
      OBVIOUS
    <3> QED
      BY <2>7, <3>1, <3>2, <3>3
  <2>8. SortState(es, 0, none, <<>>)
    BY <2>2, <2>5, <2>a, <2>b DEF SortState
  <2> QED
    BY <2>1, <2>8
<1>5. ASSUME NEW n \in Nat, n \in S PROVE n + 1 \in S
  <2> SUFFICES ASSUME n + 1 <= N PROVE \E c : SortState(es, n + 1, f[n + 1], c)
    OBVIOUS
  <2>1. n \in 0 .. N - 1 /\ n <= N /\ n + 1 \in 0 .. N /\ n + 1 # 0 /\ (n + 1) - 1 = n
    BY <1>0
  <2>2. PICK c : SortState(es, n, f[n], c)
    BY <1>5, <2>1
  <2>3. f[n + 1] = SortAdd(f[n], es[n + 1])
    BY <1>3, <2>1
  <2> HIDE DEF S
  <2>4. \E d : SortState(es, n + 1, SortAdd(f[n], es[n + 1]), d)
    BY <2>1, <2>2, SortStep
  <2> QED
    BY <2>3, <2>4
<1> HIDE DEF S
<1>6. Nat \subseteq S
  BY <1>0, <1>4, <1>5, SetInduction
<1>7. m \in Nat /\ m <= N
  BY <1>0
<1> QED
  BY <1>6, <1>7 DEF S

\* The temporary list is one of slabs when enough keys came before the last element.
LEMMA SlabsWhenOutgrown ==
    ASSUME NEW es \in Seq(Elem), Numbered(es), NEW f, IsSorting(f, es, Len(es))
    PROVE  f[Len(es)].slabs # <<>> <=> Outgrows(es)
<1> DEFINE N == Len(es)
           none == [sml |-> <<>>, slabs |-> <<>>]
<1>0. N \in Nat /\ SMELEM_MAX \in Nat /\ SMELEM_MAX > 0
  BY LenProperties, SmallListAssumption, SlabSizeAssumption
<1>1. \A i \in 0 .. N : f[i] = IF i = 0 THEN none ELSE SortAdd(f[i - 1], es[i])
  BY DEF IsSorting
<1>2. Outgrows(es) <=> Cardinality(KeysTo(es, N - 1)) >= SMELEM_MAX
  BY DEF Outgrows, KeysTo
<1>3. CASE N = 0
  <2>1. f[0].slabs = <<>>
    BY <1>1, <1>3
  <2>2. 1 .. N - 1 = {}
    BY <1>3
  <2>3. KeysTo(es, N - 1) = {}
    BY <2>2 DEF KeysTo
  <2>4. Cardinality(KeysTo(es, N - 1)) = 0
    BY <2>3, FS_EmptySet
  <2>5. ~Outgrows(es)
    BY <1>0, <1>2, <2>4
  <2> QED
    BY <1>3, <2>1, <2>5
<1>4. CASE N # 0
  <2>1. N - 1 \in 0 .. N - 1 /\ N - 1 \in 0 .. N /\ N \in 0 .. N /\ (N - 1) + 1 = N
    BY <1>0, <1>4
  <2>2. PICK c : SortState(es, N - 1, f[N - 1], c)
    BY <2>1, SortStateReached
  <2>3. f[N] = SortAdd(f[N - 1], es[N])
    BY <1>1, <1>4, <2>1
  <2> HIDE DEF N
  <2> DEFINE n == N - 1
  <2>4. n \in 0 .. Len(es) - 1 /\ SortState(es, n, f[n], c) /\ n + 1 = N
    BY <2>1, <2>2 DEF N
  <2> HIDE DEF n
  <2>5. SortAdd(f[n], es[n + 1]).slabs # <<>> <=> Cardinality(KeysTo(es, n)) >= SMELEM_MAX
    BY <2>4, SortStep
  <2>6. f[N].slabs # <<>> <=> Cardinality(KeysTo(es, N - 1)) >= SMELEM_MAX
    BY <2>3, <2>4, <2>5 DEF n
  <2> QED
    BY <1>2, <2>6 DEF N
<1> QED
  BY <1>3, <1>4

\* And then its slabs hold what was accepted.
LEMMA SortingIsStable ==
    ASSUME NEW es \in Seq(Elem), Numbered(es), NEW f, IsSorting(f, es, Len(es)),
           f[Len(es)].slabs # <<>>
    PROVE  SortedStably(es, f[Len(es)].slabs)
<1> DEFINE tmp == f[Len(es)]
           ls == tmp.slabs
<1>0. Len(es) \in 0 .. Len(es)
  BY LenProperties
<1>1. PICK c : SortState(es, Len(es), tmp, c)
  BY <1>0, SortStateReached
<1> HIDE DEF tmp
<1>2. /\ c \in Seq(Elem) /\ InOrder(c) /\ ToSet(c) = Took(es, Len(es))
      /\ Stands(ls, c)
  BY <1>1 DEF SortState, tmp
<1>3. Took(es, Len(es)) = Accepted(es)
  <2>1. DOMAIN es = 1 .. Len(es)
    BY LenProperties
  <2> QED
    BY <2>1 DEF Took, Accepted
<1>4. Walked(ls) = c
  <2>1. Holds(ls, c, TRUE)
    BY <1>2 DEF Stands
  <2>2. Flat(ls) = c
    BY <2>1, HeldIsFlat
  <2> QED
    BY <2>2 DEF Walked, Flat
<1>5. \A a \in DOMAIN ls : /\ ls[a].s_elems > 0
                           /\ ls[a].s_min = ls[a].s_arr[0]
                           /\ ls[a].s_max = ls[a].s_arr[ls[a].s_elems - 1]
  <2>1. PICK o : Lays(ls, c, o)
    BY <1>2 DEF Stands, Holds
  <2>2. DOMAIN ls = 1 .. Len(ls)
    BY <1>2, HoldsFacts, LenProperties DEF Stands
  <2> HIDE DEF ls
  <2>3. \A a \in 1 .. Len(ls) : /\ ls[a].s_min = ls[a].s_arr[0]
                                /\ ls[a].s_max = ls[a].s_arr[ls[a].s_elems - 1]
    BY <1>2, <2>1, StandsFacts
  <2>4. \A a \in 1 .. Len(ls) : ls[a].s_elems > 0
    BY <1>2 DEF Stands
  <2> QED
    BY <2>2, <2>3, <2>4
<1> HIDE DEF ls
<1>6. SortedStably(es, ls)
  BY <1>2, <1>3, <1>4, <1>5 DEF SortedStably, InOrder
<1> QED
  BY <1>6 DEF tmp, ls

\* slablist_sort on a list of slabs with any elements, numbered by their places: the
\* list gets slabs exactly when enough different keys come before the last element, and
\* then a walk gives every element that was accepted and nothing else, equal keys in
\* the order in which they were, and its slabs have exact extrema.
THEOREM SortsStably ==
    ASSUME NEW es \in Seq(Elem), Numbered(es)
    PROVE  /\ slablist_sort(es, FALSE).sl_head = "slab" <=> Outgrows(es)
           /\ Outgrows(es) => SortedStably(es, slablist_sort(es, FALSE).slabs)
<1> DEFINE f == CHOOSE g : IsSorting(g, es, Len(es))
<1>1. TempFilled(es) = f[Len(es)]
  BY DEF TempFilled, IsSorting
<1>2. IsSorting(f, es, Len(es))
  <2>1. Len(es) \in Nat
    BY LenProperties
  <2> QED
    BY <2>1, SortingExists
<1> HIDE DEF f
<1>3. TempFilled(es).slabs # <<>> <=> Outgrows(es)
  BY <1>1, <1>2, SlabsWhenOutgrown
<1>4. Outgrows(es) => SortedStably(es, TempFilled(es).slabs)
  BY <1>1, <1>2, <1>3, SortingIsStable
<1>5. /\ slablist_sort(es, FALSE).slabs = TempFilled(es).slabs
      /\ slablist_sort(es, FALSE).sl_head = "slab" <=> TempFilled(es).slabs # <<>>
  BY DEF slablist_sort
<1> QED
  BY <1>3, <1>4, <1>5

=============================================================================
