------------------------- MODULE OrderedSlabListProofs -------------------------
(***************************************************************************)
(* What holds of every ordered slab list: neighbours never fit into one    *)
(* slab, reading by position and walking return what the list holds at     *)
(* that place, and the list implements a sequence of elements.             *)
(* Sorting puts the contents of any such list in order.                    *)
(***************************************************************************)
EXTENDS SlabSort, SlabSortProofs

-----------------------------------------------------------------------------
(* Positions *)

\* Counting the elements before a slab gives its offset.
IsCounting(f, ls) ==
    f = [b \in 0 .. Len(ls) |-> IF b = 0 THEN 0 ELSE f[b - 1] + ls[b].s_elems]

LEMMA ElemsBeforeOffset ==
    ASSUME NEW ls \in Seq(Slab), NEW o, Offsets(ls, o), NEW a \in 0 .. Len(ls)
    PROVE  ElemsBefore(ls, a) = o[a]
<1> DEFINE n == Len(ls)
           f == CHOOSE g : IsCounting(g, ls)
           S == {k \in Nat : k <= n => f[k] = o[k]}
<1>0. n \in Nat
  BY SlabAt
<1>1. ElemsBefore(ls, a) = f[a]
  BY DEF ElemsBefore, IsCounting
<1>2. IsCounting(o, ls)
  <2> DEFINE h == [b \in 0 .. n |-> IF b = 0 THEN 0 ELSE o[b - 1] + ls[b].s_elems]
  <2>1. \A b \in 0 .. n : o[b] = h[b]
    BY <1>0 DEF Offsets
  <2>2. o = h
    BY <2>1 DEF Offsets
  <2> QED
    BY <2>2 DEF IsCounting
<1>3. IsCounting(f, ls)
  BY <1>2
<1> HIDE DEF f
<1>4. \A b \in 0 .. n : f[b] = IF b = 0 THEN 0 ELSE f[b - 1] + ls[b].s_elems
  BY <1>3 DEF IsCounting
<1>5. \A b \in 1 .. n : o[b] = o[b - 1] + ls[b].s_elems
  BY DEF Offsets
<1> HIDE DEF n
<1>6. 0 \in S
  BY <1>0, <1>4 DEF Offsets
<1>7. ASSUME NEW k \in Nat, k \in S PROVE k + 1 \in S
  <2> SUFFICES ASSUME k + 1 <= n PROVE f[k + 1] = o[k + 1]
    OBVIOUS
  <2>1. k + 1 \in 0 .. n /\ k + 1 \in 1 .. n /\ k + 1 # 0 /\ (k + 1) - 1 = k /\ k <= n
    BY <1>0
  <2>2. f[k + 1] = f[k] + ls[k + 1].s_elems
    BY <1>4, <2>1
  <2>3. o[k + 1] = o[k] + ls[k + 1].s_elems
    BY <1>5, <2>1
  <2>4. f[k] = o[k]
    BY <1>7, <2>1
  <2> QED
    BY <2>2, <2>3, <2>4
<1> HIDE DEF S
<1>8. Nat \subseteq S
  BY <1>6, <1>7, SetInduction
<1>9. a \in Nat /\ a <= n
  BY DEF n
<1>10. f[a] = o[a]
  BY <1>8, <1>9 DEF S
<1> QED
  BY <1>1, <1>10

\* slab_get_elem_pos finds the slab and the index of a position.
LEMMA slab_get_elem_posFinds ==
    ASSUME NEW ls \in Seq(Slab), NEW c \in Seq(Elem), NEW o, Lays(ls, c, o),
           NEW p \in 0 .. Len(c) - 1
    PROVE  LET at == slab_get_elem_pos(ls, p)
           IN  /\ at.slab \in 1 .. Len(ls)
               /\ at.off_pos \in 0 .. ls[at.slab].s_elems - 1
               /\ p = o[at.slab - 1] + at.off_pos
               /\ ls[at.slab].s_arr[at.off_pos] = c[p + 1]
<1> DEFINE n == Len(ls)
           A == {b \in DOMAIN ls : ElemsBefore(ls, b) > p}
           a == Min(A)
           i == p - o[a - 1]
<1>0. /\ n \in Nat /\ Len(c) \in Nat /\ o[0] = 0 /\ o[n] = Len(c)
      /\ \A b \in 0 .. n : o[b] \in Nat
      /\ \A b \in 1 .. n : ls[b].s_elems \in Nat /\ o[b] = o[b - 1] + ls[b].s_elems
      /\ \A b \in 1 .. n : Continues(c, o[b - 1], ls[b])
  <2>1. n \in Nat /\ Len(c) \in Nat /\ o[0] = 0 /\ o[n] = Len(c)
    BY LaysFacts
  <2>2. \A b \in 0 .. n : o[b] \in Nat
    BY LaysFacts
  <2>3. \A b \in 1 .. n : ls[b].s_elems \in Nat /\ o[b] = o[b - 1] + ls[b].s_elems
    BY LaysFacts
  <2>4. \A b \in 1 .. n : Continues(c, o[b - 1], ls[b])
    BY LaysFacts
  <2> QED
    BY <2>1, <2>2, <2>3, <2>4
<1>1. \A b \in 0 .. n : ElemsBefore(ls, b) = o[b]
  BY ElemsBeforeOffset DEF Lays
<1>2. DOMAIN ls = 1 .. n
  BY SlabAt
<1> HIDE DEF n
<1>3. \A b : b \in A <=> b \in 1 .. n /\ o[b] > p
  <2> SUFFICES ASSUME NEW b PROVE b \in A <=> b \in 1 .. n /\ o[b] > p
    OBVIOUS
  <2>1. b \in A <=> b \in 1 .. n /\ ElemsBefore(ls, b) > p
    BY <1>2
  <2>2. b \in 1 .. n => b \in 0 .. n
    BY <1>0
  <2>3. b \in 1 .. n => ElemsBefore(ls, b) = o[b]
    BY <1>1, <2>2
  <2> QED
    BY <2>1, <2>3
<1>4. n \in A /\ A \in SUBSET Nat
  <2>1. o[n] > p /\ n # 0
    BY <1>0
  <2>2. n \in 1 .. n
    BY <1>0, <2>1
  <2>3. n \in A
    BY <1>3, <2>1, <2>2
  <2>4. \A b \in A : b \in Nat
    BY <1>0, <1>3
  <2> QED
    BY <2>3, <2>4
<1> HIDE DEF A
<1>5. a \in A /\ \A b \in A : a <= b
  BY <1>4, MinOfNats
<1> HIDE DEF a
<1>6. a \in 1 .. n /\ o[a] > p
  BY <1>3, <1>5
<1>7. a - 1 \in 0 .. n /\ o[a - 1] <= p
  <2>1. a - 1 \in 0 .. n
    BY <1>0, <1>6
  <2>2. CASE a - 1 = 0
    BY <1>0, <2>1, <2>2
  <2>3. CASE a - 1 # 0
    <3>1. a - 1 \in 1 .. n /\ ~(a <= a - 1)
      BY <1>0, <1>6, <2>3
    <3>2. ~(o[a - 1] > p)
      BY <1>3, <1>5, <3>1
    <3> QED
      BY <1>0, <2>1, <3>2
  <2> QED
    BY <2>2, <2>3
<1>8. slab_get_elem_pos(ls, p) = [slab |-> a, off_pos |-> i]
  BY <1>1, <1>7 DEF slab_get_elem_pos, a, A
<1>9. i \in 0 .. ls[a].s_elems - 1 /\ p = o[a - 1] + i
  <2>1. /\ o[a] \in Nat /\ o[a - 1] \in Nat /\ ls[a].s_elems \in Nat
        /\ o[a] = o[a - 1] + ls[a].s_elems
    BY <1>0, <1>6, <1>7
  <2> QED
    BY SMTT(60), <1>6, <1>7, <2>1
<1> HIDE DEF i
<1>10. ls[a].s_arr[i] = c[p + 1]
  BY <1>0, <1>6, <1>9 DEF Continues
<1> QED
  BY <1>6, <1>8, <1>9, <1>10 DEF n

-----------------------------------------------------------------------------
(* Moves, merges and reaps *)

\* A slab without elements may go.
LEMMA UnlinkedLaid ==
    ASSUME NEW ls \in Seq(Slab), NEW c \in Seq(Elem), NEW o, Lays(ls, c, o),
           NEW p \in 1 .. Len(ls), ls[p].s_elems = 0
    PROVE  Lays(RemoveAt(ls, p), c,
                [a \in 0 .. Len(ls) - 1 |-> IF a < p THEN o[a] ELSE o[a + 1]])
<1> DEFINE n == Len(ls)
           r == RemoveAt(ls, p)
           v == [a \in 0 .. n - 1 |-> IF a < p THEN o[a] ELSE o[a + 1]]
<1>0. /\ n \in Nat /\ o[0] = 0 /\ o[n] = Len(c)
      /\ \A j \in 0 .. n : o[j] \in Nat
      /\ \A j \in 1 .. n : o[j] = o[j - 1] + ls[j].s_elems
      /\ \A j \in 1 .. n : Continues(c, o[j - 1], ls[j])
  BY ZenonT(60), LaysFacts
<1>1. Len(r) = n - 1 /\ \A j \in 1 .. n - 1 : r[j] = IF j < p THEN ls[j] ELSE ls[j + 1]
  BY RemoveAtProperties
<1>2. n \in Nat /\ p \in 1 .. n /\ p - 1 \in 0 .. n /\ o[p] = o[p - 1] /\ n - 1 \in Nat
  BY <1>0
<1> HIDE DEF n, r
<1>3. \A j \in 0 .. n - 1 : v[j] = IF j < p THEN o[j] ELSE o[j + 1]
  OBVIOUS
<1>4. v \in [0 .. n - 1 -> Nat]
  <2>1. \A j \in 0 .. n - 1 : j \in 0 .. n /\ j + 1 \in 0 .. n
    BY <1>0
  <2> QED
    BY <1>0, <2>1
<1> HIDE DEF v
\* The new offset of the slab before is the old one.
<1>5. ASSUME NEW j \in 1 .. n - 1
      PROVE  IF j < p THEN v[j] = o[j] /\ v[j - 1] = o[j - 1]
             ELSE v[j] = o[j + 1] /\ v[j - 1] = o[j]
  <2>1. j \in 0 .. n - 1 /\ j - 1 \in 0 .. n - 1
    BY <1>2
  <2>2. CASE j < p
    <3>1. j - 1 < p
      BY <2>2
    <3> QED
      BY <1>3, <2>1, <2>2, <3>1
  <2>3. CASE j = p
    <3>1. j - 1 < p /\ ~(j < p)
      BY <2>3
    <3>2. v[j - 1] = o[j - 1] /\ v[j] = o[j + 1]
      BY <1>3, <2>1, <3>1
    <3> QED
      BY <1>2, <2>3, <3>1, <3>2
  <2>4. CASE j > p
    <3>1. ~(j - 1 < p) /\ ~(j < p) /\ (j - 1) + 1 = j
      BY <2>4
    <3> QED
      BY <1>3, <2>1, <3>1
  <2> QED
    BY <2>2, <2>3, <2>4
<1>6. ASSUME NEW j \in 1 .. n - 1 PROVE v[j] = v[j - 1] + r[j].s_elems
  <2>1. j \in 1 .. n /\ j + 1 \in 1 .. n /\ (j + 1) - 1 = j
    BY <1>2
  <2>2. o[j] = o[j - 1] + ls[j].s_elems /\ o[j + 1] = o[j] + ls[j + 1].s_elems
    BY <1>0, <2>1
  <2> QED
    BY <1>1, <1>5, <2>2
<1>7. ASSUME NEW j \in 1 .. n - 1 PROVE Continues(c, v[j - 1], r[j])
  <2>1. j \in 1 .. n /\ j + 1 \in 1 .. n /\ (j + 1) - 1 = j
    BY <1>2
  <2>2. Continues(c, o[j - 1], ls[j]) /\ Continues(c, o[j], ls[j + 1])
    BY <1>0, <2>1
  <2> QED
    BY <1>1, <1>5, <2>2
<1>8. v[0] = 0 /\ v[n - 1] = Len(c)
  <2>1. 0 \in 0 .. n - 1 /\ n - 1 \in 0 .. n - 1 /\ 0 < p /\ (n - 1) + 1 = n
    BY <1>2
  <2>2. v[n - 1] = IF n - 1 < p THEN o[n - 1] ELSE o[n]
    BY <1>3, <2>1
  <2>3. n - 1 < p => n - 1 = p - 1 /\ p = n
    BY <1>2
  <2>4. o[n - 1] = o[n] \/ ~(n - 1 < p)
    BY <1>2, <2>3
  <2> QED
    BY <1>0, <1>3, <2>1, <2>2, <2>4
<1>9. Lays(r, c, v)
  BY <1>1, <1>4, <1>6, <1>7, <1>8 DEF Lays, Offsets
<1> QED
  BY <1>9 DEF v, r, n

LEMMA ToNextHolds ==
    ASSUME NEW ls, NEW c, NEW x, Holds(ls, c, x), NEW a \in 1 .. Len(ls),
           a + 1 \in 1 .. Len(ls), ls[a + 1].s_elems > 0
    PROVE  ToNext(ls, a) \in Seq(Slab) /\ Holds(ToNext(ls, a), c, x)
<1> DEFINE b  == a + 1
           mv == move_to_next(ls[a], ls[b])
           t  == mv[1]
           u  == mv[2]
           r  == ToNext(ls, a)
<1>1. b \in 1 .. Len(ls) /\ a # b /\ b = a + 1 /\ ls \in Seq(Slab)
  <2>1. b \in 1 .. Len(ls) /\ a # b /\ b = a + 1
    OBVIOUS
  <2> QED
    BY <2>1, HoldsFacts
<1>2. r = Put2(ls, a, t, b, u)
  BY DEF ToNext, Put2
<1>3. ls[a] \in Slab /\ ls[b] \in Slab
  BY <1>1, SlabAt
<1>4. /\ SameRun(ls[a], ls[b], t, u)
      /\ Capped(ls[a], TRUE) /\ Capped(ls[b], TRUE) => Capped(t, TRUE) /\ Capped(u, TRUE)
  BY <1>3, move_to_nextRun
<1>5. t \in Slab /\ u \in Slab
  BY <1>3, move_to_nextIsSlab
<1> HIDE DEF b, t, u, r
<1>6. /\ r \in Seq(Slab) /\ Len(r) = Len(ls)
      /\ \A j \in 1 .. Len(ls) : r[j] = IF j = a THEN t ELSE IF j = b THEN u ELSE ls[j]
  <2>1. /\ Put2(ls, a, t, b, u) \in Seq(Slab)
        /\ Len(Put2(ls, a, t, b, u)) = Len(ls)
        /\ \A j \in 1 .. Len(ls) : Put2(ls, a, t, b, u)[j] =
               IF j = a THEN t ELSE IF j = b THEN u ELSE ls[j]
    BY <1>1, <1>5, Put2Properties
  <2> QED
    BY <1>2, <2>1
<1>7. /\ r[a] = t /\ r[b] = u
      /\ \A j \in 1 .. Len(ls) : j # a /\ j # b => r[j] = ls[j]
  BY <1>1, <1>6
<1>8. Holds(r, c, x)
  BY <1>1, <1>4, <1>6, <1>7, TwoHeld
<1> QED
  BY <1>6, <1>8 DEF r

LEMMA ToPrevHolds ==
    ASSUME NEW ls, NEW c, NEW x, Holds(ls, c, x), NEW a \in 1 .. Len(ls),
           a - 1 \in 1 .. Len(ls)
    PROVE  ToPrev(ls, a) \in Seq(Slab) /\ Holds(ToPrev(ls, a), c, x)
<1> DEFINE b  == a - 1
           mv == move_to_prev(ls[a], ls[b])
           t  == mv[1]
           u  == mv[2]
           r  == ToPrev(ls, a)
<1>1. b \in 1 .. Len(ls) /\ a # b /\ a = b + 1 /\ ls \in Seq(Slab)
  <2>1. b \in 1 .. Len(ls) /\ a # b /\ a = b + 1
    OBVIOUS
  <2> QED
    BY <2>1, HoldsFacts
<1>2. r = Put2(ls, a, t, b, u)
  BY DEF ToPrev, Put2
<1>3. ls[a] \in Slab /\ ls[b] \in Slab
  BY <1>1, SlabAt
<1>4. /\ SameRun(ls[b], ls[a], u, t)
      /\ Capped(ls[a], TRUE) /\ Capped(ls[b], TRUE) => Capped(t, TRUE) /\ Capped(u, TRUE)
  BY <1>3, move_to_prevRun
<1>5. t \in Slab /\ u \in Slab
  BY <1>3, move_to_prevIsSlab
<1> HIDE DEF b, t, u, r
<1>6. /\ r \in Seq(Slab) /\ Len(r) = Len(ls)
      /\ \A j \in 1 .. Len(ls) : r[j] = IF j = a THEN t ELSE IF j = b THEN u ELSE ls[j]
  <2>1. /\ Put2(ls, a, t, b, u) \in Seq(Slab)
        /\ Len(Put2(ls, a, t, b, u)) = Len(ls)
        /\ \A j \in 1 .. Len(ls) : Put2(ls, a, t, b, u)[j] =
               IF j = a THEN t ELSE IF j = b THEN u ELSE ls[j]
    <3>1. b \in 1 .. Len(ls) /\ a # b /\ ls \in Seq(Slab) /\ a \in 1 .. Len(ls)
      BY <1>1
    <3>2. Put2(ls, a, t, b, u) \in Seq(Slab)
      BY <1>5, <3>1, Put2Properties
    <3>3. Len(Put2(ls, a, t, b, u)) = Len(ls)
      BY <1>5, <3>1, Put2Properties
    <3>4. \A j \in 1 .. Len(ls) : Put2(ls, a, t, b, u)[j] =
               IF j = a THEN t ELSE IF j = b THEN u ELSE ls[j]
      BY <1>5, <3>1, Put2Properties
    <3> QED
      BY <3>2, <3>3, <3>4
  <2> QED
    BY <1>2, <2>1
<1>7. /\ r[a] = t /\ r[b] = u
      /\ \A j \in 1 .. Len(ls) : j # b /\ j # a => r[j] = ls[j]
  BY <1>1, <1>6
<1>8. Holds(r, c, x)
  BY <1>1, <1>4, <1>6, <1>7, TwoHeld
<1> QED
  BY <1>6, <1>8 DEF r

LEMMA UnlinkedHolds ==
    ASSUME NEW ls, NEW c, NEW x, Holds(ls, c, x), NEW p \in 1 .. Len(ls),
           ls[p].s_elems = 0
    PROVE  RemoveAt(ls, p) \in Seq(Slab) /\ Holds(RemoveAt(ls, p), c, x)
<1> DEFINE r == RemoveAt(ls, p)
           n == Len(ls)
<1>1. ls \in Seq(Slab) /\ c \in Seq(Elem) /\ n \in Nat
  BY HoldsFacts
<1>2. /\ r \in Seq(Slab) /\ Len(r) = n - 1
      /\ \A j \in 1 .. n - 1 : r[j] = IF j < p THEN ls[j] ELSE ls[j + 1]
  BY <1>1, RemoveAtProperties
<1>3. PICK o : Lays(ls, c, o)
  BY DEF Holds
<1>4. \E v : Lays(r, c, v)
  BY <1>1, <1>3, UnlinkedLaid
<1>5. ASSUME x PROVE \A j \in 1 .. Len(r) : Capped(r[j], TRUE)
  <2>1. \A j \in 1 .. n : Capped(ls[j], TRUE)
    BY <1>5, HoldsFacts
  <2> HIDE DEF r, n
  <2>2. \A j \in 1 .. n - 1 : j \in 1 .. n /\ j + 1 \in 1 .. n
    BY <1>1
  <2> QED
    BY <1>2, <2>1, <2>2
<1> HIDE DEF r, n
<1>6. Holds(r, c, x)
  BY <1>1, <1>2, <1>4, <1>5 DEF Holds
<1> QED
  BY <1>2, <1>6 DEF r

\* A chain holds the same elements after any merge and any reap.
LEMMA HoldsMoveClosed ==
    ASSUME NEW c, NEW x
    PROVE  MoveClosed({r \in Seq(Slab) : Holds(r, c, x)})
<1> DEFINE P == {r \in Seq(Slab) : Holds(r, c, x)}
<1>1. ASSUME NEW ls \in P, NEW a \in 1 .. Len(ls), a + 1 \in 1 .. Len(ls),
             ls[a + 1].s_elems > 0
      PROVE  ToNext(ls, a) \in P
  BY <1>1, ToNextHolds
<1>2. ASSUME NEW ls \in P, NEW a \in 1 .. Len(ls), a - 1 \in 1 .. Len(ls)
      PROVE  ToPrev(ls, a) \in P
  BY <1>2, ToPrevHolds
<1>3. ASSUME NEW ls \in P, NEW p \in 1 .. Len(ls), ls[p].s_elems = 0
      PROVE  RemoveAt(ls, p) \in P
  BY <1>3, UnlinkedHolds
<1>4. P \subseteq Seq(Slab)
  OBVIOUS
<1> HIDE DEF P
<1>5. MoveClosed(P)
  BY <1>1, <1>2, <1>3, <1>4 DEF MoveClosed
<1> QED
  BY <1>5 DEF P

LEMMA slablist_reapHolds ==
    ASSUME NEW ls, NEW c, NEW x, Holds(ls, c, x)
    PROVE  Holds(slablist_reap(ls), c, x)
<1> DEFINE P == {r \in Seq(Slab) : Holds(r, c, x)}
<1>1. ls \in P /\ MoveClosed(P)
  BY HoldsMoveClosed, HoldsFacts
<1> HIDE DEF P
<1>2. slablist_reap(ls) \in P
  BY <1>1, slablist_reapClosed
<1> QED
  BY <1>2 DEF P

LEMMA try_reapHolds ==
    ASSUME NEW ls, NEW c, NEW x, Holds(ls, c, x), NEW elems, NEW mslabs, NEW mpslabs
    PROVE  Holds(try_reap(ls, elems, mslabs, mpslabs), c, x)
<1>1. \/ try_reap(ls, elems, mslabs, mpslabs) = ls
      \/ try_reap(ls, elems, mslabs, mpslabs) = slablist_reap(ls)
  BY DEF try_reap
<1> QED
  BY <1>1, slablist_reapHolds

LEMMA slab_generic_remHolds ==
    ASSUME NEW ls, NEW c, NEW x, Holds(ls, c, x), NEW m, Dented(ls, m)
    PROVE  Holds(slab_generic_rem(ls, m), c, x)
<1> DEFINE P == {r \in Seq(Slab) : Holds(r, c, x)}
<1>1. ls \in P /\ MoveClosed(P)
  BY HoldsMoveClosed, HoldsFacts
<1> HIDE DEF P
<1>2. slab_generic_rem(ls, m) \in P
  BY <1>1, slab_generic_remClosed
<1> QED
  BY <1>2 DEF P

-----------------------------------------------------------------------------
(* Appending an element *)

\* The last slab takes an element.
LEMMA GrownLaid ==
    ASSUME NEW ls \in Seq(Slab), NEW c \in Seq(Elem), NEW o, Lays(ls, c, o),
           NEW n \in 1 .. Len(ls), n = Len(ls), NEW e \in Elem,
           NEW t \in Slab, t.s_elems = ls[n].s_elems + 1,
           \A i \in 0 .. ls[n].s_elems - 1 : t.s_arr[i] = ls[n].s_arr[i],
           t.s_arr[ls[n].s_elems] = e
    PROVE  Lays(Put(ls, n, t), Append(c, e),
                [j \in 0 .. n |-> IF j = n THEN Len(c) + 1 ELSE o[j]])
<1> DEFINE d == Append(c, e)
           r == Put(ls, n, t)
           m == Len(c)
           v == [j \in 0 .. n |-> IF j = n THEN m + 1 ELSE o[j]]
           k == ls[n].s_elems
<1>0. /\ n \in Nat /\ m \in Nat /\ o[0] = 0 /\ o[n] = m
      /\ \A j \in 0 .. n : o[j] \in Nat /\ o[j] <= m
      /\ \A j \in 1 .. n : ls[j].s_elems \in Nat /\ o[j] = o[j - 1] + ls[j].s_elems
  <2>1. n \in Nat /\ m \in Nat /\ o[0] = 0 /\ o[n] = m
    BY LaysFacts
  <2>2. \A j \in 0 .. n : o[j] \in Nat /\ o[j] <= m
    BY LaysFacts
  <2>3. \A j \in 1 .. n : ls[j].s_elems \in Nat /\ o[j] = o[j - 1] + ls[j].s_elems
    BY LaysFacts
  <2> QED
    BY <2>1, <2>2, <2>3
<1>1. \A j \in 1 .. n : Continues(c, o[j - 1], ls[j])
  BY LaysFacts
<1>2. Len(d) = m + 1 /\ (\A i \in 1 .. m : d[i] = c[i]) /\ d[m + 1] = e
  BY AppendProperties
<1>3. Len(r) = n /\ \A j \in 1 .. n : r[j] = IF j = n THEN t ELSE ls[j]
  BY PutProperties
<1>4. o \in [0 .. n -> Nat]
  BY DEF Lays, Offsets
<1>5. /\ v \in [0 .. n -> Nat] /\ \A j \in 0 .. n : v[j] = IF j = n THEN m + 1 ELSE o[j]
  <2>1. m + 1 \in Nat
    BY <1>0
  <2> HIDE DEF m
  <2>2. v \in [0 .. n -> Nat]
    BY <1>4, <2>1
  <2>3. \A j \in 0 .. n : v[j] = IF j = n THEN m + 1 ELSE o[j]
    OBVIOUS
  <2> QED
    BY <2>2, <2>3
<1>6. n - 1 \in 0 .. n /\ n \in 1 .. n /\ n \in 0 .. n /\ n - 1 # n /\ k \in Nat /\ m = o[n - 1] + k
  BY <1>0
<1>7. t.s_elems = k + 1 /\ (\A i \in 0 .. k - 1 : t.s_arr[i] = ls[n].s_arr[i]) /\ t.s_arr[k] = e
  OBVIOUS
<1> HIDE DEF d, r, v, m, k
<1>8. ASSUME NEW j \in 1 .. n PROVE Continues(d, o[j - 1], ls[j])
  <2> DEFINE w == o[j - 1]
             l == ls[j].s_elems
  <2>1. j - 1 \in 0 .. n /\ w \in Nat /\ l \in Nat /\ w + l <= m
    <3>1. j - 1 \in 0 .. n /\ j \in 0 .. n
      BY <1>0
    <3> QED
      BY <1>0, <3>1
  <2>2. \A i \in 0 .. l - 1 : c[(w + i) + 1] = ls[j].s_arr[i]
    BY <1>1 DEF Continues
  <2> HIDE DEF w, l
  <2>3. \A i \in 0 .. l - 1 : (w + i) + 1 \in 1 .. m
    BY <1>0, <2>1
  <2>4. \A i \in 0 .. l - 1 : d[(w + i) + 1] = ls[j].s_arr[i]
    BY <1>2, <2>2, <2>3
  <2> QED
    BY <2>4 DEF Continues, w, l
<1>9. Continues(d, o[n - 1], t)
  <2> DEFINE w == o[n - 1]
  <2>1. \A i \in 0 .. k - 1 : d[(w + i) + 1] = ls[n].s_arr[i]
    BY <1>6, <1>8 DEF Continues, k
  <2>2. w \in Nat /\ (w + k) + 1 = m + 1
    BY <1>0, <1>6
  <2> HIDE DEF w
  <2>3. \A i \in 0 .. k : d[(w + i) + 1] = t.s_arr[i]
    <3> SUFFICES ASSUME NEW i \in 0 .. k PROVE d[(w + i) + 1] = t.s_arr[i]
      OBVIOUS
    <3>1. CASE i = k
      BY <1>2, <1>7, <2>2, <3>1
    <3>2. CASE i # k
      <4>1. i \in 0 .. k - 1
        BY <1>6, <3>2
      <4> QED
        BY <1>7, <2>1, <4>1
    <3> QED
      BY <3>1, <3>2
  <2>4. \A i \in 0 .. t.s_elems - 1 : i \in 0 .. k
    BY <1>6, <1>7
  <2> QED
    BY <2>3, <2>4 DEF Continues, w
<1>10. ASSUME NEW j \in 1 .. n
       PROVE  v[j] = v[j - 1] + r[j].s_elems /\ Continues(d, v[j - 1], r[j])
  <2>1. j \in 0 .. n /\ j - 1 \in 0 .. n /\ j - 1 # n
    BY <1>0
  <2>2. v[j - 1] = o[j - 1]
    BY <1>5, <2>1
  <2>3. CASE j = n
    <3>1. v[j] = o[j - 1] + (k + 1)
      <4>1. v[j] = m + 1
        BY <1>5, <2>1, <2>3
      <4> QED
        <5>1. o[j - 1] \in Nat /\ m = o[j - 1] + k
          BY <1>0, <1>6, <2>1, <2>3
        <5> QED
          BY SMTT(60), <1>6, <4>1, <5>1
    <3> QED
      BY <1>3, <1>7, <1>9, <2>2, <2>3, <3>1
  <2>4. CASE j # n
    BY <1>0, <1>3, <1>5, <1>8, <2>1, <2>2, <2>4
  <2> QED
    BY <2>3, <2>4
<1>11. v[0] = 0 /\ v[n] = Len(d)
  <2>1. 0 \in 0 .. n /\ 0 # n
    BY <1>0
  <2> QED
    BY <1>0, <1>2, <1>5, <1>6, <2>1
<1>12. Lays(r, d, v)
  BY <1>3, <1>5, <1>10, <1>11 DEF Lays, Offsets
<1> QED
  BY <1>12 DEF r, d, v, m

\* A slab with one element is linked in at the end.
LEMMA LinkedLaid ==
    ASSUME NEW ls \in Seq(Slab), NEW c \in Seq(Elem), NEW o, Lays(ls, c, o),
           NEW e \in Elem, NEW t \in Slab, t.s_elems = 1, t.s_arr[0] = e
    PROVE  Lays(Append(ls, t), Append(c, e),
                [a \in 0 .. Len(ls) + 1 |-> IF a = Len(ls) + 1 THEN Len(c) + 1 ELSE o[a]])
<1> DEFINE d == Append(c, e)
           r == Append(ls, t)
           n == Len(ls)
           m == Len(c)
           v == [a \in 0 .. n + 1 |-> IF a = n + 1 THEN m + 1 ELSE o[a]]
<1>0. /\ n \in Nat /\ m \in Nat /\ o[0] = 0 /\ o[n] = m
      /\ \A j \in 0 .. n : o[j] \in Nat /\ o[j] <= m
      /\ \A j \in 1 .. n : ls[j].s_elems \in Nat /\ o[j] = o[j - 1] + ls[j].s_elems
  <2>1. n \in Nat /\ m \in Nat /\ o[0] = 0 /\ o[n] = m
    BY LaysFacts
  <2>2. \A j \in 0 .. n : o[j] \in Nat /\ o[j] <= m
    BY LaysFacts
  <2>3. \A j \in 1 .. n : ls[j].s_elems \in Nat /\ o[j] = o[j - 1] + ls[j].s_elems
    BY LaysFacts
  <2> QED
    BY <2>1, <2>2, <2>3
<1>1. \A j \in 1 .. n : Continues(c, o[j - 1], ls[j])
  BY LaysFacts
<1>2. Len(d) = m + 1 /\ (\A i \in 1 .. m : d[i] = c[i]) /\ d[m + 1] = e
  BY AppendProperties
<1>3. Len(r) = n + 1 /\ (\A j \in 1 .. n : r[j] = ls[j]) /\ r[n + 1] = t
  BY AppendProperties
<1>4. \A j \in 0 .. n + 1 : v[j] = IF j = n + 1 THEN m + 1 ELSE o[j]
  OBVIOUS
<1> HIDE DEF d, r, n, m
<1>5. v \in [0 .. n + 1 -> Nat]
  <2>1. \A j \in 0 .. n + 1 : j = n + 1 \/ j \in 0 .. n
    BY <1>0
  <2> QED
    BY <1>0, <2>1
<1> HIDE DEF v
<1>6. ASSUME NEW j \in 1 .. n PROVE Continues(d, o[j - 1], ls[j])
  <2> DEFINE w == o[j - 1]
             l == ls[j].s_elems
  <2>1. j - 1 \in 0 .. n /\ w \in Nat /\ l \in Nat /\ w + l <= m
    <3>1. j - 1 \in 0 .. n /\ j \in 0 .. n
      BY <1>0
    <3> QED
      BY <1>0, <3>1
  <2>2. \A i \in 0 .. l - 1 : c[(w + i) + 1] = ls[j].s_arr[i]
    BY <1>1 DEF Continues
  <2> HIDE DEF w, l
  <2>3. \A i \in 0 .. l - 1 : (w + i) + 1 \in 1 .. m
    BY <1>0, <2>1
  <2>4. \A i \in 0 .. l - 1 : d[(w + i) + 1] = ls[j].s_arr[i]
    BY <1>2, <2>2, <2>3
  <2> QED
    BY <2>4 DEF Continues, w, l
<1>7. Continues(d, m, t)
  <2>1. \A i \in 0 .. t.s_elems - 1 : i = 0
    OBVIOUS
  <2>2. (m + 0) + 1 = m + 1
    BY <1>0
  <2> QED
    BY <1>2, <2>1, <2>2 DEF Continues
<1>8. ASSUME NEW j \in 1 .. n + 1
      PROVE  v[j] = v[j - 1] + r[j].s_elems /\ Continues(d, v[j - 1], r[j])
  <2>1. j \in 0 .. n + 1 /\ j - 1 \in 0 .. n + 1 /\ j - 1 # n + 1
    BY <1>0
  <2>2. v[j - 1] = o[j - 1]
    BY <1>4, <2>1
  <2>3. CASE j = n + 1
    <3>1. j - 1 = n
      BY <1>0, <2>3
    <3> QED
      BY <1>0, <1>3, <1>4, <1>7, <2>1, <2>2, <2>3, <3>1
  <2>4. CASE j # n + 1
    <3>1. j \in 1 .. n
      BY <1>0, <2>4
    <3> QED
      BY <1>0, <1>3, <1>4, <1>6, <2>1, <2>2, <2>4, <3>1
  <2> QED
    BY <2>3, <2>4
<1>9. v[0] = 0 /\ v[n + 1] = Len(d)
  <2>1. 0 \in 0 .. n + 1 /\ 0 # n + 1 /\ n + 1 \in 0 .. n + 1
    BY <1>0
  <2> QED
    BY <1>0, <1>2, <1>4, <2>1
<1>10. Lays(r, d, v)
  BY <1>3, <1>5, <1>8, <1>9 DEF Lays, Offsets
<1> QED
  BY <1>10 DEF r, d, v, n, m

\* A slab with room whose end an element is put at.
Stretched(s, e) ==
    [s EXCEPT !.s_arr[s.s_elems] = e, !.s_max = e, !.s_elems = s.s_elems + 1]

LEMMA StretchedSlab ==
    ASSUME NEW s \in Slab, s.s_elems < SELEM_MAX, NEW e \in Elem
    PROVE  LET t == Stretched(s, e)
           IN  /\ t \in Slab /\ t.s_elems = s.s_elems + 1
               /\ \A i \in 0 .. s.s_elems - 1 : t.s_arr[i] = s.s_arr[i]
               /\ t.s_arr[s.s_elems] = e
               /\ Capped(s, TRUE) /\ s.s_elems > 0 => Capped(t, TRUE)
<1> DEFINE t == Stretched(s, e)
           k == s.s_elems
           arr == [s.s_arr EXCEPT ![k] = e]
<1>0. /\ SELEM_MAX \in Nat /\ k \in Nat /\ k < SELEM_MAX /\ s.s_arr \in [Index -> Slot]
      /\ s.s_min \in Slot /\ e \in Slot
      /\ \A j \in 0 .. k - 1 : s.s_arr[j] \in Elem
      /\ s = [s_min |-> s.s_min, s_max |-> s.s_max, s_elems |-> k, s_arr |-> s.s_arr]
  BY SlabParts, ElemIsSlot, SlabSizeAssumption
<1>1. \A j \in 0 .. k : j \in Index
  BY <1>0 DEF Index
<1>2. \A j \in Index : arr[j] = IF j = k THEN e ELSE s.s_arr[j]
  <2> HIDE DEF k
  <2> QED
    BY <1>0
<1>3. arr \in [Index -> Slot]
  BY <1>0
<1>4. /\ t \in [s_min : Slot, s_max : Slot, s_elems : 0 .. SELEM_MAX,
                s_arr : [Index -> Slot]]
      /\ t.s_min = s.s_min /\ t.s_max = e /\ t.s_elems = k + 1 /\ t.s_arr = arr
  <2>1. s \in [s_min : Slot, s_max : Slot, s_elems : 0 .. SELEM_MAX,
               s_arr : [Index -> Slot]]
    BY DEF Slab
  <2>2. k + 1 \in 0 .. SELEM_MAX
    BY <1>0
  <2>3. t = [s EXCEPT !.s_arr = arr, !.s_max = e, !.s_elems = k + 1]
    BY <2>1 DEF Stretched
  <2> HIDE DEF t, arr, k
  <2> QED
    BY <1>0, <1>3, <2>1, <2>2, <2>3
<1> HIDE DEF arr, t, k
<1>5. arr[k] = e /\ \A j \in 0 .. k - 1 : arr[j] = s.s_arr[j]
  <2>1. k \in 0 .. k /\ \A j \in 0 .. k - 1 : j \in 0 .. k /\ j # k
    BY <1>0
  <2> QED
    BY <1>1, <1>2, <2>1
<1>6. \A j \in 0 .. (k + 1) - 1 : arr[j] \in Elem
  <2>1. \A j \in 0 .. (k + 1) - 1 : j = k \/ j \in 0 .. k - 1
    BY <1>0
  <2> QED
    BY <1>0, <1>5, <2>1
<1>7. t \in Slab
  BY <1>4, <1>6, RawSlab
<1>8. ASSUME Capped(s, TRUE), k > 0 PROVE Capped(t, TRUE)
  <2>1. s.s_min = s.s_arr[0]
    BY <1>8 DEF Capped, StandsFor, k
  <2>2. arr[0] = s.s_arr[0]
    <3>1. 0 \in 0 .. k - 1
      BY <1>0, <1>8
    <3> QED
      BY <1>5, <3>1
  <2>3. (k + 1) - 1 = k
    BY <1>0
  <2> QED
    BY <1>4, <1>5, <2>1, <2>2, <2>3 DEF Capped, StandsFor
<1>9. \A i \in 0 .. k - 1 : t.s_arr[i] = s.s_arr[i]
  BY <1>4, <1>5
<1>10. t.s_arr[k] = e
  BY <1>4, <1>5
<1> QED
  BY <1>4, <1>7, <1>8, <1>9, <1>10 DEF t, k

\* AppendTo adds the element to what the chain holds.
LEMMA AppendToHolds ==
    ASSUME NEW ls, NEW c, NEW x, Holds(ls, c, x), Chain(ls), Len(ls) > 0, NEW e \in Elem
    PROVE  /\ Holds(AppendTo(ls, e), Append(c, e), x)
           /\ Chain(AppendTo(ls, e)) /\ Len(AppendTo(ls, e)) > 0
<1> DEFINE n == Len(ls)
           s == ls[n]
           d == Append(c, e)
           r == AppendTo(ls, e)
<1>0. /\ ls \in Seq(Slab) /\ c \in Seq(Elem) /\ n \in Nat /\ n > 0 /\ d \in Seq(Elem)
      /\ SELEM_MAX \in Nat
  BY HoldsFacts, AppendProperties
<1>1. n \in 1 .. Len(ls) /\ n = Len(ls)
  BY <1>0
<1>2. s \in Slab /\ s.s_elems \in 0 .. SELEM_MAX /\ s.s_elems > 0
  <2>1. s.s_elems > 0
    BY <1>1 DEF Chain
  <2>2. s \in Slab
    BY <1>0, <1>1, SlabAt
  <2>3. s.s_elems \in 0 .. SELEM_MAX
    BY <2>2, SlabParts
  <2> QED
    BY <2>1, <2>2, <2>3
<1>3. PICK o : Lays(ls, c, o)
  BY DEF Holds
<1>4. x => \A a \in 1 .. n : Capped(ls[a], TRUE)
  BY HoldsFacts
<1>5. CASE s.s_elems < SELEM_MAX
  <2> DEFINE t == Stretched(s, e)
  <2>1. /\ t \in Slab /\ t.s_elems = s.s_elems + 1
        /\ \A i \in 0 .. s.s_elems - 1 : t.s_arr[i] = s.s_arr[i]
        /\ t.s_arr[s.s_elems] = e
        /\ Capped(s, TRUE) => Capped(t, TRUE)
    BY <1>2, <1>5, StretchedSlab
  <2>2. r = Put(ls, n, t)
    BY <1>5 DEF AppendTo, Put, Stretched
  <2> HIDE DEF t
  <2>3. Lays(Put(ls, n, t), d, [j \in 0 .. n |-> IF j = n THEN Len(c) + 1 ELSE o[j]])
    <3> HIDE DEF n, s
    <3>1. n \in 1 .. Len(ls) /\ n = Len(ls)
      BY <1>1
    <3>2. /\ t.s_elems = ls[n].s_elems + 1
          /\ \A i \in 0 .. ls[n].s_elems - 1 : t.s_arr[i] = ls[n].s_arr[i]
          /\ t.s_arr[ls[n].s_elems] = e
      BY <2>1 DEF s
    <3> QED
      BY <1>0, <1>3, <2>1, <3>1, <3>2, GrownLaid
  <2>4. /\ Put(ls, n, t) \in Seq(Slab) /\ Len(Put(ls, n, t)) = n
        /\ \A j \in 1 .. n : Put(ls, n, t)[j] = IF j = n THEN t ELSE ls[j]
    BY ZenonT(60), <1>0, <1>1, <2>1, PutProperties
  <2>5. Chain(r)
    <3>1. t.s_elems >= ls[n].s_elems
      BY <1>2, <2>1
    <3> QED
      BY <1>1, <2>1, <2>2, <3>1, GrownSlab
  <2>6. x => \A a \in 1 .. n : Capped(r[a], TRUE)
    BY <1>1, <1>4, <2>1, <2>2, <2>4
  <2> HIDE DEF n, s, r, d
  <2>7. Holds(r, d, x)
    BY <1>0, <2>2, <2>3, <2>4, <2>6 DEF Holds
  <2> QED
    BY <1>0, <2>2, <2>4, <2>5, <2>7 DEF r, d
<1>6. CASE s.s_elems = SELEM_MAX
  <2> DEFINE t == add_elem(mk_slab, e, 0)
  <2>1. t \in Slab /\ t.s_elems = 1
    BY OneElemSlab
  <2>2. t.s_arr[0] = e /\ t.s_min = e /\ t.s_max = e
    <3>1. 0 \in Index /\ mk_slab.s_elems = 0 /\ 0 # SELEM_MAX
      BY mk_slabIsSlab, SlabSizeAssumption DEF Index
    <3> QED
      BY <3>1 DEF add_elem
  <2>3. r = Append(ls, t)
    BY <1>2, <1>6 DEF AppendTo
  <2> HIDE DEF t
  <2>4. /\ r \in Seq(Slab) /\ Len(r) = n + 1
        /\ (\A j \in 1 .. n : r[j] = ls[j]) /\ r[n + 1] = t
    BY <1>0, <2>1, <2>3, AppendProperties
  <2>5. \E v : Lays(r, d, v)
    BY <1>0, <1>3, <2>1, <2>2, <2>3, LinkedLaid
  <2>6. Capped(t, TRUE)
    BY <2>1, <2>2 DEF Capped, StandsFor
  <2>7. \A a \in 1 .. n : ls[a].s_elems \in Nat /\ ls[a].s_elems > 0
    BY <1>0, SlabAt DEF Chain
  <2>8. \A a \in 1 .. n - 1 : ls[a].s_elems + ls[a + 1].s_elems > SELEM_MAX
    BY DEF Chain, Packed
  <2>9. ls[n].s_elems = SELEM_MAX
    BY <1>6
  <2> HIDE DEF n, s, r, d
  <2>10. \A a \in 1 .. n + 1 : a = n + 1 \/ a \in 1 .. n
    BY <1>0
  <2>11. x => \A a \in 1 .. n + 1 : Capped(r[a], TRUE)
    BY <1>4, <2>4, <2>6, <2>10
  <2>12. Holds(r, d, x)
    BY <1>0, <2>4, <2>5, <2>11 DEF Holds
  <2>13. \A a \in 1 .. n + 1 : r[a].s_elems > 0
    BY <2>1, <2>4, <2>7, <2>10
  <2>14. \A a \in 1 .. n : r[a].s_elems + r[a + 1].s_elems > SELEM_MAX
    <3> SUFFICES ASSUME NEW a \in 1 .. n PROVE r[a].s_elems + r[a + 1].s_elems > SELEM_MAX
      OBVIOUS
    <3>1. CASE a = n
      BY <1>0, <2>1, <2>4, <2>9, <3>1
    <3>2. CASE a # n
      <4>1. a \in 1 .. n - 1 /\ a + 1 \in 1 .. n
        BY <1>0, <3>2
      <4> QED
        BY <2>4, <2>8, <4>1
    <3> QED
      BY <3>1, <3>2
  <2>15. Packed(r)
    <3>1. (n + 1) - 1 = n
      BY <1>0
    <3> QED
      BY <2>4, <2>14, <3>1 DEF Packed
  <2>16. Chain(r) /\ Len(r) > 0
    BY <1>0, <2>4, <2>13, <2>15 DEF Chain
  <2> QED
    BY <2>12, <2>16 DEF r, d
<1>7. s.s_elems < SELEM_MAX \/ s.s_elems = SELEM_MAX
  <2> HIDE DEF s
  <2> QED
    BY <1>0, <1>2
<1> QED
  BY <1>5, <1>6, <1>7

-----------------------------------------------------------------------------
(* Removing an element *)

\* A sequence that lost its element `p', the later ones moved down.
Shorter(c, d, p) ==
    /\ d \in Seq(Elem) /\ Len(d) = Len(c) - 1
    /\ \A j \in 1 .. Len(c) - 1 : d[j] = IF j < p THEN c[j] ELSE c[j + 1]

\* A stretch of the sequence before, after and around the element.
LEMMA ShorterBefore ==
    ASSUME NEW c \in Seq(Elem), NEW d, NEW p \in 1 .. Len(c), Shorter(c, d, p),
           NEW s \in Slab, NEW w \in Nat, Continues(c, w, s), w + s.s_elems < p
    PROVE  Continues(d, w, s)
<1> DEFINE l == s.s_elems
           m == Len(c)
<1>1. l \in Nat /\ m \in Nat
  BY SlabFacts, LenProperties
<1>2. \A j \in 1 .. m - 1 : d[j] = IF j < p THEN c[j] ELSE c[j + 1]
  BY DEF Shorter
<1>3. \A i \in 0 .. l - 1 : c[(w + i) + 1] = s.s_arr[i]
  BY DEF Continues
<1> HIDE DEF l, m
<1>4. \A i \in 0 .. l - 1 : (w + i) + 1 \in 1 .. m - 1 /\ (w + i) + 1 < p
  <2>1. w + l < p /\ p <= m /\ p \in Int
    BY <1>1 DEF l, m
  <2> QED
    BY <1>1, <2>1
<1>5. \A i \in 0 .. l - 1 : d[(w + i) + 1] = s.s_arr[i]
  BY <1>2, <1>3, <1>4
<1> QED
  BY <1>5 DEF Continues, l

LEMMA ShorterAfter ==
    ASSUME NEW c \in Seq(Elem), NEW d, NEW p \in 1 .. Len(c), Shorter(c, d, p),
           NEW s \in Slab, NEW w \in Nat, Continues(c, w, s),
           p <= w, w + s.s_elems <= Len(c)
    PROVE  Continues(d, w - 1, s)
<1> DEFINE l == s.s_elems
           m == Len(c)
           y == w - 1
<1>1. l \in Nat /\ m \in Nat /\ y \in Nat /\ w = y + 1 /\ p \in Nat
  BY SlabFacts, LenProperties
<1>2. \A j \in 1 .. m - 1 : d[j] = IF j < p THEN c[j] ELSE c[j + 1]
  BY DEF Shorter
<1>3. \A i \in 0 .. l - 1 : c[(w + i) + 1] = s.s_arr[i]
  BY DEF Continues
<1>4. p <= w /\ w + l <= m
  OBVIOUS
<1> HIDE DEF l, m, y
<1>5. \A i \in 0 .. l - 1 : /\ (y + i) + 1 \in 1 .. m - 1 /\ ~((y + i) + 1 < p)
                            /\ ((y + i) + 1) + 1 = (w + i) + 1
  BY <1>1, <1>4
<1>6. \A i \in 0 .. l - 1 : d[(y + i) + 1] = s.s_arr[i]
  BY <1>2, <1>3, <1>5
<1> QED
  BY <1>6 DEF Continues, l, y

LEMMA ShorterAround ==
    ASSUME NEW c \in Seq(Elem), NEW d, NEW p \in 1 .. Len(c), Shorter(c, d, p),
           NEW s \in Slab, NEW w \in Nat, Continues(c, w, s), w + s.s_elems <= Len(c),
           NEW i \in 0 .. s.s_elems - 1, p = (w + i) + 1,
           NEW t, LostAt(s, t, i)
    PROVE  Continues(d, w, t)
<1> DEFINE l == s.s_elems
           m == Len(c)
<1>1. l \in Nat /\ m \in Nat
  BY SlabFacts, LenProperties
<1>2. \A j \in 1 .. m - 1 : d[j] = IF j < p THEN c[j] ELSE c[j + 1]
  BY DEF Shorter
<1>3. \A j \in 0 .. l - 1 : c[(w + j) + 1] = s.s_arr[j]
  BY DEF Continues
<1>4. \A j \in 0 .. l - 2 : t.s_arr[j] = IF j < i THEN s.s_arr[j] ELSE s.s_arr[j + 1]
  BY DEF LostAt
<1>5. t.s_elems = l - 1
  BY DEF LostAt
<1>6. w + l <= m /\ i \in 0 .. l - 1 /\ p = (w + i) + 1 /\ p \in 1 .. m
  OBVIOUS
<1> HIDE DEF l, m
<1>7. ASSUME NEW j \in 0 .. l - 2 PROVE d[(w + j) + 1] = t.s_arr[j]
  <2>1. (w + j) + 1 \in 1 .. m - 1 /\ j \in 0 .. l - 1 /\ j + 1 \in 0 .. l - 1
    BY <1>1, <1>6
  <2>2. CASE j < i
    <3>1. (w + j) + 1 < p
      BY <1>1, <1>6, <2>2
    <3> QED
      BY <1>2, <1>3, <1>4, <2>1, <2>2, <3>1
  <2>3. CASE ~(j < i)
    <3>1. ~((w + j) + 1 < p) /\ ((w + j) + 1) + 1 = (w + (j + 1)) + 1
      BY <1>1, <1>6, <2>3
    <3>2. d[(w + j) + 1] = c[(w + (j + 1)) + 1]
      BY <1>2, <2>1, <3>1
    <3> QED
      BY <1>3, <1>4, <2>1, <2>3, <3>2
  <2> QED
    BY <2>2, <2>3
<1>8. \A j \in 0 .. t.s_elems - 1 : j \in 0 .. l - 2
  BY <1>1, <1>5
<1> QED
  BY <1>7, <1>8 DEF Continues

\* A slab loses the element that the sequence loses.
LEMMA ShrunkLaid ==
    ASSUME NEW ls \in Seq(Slab), NEW c \in Seq(Elem), NEW o, Lays(ls, c, o),
           NEW a \in 1 .. Len(ls), NEW i \in 0 .. ls[a].s_elems - 1,
           NEW t \in Slab, LostAt(ls[a], t, i),
           NEW p, p = (o[a - 1] + i) + 1, NEW d, Shorter(c, d, p)
    PROVE  Lays(Put(ls, a, t), d,
                [j \in 0 .. Len(ls) |-> IF j < a THEN o[j] ELSE o[j] - 1])
<1> DEFINE n == Len(ls)
           m == Len(c)
           r == Put(ls, a, t)
           v == [j \in 0 .. n |-> IF j < a THEN o[j] ELSE o[j] - 1]
           k == ls[a].s_elems
<1>0. /\ n \in Nat /\ m \in Nat /\ o[0] = 0 /\ o[n] = m
      /\ \A j \in 0 .. n : o[j] \in Nat /\ o[j] <= m
      /\ \A j \in 1 .. n : /\ ls[j] \in Slab /\ ls[j].s_elems \in Nat
                           /\ o[j] = o[j - 1] + ls[j].s_elems
  <2>1. n \in Nat /\ m \in Nat /\ o[0] = 0 /\ o[n] = m
    BY LaysFacts
  <2>2. \A j \in 0 .. n : o[j] \in Nat /\ o[j] <= m
    BY LaysFacts
  <2>3. \A j \in 1 .. n : /\ ls[j] \in Slab /\ ls[j].s_elems \in Nat
                          /\ o[j] = o[j - 1] + ls[j].s_elems
    BY LaysFacts
  <2> QED
    BY <2>1, <2>2, <2>3
<1>1. \A j \in 1 .. n : Continues(c, o[j - 1], ls[j])
  BY LaysFacts
<1>2. Len(r) = n /\ \A j \in 1 .. n : r[j] = IF j = a THEN t ELSE ls[j]
  BY ZenonT(60), PutProperties
<1>3. \A j \in 0 .. n : v[j] = IF j < a THEN o[j] ELSE o[j] - 1
  OBVIOUS
<1>4. a \in 1 .. n /\ a - 1 \in 0 .. n /\ a \in 0 .. n /\ k \in Nat /\ i \in 0 .. k - 1
      /\ p = (o[a - 1] + i) + 1 /\ o[a] = o[a - 1] + k /\ LostAt(ls[a], t, i)
  BY <1>0
<1>5. \A j, b \in 0 .. n : j <= b => o[j] <= o[b]
  BY OffsetsRise DEF Lays
<1>6. Len(d) = m - 1 /\ t.s_elems = k - 1
  BY DEF Shorter, LostAt
<1>7. Shorter(c, d, p)
  OBVIOUS
<1> HIDE DEF n, m, r, k
<1>nm. n \in Nat /\ m \in Nat
  BY <1>0
<1>8. p \in 1 .. m /\ p <= o[a] /\ o[a - 1] < p
  <2> DEFINE x == o[a - 1]
             y == o[a]
  <2>1. y <= m /\ y \in Nat /\ x \in Nat /\ y = x + k /\ p = (x + i) + 1
    BY <1>0, <1>4
  <2>2. k \in Nat /\ i \in 0 .. k - 1
    BY <1>4
  <2> HIDE DEF x, y
  <2>3. p \in 1 .. m /\ p <= y /\ x < p
    BY <1>nm, <2>1, <2>2
  <2> QED
    BY <2>3 DEF x, y
<1>9. v \in [0 .. n -> Nat]
  <2>1. ASSUME NEW j \in 0 .. n, ~(j < a) PROVE o[j] - 1 \in Nat
    <3>1. o[a] <= o[j]
      BY <1>0, <1>4, <1>5, <2>1
    <3>2. o[a] \in Nat /\ o[j] \in Nat
      BY <1>0, <1>4
    <3>3. p \in Nat /\ p >= 1
      BY <1>nm, <1>8
    <3> QED
      BY <1>8, <3>1, <3>2, <3>3
  <2> QED
    BY <1>0, <2>1
<1> HIDE DEF v
<1>10. ASSUME NEW j \in 1 .. n
       PROVE  v[j] = v[j - 1] + r[j].s_elems /\ Continues(d, v[j - 1], r[j])
  <2>0. j \in 0 .. n /\ j - 1 \in 0 .. n /\ j \in Int /\ a \in Int
    BY <1>0, <1>4
  <2>1. /\ o[j] \in Nat /\ o[j - 1] \in Nat /\ ls[j] \in Slab /\ ls[j].s_elems \in Nat
        /\ o[j] = o[j - 1] + ls[j].s_elems /\ o[j] <= m
        /\ Continues(c, o[j - 1], ls[j])
    BY <1>0, <1>1, <2>0
  <2>2. CASE j < a
    <3>1. r[j] = ls[j] /\ v[j] = o[j] /\ v[j - 1] = o[j - 1]
      BY <1>2, <1>3, <2>0, <2>2
    <3>2. o[j] <= o[a - 1] /\ o[a - 1] \in Nat
      BY <1>0, <1>4, <1>5, <2>0, <2>2
    <3>3. o[j - 1] + ls[j].s_elems < p /\ p \in Int
      <4> DEFINE x == o[j]
                 y == o[a - 1]
      <4>1. x \in Nat /\ x <= y /\ y \in Nat /\ y < p /\ p \in Int
        BY <1>8, <2>1, <3>2
      <4> HIDE DEF x, y
      <4>2. x < p
        BY <4>1
      <4> QED
        BY <2>1, <4>1, <4>2 DEF x
    <3>4. Continues(d, o[j - 1], ls[j])
      BY <1>7, <1>8, <2>1, <3>3, ShorterBefore DEF m
    <3> QED
      BY <2>1, <3>1, <3>4
  <2>3. CASE j = a
    <3>1. r[j] = t /\ v[j] = o[j] - 1 /\ v[j - 1] = o[j - 1]
      BY <1>2, <1>3, <2>0, <2>3
    <3>2. ls[j].s_elems = k
      BY <2>3 DEF k
    <3>3. v[j] = v[j - 1] + r[j].s_elems
      BY <1>4, <1>6, <2>1, <3>1, <3>2
    <3>4. i \in 0 .. ls[j].s_elems - 1 /\ p = (o[j - 1] + i) + 1 /\ LostAt(ls[j], t, i)
      BY <1>4, <2>3, <3>2
    <3>5. o[j - 1] + ls[j].s_elems <= Len(c)
      BY <2>1 DEF m
    <3>6. p \in 1 .. Len(c)
      BY <1>8 DEF m
    <3>7. /\ o[j - 1] \in Nat /\ ls[j] \in Slab /\ Continues(c, o[j - 1], ls[j])
          /\ c \in Seq(Elem) /\ Shorter(c, d, p)
      BY <1>7, <2>1
    <3>8. Continues(d, o[j - 1], t)
      <4> DEFINE w == o[j - 1]
                 s == ls[j]
      <4>1. /\ w \in Nat /\ s \in Slab /\ Continues(c, w, s) /\ w + s.s_elems <= Len(c)
            /\ i \in 0 .. s.s_elems - 1 /\ p = (w + i) + 1 /\ LostAt(s, t, i)
        BY <3>4, <3>5, <3>7
      <4> HIDE DEF w, s
      <4>2. Continues(d, w, t)
        BY <3>6, <3>7, <4>1, ShorterAround
      <4> QED
        BY <4>2 DEF w
    <3> QED
      BY <3>1, <3>3, <3>8
  <2>4. CASE j > a
    <3>1. r[j] = ls[j] /\ v[j] = o[j] - 1 /\ v[j - 1] = o[j - 1] - 1
      BY <1>2, <1>3, <2>0, <2>4
    <3>0. a <= j - 1
      BY <2>0, <2>4
    <3>2. o[a] <= o[j - 1] /\ o[a] \in Nat
      BY <1>0, <1>4, <1>5, <2>0, <3>0
    <3>3. p <= o[j - 1] /\ p \in Int
      <4> DEFINE x == o[a]
                 y == o[j - 1]
      <4>1. x \in Nat /\ x <= y /\ y \in Nat /\ p <= x /\ p \in Int
        BY <1>8, <2>1, <3>2
      <4> HIDE DEF x, y
      <4>2. p <= y
        BY <4>1
      <4> QED
        BY <4>1, <4>2 DEF y
    <3>4. o[j - 1] + ls[j].s_elems <= Len(c)
      BY <2>1 DEF m
    <3>5. Continues(d, o[j - 1] - 1, ls[j])
      BY <1>7, <1>8, <2>1, <3>3, <3>4, ShorterAfter DEF m
    <3>6. o[j] - 1 = (o[j - 1] - 1) + ls[j].s_elems
      <4> DEFINE x == o[j - 1]
                 y == o[j]
                 l == ls[j].s_elems
      <4>1. x \in Nat /\ y \in Nat /\ l \in Nat /\ y = x + l
        BY <2>1
      <4> HIDE DEF x, y, l
      <4>2. y - 1 = (x - 1) + l
        BY <4>1
      <4> QED
        BY <4>2 DEF x, y, l
    <3>7. v[j] = v[j - 1] + r[j].s_elems
      BY <3>1, <3>6
    <3>8. Continues(d, v[j - 1], r[j])
      BY <3>1, <3>5
    <3> QED
      BY <3>7, <3>8
  <2> QED
    BY <2>0, <2>2, <2>3, <2>4
<1>11. v[0] = 0 /\ v[n] = Len(d)
  <2>1. 0 \in 0 .. n /\ n \in 0 .. n /\ 0 < a /\ ~(n < a)
    BY <1>0, <1>4
  <2> QED
    BY <1>0, <1>3, <1>6, <2>1
<1>12. Lays(r, d, v)
  BY <1>2, <1>9, <1>10, <1>11 DEF Lays, Offsets
<1> QED
  BY <1>12 DEF r, v, n

\* What RemSlab takes out of the slabs is the element at the position.
LEMMA RemovedHolds ==
    ASSUME NEW ls, NEW c, NEW x, Holds(ls, c, x), Chain(ls), NEW p \in 0 .. Len(c) - 1,
           NEW a, NEW i, slab_get_elem_pos(ls, p) = [slab |-> a, off_pos |-> i]
    PROVE  /\ a \in 1 .. Len(ls) /\ i \in 0 .. ls[a].s_elems - 1
           /\ ls[a].s_arr[i] = c[p + 1]
           /\ Holds(Put(ls, a, remove_elem(i, ls[a])), RemoveAt(c, p + 1), x)
           /\ Dented(Put(ls, a, remove_elem(i, ls[a])), a)
<1> DEFINE s == ls[a]
           t == remove_elem(i, s)
           r == Put(ls, a, t)
           d == RemoveAt(c, p + 1)
           n == Len(ls)
<1>0. ls \in Seq(Slab) /\ c \in Seq(Elem) /\ n \in Nat /\ Len(c) \in Nat
  BY HoldsFacts
<1>1. PICK o : Lays(ls, c, o)
  BY DEF Holds
<1>2. /\ a \in 1 .. n /\ i \in 0 .. s.s_elems - 1
      /\ p = o[a - 1] + i /\ s.s_arr[i] = c[p + 1]
  <2> DEFINE at == slab_get_elem_pos(ls, p)
  <2>1. /\ at.slab \in 1 .. Len(ls)
        /\ at.off_pos \in 0 .. ls[at.slab].s_elems - 1
        /\ p = o[at.slab - 1] + at.off_pos
        /\ ls[at.slab].s_arr[at.off_pos] = c[p + 1]
    BY <1>0, <1>1, slab_get_elem_posFinds
  <2>2. at.slab = a /\ at.off_pos = i
    OBVIOUS
  <2> HIDE DEF at
  <2> QED
    BY <2>1, <2>2
<1>3. s \in Slab /\ s.s_elems \in Nat
  BY <1>0, <1>2, SlabAt
<1>4. /\ t \in Slab /\ LostAt(s, t, i)
      /\ Capped(s, TRUE) /\ s.s_elems > 1 =>
             /\ StandsFor(t.s_min, t.s_arr[0], TRUE)
             /\ StandsFor(t.s_max, t.s_arr[s.s_elems - 2], TRUE)
  <2> HIDE DEF s
  <2> QED
    BY <1>2, <1>3, remove_elemLost
<1> HIDE DEF t
<1>5. t.s_elems = s.s_elems - 1
  BY <1>4 DEF LostAt
<1>6. Capped(s, TRUE) => Capped(t, TRUE)
  <2>1. t.s_elems > 0 => s.s_elems > 1
    BY <1>3, <1>5
  <2>2. t.s_elems - 1 = s.s_elems - 2
    BY <1>3, <1>5
  <2> QED
    BY <1>4, <2>1, <2>2 DEF Capped
<1>7. Dented(r, a)
  BY <1>2, <1>4, <1>5, DentedChain
<1>8. r \in Seq(Slab) /\ Len(r) = n /\ \A j \in 1 .. n : r[j] = IF j = a THEN t ELSE ls[j]
  BY <1>0, <1>2, <1>4, PutProperties
<1>9. p + 1 \in 1 .. Len(c)
  BY <1>0
<1>10. Shorter(c, d, p + 1)
  BY <1>0, <1>9, RemoveAtProperties DEF Shorter
<1>11. \E v : Lays(r, d, v)
  <2>1. o[a - 1] \in Nat
    BY <1>0, <1>1, <1>2, LaysFacts
  <2>2. p + 1 = (o[a - 1] + i) + 1
    BY <1>2
  <2> HIDE DEF d, n
  <2>3. Lays(Put(ls, a, t), d, [j \in 0 .. Len(ls) |-> IF j < a THEN o[j] ELSE o[j] - 1])
    BY <1>0, <1>1, <1>2, <1>4, <1>10, <2>2, ShrunkLaid DEF n
  <2> QED
    BY <2>3
<1>12. x => \A j \in 1 .. Len(r) : Capped(r[j], TRUE)
  <2>1. x => \A j \in 1 .. n : Capped(ls[j], TRUE)
    BY HoldsFacts
  <2> HIDE DEF r, n
  <2> QED
    BY <1>2, <1>6, <1>8, <2>1
<1>13. d \in Seq(Elem)
  BY <1>10 DEF Shorter
<1> HIDE DEF d, r
<1>14. Holds(r, d, x)
  BY <1>8, <1>11, <1>12, <1>13 DEF Holds
<1> QED
  BY <1>2, <1>7, <1>14 DEF r, d, t

-----------------------------------------------------------------------------
(* Turning a chain round *)

LEMMA ReverseProperties ==
    ASSUME NEW T, NEW q \in Seq(T)
    PROVE  /\ Reverse(q) \in Seq(T) /\ Len(Reverse(q)) = Len(q)
           /\ \A j \in 1 .. Len(q) : Reverse(q)[j] = q[(Len(q) - j) + 1]
<1> DEFINE n == Len(q)
<1>1. n \in Nat /\ \A j \in 1 .. n : q[j] \in T
  BY LenProperties, ElementOfSeq
<1> HIDE DEF n
<1>2. \A j \in 1 .. n : (n - j) + 1 \in 1 .. n
  BY <1>1
<1>3. Reverse(q) = [j \in 1 .. n |-> q[(n - j) + 1]]
  BY DEF Reverse, n
<1>4. Reverse(q) \in [1 .. n -> T]
  BY <1>1, <1>2, <1>3
<1>5. Reverse(q) \in Seq(T) /\ Len(Reverse(q)) = n
  BY <1>1, <1>4, SeqDef, LenProperties
<1> QED
  BY <1>3, <1>5 DEF n

LEMMA ReverseSlabIsSlab ==
    ASSUME NEW s \in Slab
    PROVE  /\ ReverseSlab(s) \in Slab /\ ReverseSlab(s).s_elems = s.s_elems
           /\ \A j \in 0 .. s.s_elems - 1 :
                  ReverseSlab(s).s_arr[j] = s.s_arr[(s.s_elems - 1) - j]
<1> DEFINE t == ReverseSlab(s)
           k == s.s_elems
           arr == [j \in Index |-> IF j < k THEN s.s_arr[k - 1 - j] ELSE s.s_arr[j]]
<1>0. /\ SELEM_MAX \in Nat /\ k \in 0 .. SELEM_MAX /\ s.s_arr \in [Index -> Slot]
      /\ \A j \in 0 .. k - 1 : s.s_arr[j] \in Elem
      /\ \A j \in Index : s.s_arr[j] \in Slot
  BY SlabParts, SlabSizeAssumption
<1>1. s \in [s_min : Slot, s_max : Slot, s_elems : 0 .. SELEM_MAX, s_arr : [Index -> Slot]]
  BY DEF Slab
<1>2. t = [s EXCEPT !.s_arr = arr]
  BY DEF ReverseSlab
<1> HIDE DEF t, k
<1>3. \A j \in 0 .. k - 1 : /\ k - 1 - j \in 0 .. k - 1 /\ k - 1 - j = (k - 1) - j
                            /\ j \in Index /\ j < k
  BY <1>0 DEF Index
<1>4. \A j \in Index : j < k => j \in 0 .. k - 1
  BY <1>0 DEF Index
<1>5. \A j \in Index : (IF j < k THEN s.s_arr[k - 1 - j] ELSE s.s_arr[j]) \in Slot
  BY <1>0, <1>3, <1>4, ElemIsSlot
<1>6. arr \in [Index -> Slot] /\ \A j \in 0 .. k - 1 : arr[j] = s.s_arr[(k - 1) - j]
  <2>1. arr \in [Index -> Slot]
    BY <1>5
  <2>2. \A j \in 0 .. k - 1 : arr[j] = s.s_arr[(k - 1) - j]
    BY <1>3
  <2> QED
    BY <2>1, <2>2
<1> HIDE DEF arr
<1>7. /\ t \in [s_min : Slot, s_max : Slot, s_elems : 0 .. SELEM_MAX,
                s_arr : [Index -> Slot]]
      /\ t.s_arr = arr /\ t.s_elems = k
  BY <1>1, <1>2, <1>6 DEF k
<1>8. \A j \in 0 .. k - 1 : arr[j] \in Elem
  BY <1>0, <1>3, <1>6
<1>9. t \in Slab
  BY <1>7, <1>8, RawSlab
<1> QED
  BY <1>6, <1>7, <1>9 DEF t, k

\* The chain after slablist_reverse.
Turned(ls) == Reverse([a \in DOMAIN ls |-> ReverseSlab(ls[a])])

LEMMA TurnedSlabs ==
    ASSUME NEW ls \in Seq(Slab)
    PROVE  /\ Turned(ls) \in Seq(Slab) /\ Len(Turned(ls)) = Len(ls)
           /\ \A a \in 1 .. Len(ls) : Turned(ls)[a] = ReverseSlab(ls[(Len(ls) - a) + 1])
<1> DEFINE n == Len(ls)
           q == [a \in DOMAIN ls |-> ReverseSlab(ls[a])]
<1>0. n \in Nat /\ DOMAIN ls = 1 .. n /\ \A a \in 1 .. n : ls[a] \in Slab
  BY SlabAt
<1>1. \A a \in 1 .. n : ReverseSlab(ls[a]) \in Slab
  BY <1>0, ReverseSlabIsSlab
<1>2. q \in [1 .. n -> Slab] /\ \A a \in 1 .. n : q[a] = ReverseSlab(ls[a])
  BY <1>0, <1>1
<1> HIDE DEF n, q
<1>3. q \in Seq(Slab) /\ Len(q) = n
  BY <1>0, <1>2, SeqDef, LenProperties
<1>4. /\ Reverse(q) \in Seq(Slab) /\ Len(Reverse(q)) = n
      /\ \A j \in 1 .. n : Reverse(q)[j] = q[(n - j) + 1]
  BY <1>3, ReverseProperties
<1>5. \A j \in 1 .. n : (n - j) + 1 \in 1 .. n
  BY <1>0
<1>6. Turned(ls) = Reverse(q)
  BY DEF Turned, q
<1> QED
  BY <1>2, <1>4, <1>5, <1>6 DEF n

LEMMA TurnedNothing == Turned(<<>>) = <<>>
<1>1. <<>> \in Seq(Slab) /\ Len(<<>>) = 0
  BY EmptySeq
<1>2. Turned(<<>>) \in Seq(Slab) /\ Len(Turned(<<>>)) = 0
  BY <1>1, TurnedSlabs
<1> QED
  BY <1>2, EmptySeq

LEMMA TurnedChain ==
    ASSUME NEW ls, Chain(ls)
    PROVE  Chain(Turned(ls))
<1> DEFINE n == Len(ls)
           r == Turned(ls)
<1>0. /\ ls \in Seq(Slab) /\ n \in Nat /\ SELEM_MAX \in Nat
      /\ \A a \in 1 .. n : /\ ls[a] \in Slab /\ ls[a].s_elems \in Nat /\ ls[a].s_elems > 0
  BY SlabAt DEF Chain
<1>1. \A a \in 1 .. n - 1 : ls[a].s_elems + ls[a + 1].s_elems > SELEM_MAX
  BY DEF Chain, Packed
<1>2. /\ r \in Seq(Slab) /\ Len(r) = n
      /\ \A a \in 1 .. n : r[a] = ReverseSlab(ls[(n - a) + 1])
  BY <1>0, TurnedSlabs
<1> HIDE DEF n, r
<1>3. \A a \in 1 .. n : (n - a) + 1 \in 1 .. n
  BY <1>0
<1>4. \A a \in 1 .. n : r[a].s_elems = ls[(n - a) + 1].s_elems
  BY <1>0, <1>2, <1>3, ReverseSlabIsSlab
<1>5. \A a \in 1 .. n : r[a].s_elems > 0
  BY <1>0, <1>3, <1>4
<1>6. ASSUME NEW a \in 1 .. n - 1 PROVE r[a].s_elems + r[a + 1].s_elems > SELEM_MAX
  <2>1. /\ a \in 1 .. n /\ a + 1 \in 1 .. n /\ n - a \in 1 .. n - 1 /\ n - a \in 1 .. n
        /\ (n - (a + 1)) + 1 = n - a
    BY <1>0
  <2>2. ls[n - a].s_elems + ls[(n - a) + 1].s_elems > SELEM_MAX
    BY <1>1, <2>1
  <2>3. r[a].s_elems = ls[(n - a) + 1].s_elems /\ r[a + 1].s_elems = ls[n - a].s_elems
    BY <1>4, <2>1
  <2>4. ls[n - a].s_elems \in Nat /\ ls[(n - a) + 1].s_elems \in Nat
    BY <1>0, <1>3, <2>1
  <2> QED
    BY <2>2, <2>3, <2>4
<1>7. Chain(r)
  BY <1>2, <1>5, <1>6 DEF Chain, Packed
<1> QED
  BY <1>7 DEF r

LEMMA TurnedLaid ==
    ASSUME NEW ls \in Seq(Slab), NEW c \in Seq(Elem), NEW o, Lays(ls, c, o)
    PROVE  Lays(Turned(ls), Reverse(c), [a \in 0 .. Len(ls) |-> Len(c) - o[Len(ls) - a]])
<1> DEFINE n == Len(ls)
           m == Len(c)
           r == Turned(ls)
           d == Reverse(c)
           v == [a \in 0 .. n |-> m - o[n - a]]
<1>0. /\ n \in Nat /\ m \in Nat /\ o[0] = 0 /\ o[n] = m
      /\ \A j \in 0 .. n : o[j] \in Nat /\ o[j] <= m
      /\ \A j \in 1 .. n : /\ ls[j] \in Slab /\ ls[j].s_elems \in Nat
                           /\ o[j] = o[j - 1] + ls[j].s_elems
  <2>1. n \in Nat /\ m \in Nat /\ o[0] = 0 /\ o[n] = m
    BY LaysFacts
  <2>2. \A j \in 0 .. n : o[j] \in Nat /\ o[j] <= m
    BY LaysFacts
  <2>3. \A j \in 1 .. n : /\ ls[j] \in Slab /\ ls[j].s_elems \in Nat
                          /\ o[j] = o[j - 1] + ls[j].s_elems
    BY LaysFacts
  <2> QED
    BY <2>1, <2>2, <2>3
<1>1. \A j \in 1 .. n : Continues(c, o[j - 1], ls[j])
  BY LaysFacts
<1>2. Len(r) = n /\ \A a \in 1 .. n : r[a] = ReverseSlab(ls[(n - a) + 1])
  BY TurnedSlabs
<1>3. Len(d) = m /\ \A j \in 1 .. m : d[j] = c[(m - j) + 1]
  BY ReverseProperties
<1>4. \A a \in 0 .. n : v[a] = m - o[n - a]
  OBVIOUS
<1> HIDE DEF n, m, r, d
<1>nm. n \in Nat /\ m \in Nat
  BY <1>0
<1>5. v \in [0 .. n -> Nat]
  <2>1. ASSUME NEW a \in 0 .. n PROVE m - o[n - a] \in Nat
    <3>1. n - a \in 0 .. n
      BY <1>nm
    <3>2. o[n - a] \in Nat /\ o[n - a] <= m
      BY <1>0, <3>1
    <3> QED
      BY <1>nm, <3>2
  <2> QED
    BY <2>1
<1> HIDE DEF v
<1>6. ASSUME NEW a \in 1 .. n
      PROVE  v[a] = v[a - 1] + r[a].s_elems /\ Continues(d, v[a - 1], r[a])
  <2> DEFINE b == (n - a) + 1
             s == ls[b]
             l == s.s_elems
             u == o[b - 1]
             w == v[a - 1]
  <2>1. /\ b \in 1 .. n /\ b \in 0 .. n /\ b - 1 \in 0 .. n /\ n - a = b - 1 /\ n - (a - 1) = b
        /\ a \in 0 .. n /\ a - 1 \in 0 .. n
    BY <1>nm
  <2> HIDE DEF b
  <2>2. /\ s \in Slab /\ l \in Nat /\ u \in Nat /\ o[b] = u + l /\ o[b] <= m
        /\ Continues(c, u, s)
    BY <1>0, <1>1, <2>1
  <2>3. v[a] = m - u /\ w = m - o[b]
    BY <1>4, <2>1
  <2>4. /\ r[a].s_elems = l
        /\ \A i \in 0 .. l - 1 : r[a].s_arr[i] = s.s_arr[(l - 1) - i]
    <3>1. r[a] = ReverseSlab(s)
      BY <1>2 DEF b
    <3> QED
      BY <2>2, <3>1, ReverseSlabIsSlab
  <2>5. \A i \in 0 .. l - 1 : c[(u + i) + 1] = s.s_arr[i]
    BY <2>2 DEF Continues
  <2> HIDE DEF l, u, w, s
  <2>6. v[a] = w + l /\ w + l = m - u /\ w \in Int
    BY <1>nm, <2>2, <2>3
  <2>7. \A i \in 0 .. l - 1 : /\ (w + i) + 1 \in 1 .. m
                              /\ (l - 1) - i \in 0 .. l - 1
                              /\ (m - ((w + i) + 1)) + 1 = (u + ((l - 1) - i)) + 1
    BY <1>nm, <2>2, <2>3, <2>6
  <2>8. \A i \in 0 .. l - 1 : d[(w + i) + 1] = r[a].s_arr[i]
    <3> SUFFICES ASSUME NEW i \in 0 .. l - 1 PROVE d[(w + i) + 1] = r[a].s_arr[i]
      OBVIOUS
    <3> DEFINE k == (l - 1) - i
    <3>1. d[(w + i) + 1] = c[(m - ((w + i) + 1)) + 1]
      BY <1>3, <2>7
    <3>2. k \in 0 .. l - 1 /\ (m - ((w + i) + 1)) + 1 = (u + k) + 1
      BY <2>7
    <3>3. r[a].s_arr[i] = s.s_arr[k]
      BY <2>4
    <3> HIDE DEF k
    <3>4. c[(u + k) + 1] = s.s_arr[k]
      BY <2>5, <3>2
    <3> QED
      BY <3>1, <3>2, <3>3, <3>4
  <2> QED
    BY <2>4, <2>6, <2>8 DEF Continues, w
<1>7. v[0] = 0 /\ v[n] = Len(d)
  <2>1. 0 \in 0 .. n /\ n \in 0 .. n /\ n - 0 = n /\ n - n = 0
    BY <1>nm
  <2>2. v[0] = m - o[n] /\ v[n] = m - o[0]
    BY <1>4, <2>1
  <2>3. o[n] = m /\ o[0] = 0
    BY <1>0
  <2> QED
    BY <1>nm, <1>3, <2>2, <2>3
<1>8. Lays(r, d, v)
  BY <1>2, <1>5, <1>6, <1>7 DEF Lays, Offsets
<1> QED
  BY <1>8 DEF r, d, v, n, m

\* The extrema of the slabs are left as they were: no longer exact.
LEMMA TurnedHolds ==
    ASSUME NEW ls, NEW c, NEW x, Holds(ls, c, x)
    PROVE  Holds(Turned(ls), Reverse(c), FALSE)
<1>1. ls \in Seq(Slab) /\ c \in Seq(Elem)
  BY HoldsFacts
<1>2. PICK o : Lays(ls, c, o)
  BY DEF Holds
<1>3. \E v : Lays(Turned(ls), Reverse(c), v)
  BY <1>1, <1>2, TurnedLaid
<1> QED
  BY <1>1, <1>3, TurnedSlabs, ReverseProperties DEF Holds

-----------------------------------------------------------------------------
(* Becoming slabs and becoming small *)

\* Elements that fit into one slab are in one slab.
LEMMA FewElemsOneSlab ==
    ASSUME NEW ls, NEW c, NEW x, Holds(ls, c, x), Chain(ls), Len(ls) > 0,
           Len(c) <= SELEM_MAX
    PROVE  Len(ls) = 1
<1> DEFINE n == Len(ls)
<1>0. /\ ls \in Seq(Slab) /\ c \in Seq(Elem) /\ n \in Nat /\ Len(c) \in Nat
      /\ SELEM_MAX \in Nat
  BY HoldsFacts
<1>1. PICK o : Lays(ls, c, o)
  BY DEF Holds
<1>2. \A a \in 0 .. n : o[a] \in Nat /\ o[a] <= Len(c)
  BY <1>0, <1>1, LaysFacts
<1>3. \A a \in 1 .. n : ls[a].s_elems \in Nat /\ o[a] = o[a - 1] + ls[a].s_elems
  BY <1>0, <1>1, LaysFacts
<1>4. o[0] = 0
  BY <1>0, <1>1, LaysFacts
<1>5. n > 0
  OBVIOUS
<1> HIDE DEF n
<1>6. SUFFICES ASSUME n >= 2 PROVE FALSE
  <2>1. n >= 2 \/ n = 1
    BY <1>0, <1>5
  <2> QED
    BY <2>1 DEF n
<1>7. 1 \in 1 .. n /\ 2 \in 1 .. n /\ 1 \in 1 .. n - 1 /\ 2 \in 0 .. n
  BY <1>0, <1>6
<1>8. ls[1].s_elems + ls[1 + 1].s_elems > SELEM_MAX
  BY <1>7 DEF Chain, Packed, n
<1>9. o[1] = o[1 - 1] + ls[1].s_elems /\ o[2] = o[2 - 1] + ls[2].s_elems
  BY <1>3, <1>7
<1>10. ls[1].s_elems \in Nat /\ ls[2].s_elems \in Nat /\ o[2] <= Len(c)
  BY <1>2, <1>3, <1>7
<1> QED
  BY <1>0, <1>4, <1>8, <1>9, <1>10

\* A small list made from the slabs holds their elements.
LEMMA BecameSmall ==
    ASSUME NEW ls, NEW c, NEW x, Holds(ls, c, x), Chain(ls), Len(ls) > 0,
           Len(c) <= SELEM_MAX
    PROVE  slab_to_small_list(ls[1]) = c
<1> DEFINE s == ls[1]
           q == slab_to_small_list(s)
<1>0. ls \in Seq(Slab) /\ c \in Seq(Elem) /\ Len(ls) = 1
  BY HoldsFacts, FewElemsOneSlab
<1>1. s \in Slab /\ s.s_elems \in Nat
  <2>1. 1 \in 1 .. Len(ls)
    BY <1>0
  <2>2. s \in Slab
    BY <1>0, <2>1, ElementOfSeq
  <2> HIDE DEF s
  <2> QED
    BY <2>2, SlabFacts
<1>2. PICK o : Lays(ls, c, o)
  BY DEF Holds
<1>3. o[0] = 0 /\ o[1] = Len(c)
  <2>1. o[0] = 0 /\ o[Len(ls)] = Len(c)
    BY <1>0, <1>2, LaysFacts
  <2> QED
    BY <1>0, <2>1
<1>4. o[1] = o[1 - 1] + s.s_elems /\ Continues(c, o[1 - 1], s)
  <2>1. 1 \in 1 .. Len(ls)
    BY <1>0
  <2> QED
    BY <1>0, <1>2, <2>1, LaysFacts
<1> HIDE DEF s
<1>5. Len(c) = s.s_elems /\ \A i \in 0 .. s.s_elems - 1 : c[(0 + i) + 1] = s.s_arr[i]
  BY <1>1, <1>3, <1>4 DEF Continues
<1>6. q \in Seq(Elem) /\ Len(q) = s.s_elems
  BY <1>1, slab_to_small_listIsSeq
<1>7. \A p \in 1 .. s.s_elems : q[p] = s.s_arr[p - 1]
  BY DEF slab_to_small_list
<1> HIDE DEF q
<1>8. \A p \in 1 .. s.s_elems : q[p] = c[p]
  <2>1. \A p \in 1 .. s.s_elems : p - 1 \in 0 .. s.s_elems - 1 /\ (0 + (p - 1)) + 1 = p
    BY <1>1
  <2> QED
    BY <1>5, <1>7, <2>1
<1>9. q = c
  BY <1>0, <1>5, <1>6, <1>8, SeqEqual
<1> QED
  BY <1>9 DEF q, s

\* Slabs that hold nothing are not there.
LEMMA NothingHeld ==
    ASSUME NEW ls, NEW c, NEW x, Holds(ls, c, x), Chain(ls), Len(ls) > 0
    PROVE  Len(c) > 0
<1>0. ls \in Seq(Slab) /\ c \in Seq(Elem) /\ Len(ls) \in Nat /\ Len(c) \in Nat
  BY HoldsFacts
<1>1. PICK o : Lays(ls, c, o)
  BY DEF Holds
<1>2. 1 \in 1 .. Len(ls) /\ 1 \in 0 .. Len(ls)
  BY <1>0
<1>3. o[1] = o[1 - 1] + ls[1].s_elems /\ ls[1].s_elems \in Nat
  BY <1>0, <1>1, <1>2, LaysFacts
<1>4. o[0] = 0 /\ o[1] <= Len(c)
  BY <1>0, <1>1, <1>2, LaysFacts
<1>5. ls[1].s_elems > 0
  BY <1>2 DEF Chain
<1> QED
  BY <1>0, <1>3, <1>4, <1>5

LEMMA SomethingHeld ==
    ASSUME NEW ls, NEW c, NEW x, Holds(ls, c, x), Len(c) > 0
    PROVE  Len(ls) > 0
<1>0. ls \in Seq(Slab) /\ c \in Seq(Elem) /\ Len(ls) \in Nat /\ Len(c) \in Nat
  BY HoldsFacts
<1>1. PICK o : Lays(ls, c, o)
  BY DEF Holds
<1>2. o[0] = 0 /\ o[Len(ls)] = Len(c)
  BY <1>0, <1>1, LaysFacts
<1> QED
  BY <1>0, <1>2

-----------------------------------------------------------------------------
(* The invariant *)

\* A small list `l', slabs `ls' and a counter `n' that stand for the sequence `c':
\* exactly one form is in use.  Small lists reach SMELEM_MAX, slabs go down to it.
Shaped(l, ls, n, c) ==
    /\ c \in Seq(Elem) /\ n = Len(c) /\ Chain(ls)
    /\ \/ ls = <<>> /\ l = c /\ Len(c) <= SMELEM_MAX
       \/ ls # <<>> /\ l = <<>> /\ Len(c) >= SMELEM_MAX /\ Holds(ls, c, ~Reversing)

\* The bookmark is at no element or at one of the list.
Marked(b, l, ls) ==
    /\ b \in [node : Nat, index : Int]
    /\ \/ b.node = 0
       \/ b.node \in DOMAIN l
       \/ b.node \in DOMAIN ls /\ b.index \in 0 .. ls[b.node].s_elems - 1

\* The pointers `fr' that may lead to a freed node in a list of slabs `ls' and `n'
\* elements: none of slabs, and with careful clients only the end of an empty list.
Strays(ls, n, fr) ==
    /\ fr \subseteq Pointer
    /\ ls # <<>> => fr = {}
    /\ ~Careless => fr \subseteq {"sl_end"} /\ (n > 0 => fr = {})

\* TypeOK is not inductive: the last slab must be there to append to, removals
\* must find a slab, what a walk does depends on what the slabs hold, and whether a
\* call crashes depends on which pointers were left dangling.
OInv ==
    /\ Shaped(sml, slabs, sl_elems, Contents)
    /\ Marked(bm, sml, slabs)
    /\ Strays(slabs, sl_elems, freed)
    /\ sl_mslabs \in Nat
    /\ ret \in [st : Status, elem : SUBSET Elem]
    /\ crashed \in BOOLEAN
    /\ ~Careless => crashed = FALSE

LEMMA Sizes ==
    /\ SELEM_MAX \in Nat /\ SELEM_MAX >= 2
    /\ SMELEM_MAX \in Nat /\ SMELEM_MAX >= 1 /\ SMELEM_MAX < SELEM_MAX
BY SlabSizeAssumption, SmallListAssumption

LEMMA ShapedFacts ==
    ASSUME NEW l, NEW ls, NEW n, NEW c, Shaped(l, ls, n, c)
    PROVE  /\ c \in Seq(Elem) /\ l \in Seq(Elem) /\ ls \in Seq(Slab) /\ Chain(ls)
           /\ n \in Nat /\ n = Len(c) /\ Len(ls) \in Nat
           /\ ls = <<>> => l = c /\ n <= SMELEM_MAX
           /\ ls # <<>> => /\ l = <<>> /\ n >= SMELEM_MAX /\ Len(ls) > 0
                           /\ Holds(ls, c, ~Reversing)
<1>1. c \in Seq(Elem) /\ n = Len(c) /\ Chain(ls) /\ ls \in Seq(Slab)
  BY DEF Shaped, Chain
<1>2. n \in Nat /\ Len(ls) \in Nat
  BY <1>1, LenProperties
<1>3. ls # <<>> => Len(ls) > 0
  BY <1>1, EmptySeq
<1>4. <<>> \in Seq(Elem)
  BY EmptySeq
<1> QED
  BY <1>1, <1>2, <1>3, <1>4 DEF Shaped

\* What the list stands for is what it contains.
LEMMA ShapedContents ==
    ASSUME NEW c, Shaped(sml, slabs, sl_elems, c)
    PROVE  Contents = c
<1>1. CASE slabs = <<>>
  BY <1>1, ShapedFacts DEF Contents, IS_SMALL_LIST
<1>2. CASE slabs # <<>>
  <2>1. Contents = Flat(slabs)
    BY <1>2 DEF Contents, IS_SMALL_LIST, Flat
  <2> QED
    BY <1>2, <2>1, ShapedFacts, HeldIsFlat
<1> QED
  BY <1>1, <1>2

LEMMA NextContents ==
    ASSUME NEW c, Shaped(sml', slabs', sl_elems', c)
    PROVE  Contents' = c
<1>1. CASE slabs' = <<>>
  BY <1>1, ShapedFacts DEF Contents, IS_SMALL_LIST
<1>2. CASE slabs' # <<>>
  <2>1. Contents' = Flat(slabs')
    BY <1>2 DEF Contents, IS_SMALL_LIST, Flat
  <2> QED
    BY <1>2, <2>1, ShapedFacts, HeldIsFlat
<1> QED
  BY <1>1, <1>2

LEMMA ResultType ==
    ASSUME NEW st \in Status, NEW R \in SUBSET Elem
    PROVE  Result(st, R) \in [st : Status, elem : SUBSET Elem]
BY DEF Result

LEMMA NoStrays ==
    ASSUME NEW ls, NEW n
    PROVE  Strays(ls, n, {})
BY DEF Strays

LEMMA InitOInv == Init => OInv /\ Contents = <<>>
<1> SUFFICES ASSUME Init PROVE OInv /\ Contents = <<>>
  OBVIOUS
<1>1. <<>> \in Seq(Elem) /\ Len(<<>>) = 0 /\ Chain(<<>>)
  BY EmptySeq, NoSlabsChain
<1>2. Shaped(sml, slabs, sl_elems, <<>>)
  BY <1>1, Sizes DEF Init, Shaped
<1>3. Contents = <<>>
  BY <1>2, ShapedContents
<1>4. Marked(bm, sml, slabs)
  BY DEF Init, Marked
<1>5. sl_mslabs \in Nat
  BY OrderedClientAssumption DEF Init
<1>6. ret \in [st : Status, elem : SUBSET Elem]
  <2>1. "SUCCESS" \in Status
    BY DEF Status
  <2> QED
    BY <2>1, ResultType DEF Init
<1>7. crashed = FALSE
  BY DEF Init
<1>8. Strays(slabs, sl_elems, freed)
  BY NoStrays DEF Init
<1> QED
  BY <1>2, <1>3, <1>4, <1>5, <1>6, <1>7, <1>8 DEF OInv

-----------------------------------------------------------------------------
(* One lemma per action: what it leaves the list standing for *)

LEMMA AddSmallShaped ==
    ASSUME OInv, NEW e \in Elem, AddSmall(e)
    PROVE  Shaped(sml', slabs', sl_elems', Append(Contents, e))
<1> DEFINE c == Contents
           d == Append(c, e)
<1>1. Shaped(sml, slabs, sl_elems, c)
  BY DEF OInv
<1>2. /\ slabs = <<>> /\ sl_elems <= SMELEM_MAX - 1
      /\ sml' = Append(sml, e) /\ sl_elems' = sl_elems + 1 /\ slabs' = slabs
  BY DEF AddSmall, IS_SMALL_LIST
<1> HIDE DEF c
<1>3. c \in Seq(Elem) /\ sml = c /\ sl_elems \in Nat /\ sl_elems = Len(c)
  BY <1>1, <1>2, ShapedFacts
<1>4. d \in Seq(Elem) /\ Len(d) = Len(c) + 1
  BY <1>3, AppendProperties
<1>5. Len(d) <= SMELEM_MAX
  BY <1>2, <1>3, <1>4, Sizes
<1> HIDE DEF d
<1>6. Shaped(d, <<>>, sl_elems + 1, d)
  BY <1>3, <1>4, <1>5, NoSlabsChain DEF Shaped
<1> QED
  BY <1>2, <1>3, <1>6 DEF d, c

LEMMA AddSlabShaped ==
    ASSUME OInv, NEW e \in Elem, AddSlab(e)
    PROVE  Shaped(sml', slabs', sl_elems', Append(Contents, e))
<1> DEFINE c == Contents
           d == Append(c, e)
           ls == IF IS_SMALL_LIST THEN <<small_list_to_slab(sml)>> ELSE slabs
           x == ~Reversing
<1>1. Shaped(sml, slabs, sl_elems, c)
  BY DEF OInv
<1>2. /\ IS_SMALL_LIST => sl_elems = SMELEM_MAX
      /\ sml' = <<>> /\ sl_elems' = sl_elems + 1
      /\ slabs' = try_reap(AppendTo(ls, e), sl_elems, sl_mslabs, sl_mpslabs)
  BY DEF AddSlab
<1>3. c \in Seq(Elem) /\ sl_elems \in Nat /\ sl_elems = Len(c)
  BY <1>1, ShapedFacts
<1>4. Holds(ls, c, x) /\ Chain(ls) /\ Len(ls) > 0 /\ sl_elems >= SMELEM_MAX
  <2>1. CASE slabs = <<>>
    <3>1. sml = c /\ sl_elems = SMELEM_MAX
      BY <1>1, <1>2, <2>1, ShapedFacts DEF IS_SMALL_LIST
    <3>2. Len(c) > 0 /\ Len(c) <= SELEM_MAX /\ sl_elems >= SMELEM_MAX
      BY <1>3, <3>1, Sizes
    <3>3. ls = <<small_list_to_slab(c)>>
      BY <2>1, <3>1 DEF IS_SMALL_LIST
    <3> HIDE DEF c, ls, x
    <3> QED
      BY <1>3, <3>2, <3>3, BecameSlabs
  <2>2. CASE slabs # <<>>
    <3>1. ls = slabs
      BY <2>2 DEF IS_SMALL_LIST
    <3> HIDE DEF ls, c
    <3> QED
      BY <1>1, <2>2, <3>1, ShapedFacts
  <2> QED
    BY <2>1, <2>2
<1> HIDE DEF ls, c, x
<1>5. /\ Holds(AppendTo(ls, e), d, x)
      /\ Chain(AppendTo(ls, e)) /\ Len(AppendTo(ls, e)) > 0
  BY <1>4, AppendToHolds
<1>6. d \in Seq(Elem) /\ Len(d) = Len(c) + 1
  BY <1>3, AppendProperties
<1> HIDE DEF d
<1>7. Holds(slabs', d, x) /\ Chain(slabs')
  BY <1>2, <1>5, try_reapHolds, try_reapChain
<1>8. slabs' # <<>>
  <2>1. Len(d) > 0
    BY <1>3, <1>6
  <2>2. Len(slabs') > 0
    BY <1>7, <2>1, SomethingHeld
  <2> QED
    BY <2>2, EmptySeq
<1>9. sl_elems' = Len(d) /\ Len(d) >= SMELEM_MAX
  BY <1>2, <1>3, <1>4, <1>6, Sizes
<1>10. Shaped(sml', slabs', sl_elems', d)
  BY <1>2, <1>6, <1>7, <1>8, <1>9 DEF Shaped, x
<1> QED
  BY <1>10 DEF d, c

\* Counting round.
LEMMA Modulo ==
    ASSUME NEW n \in Nat
    PROVE  /\ \A k \in 0 .. n : k % (n + 1) = k
           /\ (n + 1) % (n + 1) = 0
           /\ (-1) % (n + 1) = n
           /\ n > 0 => \A k \in Nat : k % n \in 0 .. n - 1
<1>1. \A k \in 0 .. n : k % (n + 1) = k
  OBVIOUS
<1>2. (n + 1) % (n + 1) = 0
  OBVIOUS
<1>3. (-1) % (n + 1) = n
  OBVIOUS
<1>4. n > 0 => \A k \in Nat : k % n \in 0 .. n - 1
  OBVIOUS
<1> QED
  BY <1>1, <1>2, <1>3, <1>4

LEMMA WrappedRange ==
    ASSUME NEW pos \in Nat, NEW n \in Nat, n > 0
    PROVE  Wrapped(pos, n) \in Nat
BY Modulo DEF Wrapped

\* The list that a removal works on stands for the same sequence.
LEMMA RemBaseShaped ==
    ASSUME OInv
    PROVE  /\ RemBase.slabs = <<>> => RemBase.sml = Contents /\ Len(Contents) <= SMELEM_MAX
           /\ RemBase.slabs # <<>> => slabs # <<>> /\ sl_elems > SMELEM_MAX
<1> DEFINE c == Contents
<1>1. Shaped(sml, slabs, sl_elems, c)
  BY DEF OInv
<1> HIDE DEF c
<1>2. c \in Seq(Elem) /\ sl_elems \in Nat /\ sl_elems = Len(c)
  BY <1>1, ShapedFacts
<1>3. CASE slabs # <<>> /\ sl_elems = SMELEM_MAX
  <2>1. RemBase.sml = slab_to_small_list(slabs[1]) /\ RemBase.slabs = <<>>
    BY <1>3 DEF RemBase
  <2>2. Len(c) <= SELEM_MAX /\ Len(c) <= SMELEM_MAX
    BY <1>2, <1>3, Sizes
  <2>3. slab_to_small_list(slabs[1]) = c
    BY <1>1, <1>3, <2>2, ShapedFacts, BecameSmall
  <2> QED
    BY <2>1, <2>2, <2>3 DEF c
<1>4. CASE ~(slabs # <<>> /\ sl_elems = SMELEM_MAX)
  <2>1. RemBase.sml = sml /\ RemBase.slabs = slabs
    BY <1>4 DEF RemBase
  <2>2. CASE slabs = <<>>
    BY <1>1, <1>2, <2>1, <2>2, ShapedFacts DEF c
  <2>3. CASE slabs # <<>>
    <3>1. sl_elems >= SMELEM_MAX /\ sl_elems # SMELEM_MAX
      BY <1>1, <1>4, <2>3, ShapedFacts
    <3> QED
      BY <1>2, <2>1, <2>3, <3>1, Sizes
  <2> QED
    BY <2>2, <2>3
<1> QED
  BY <1>3, <1>4

\* A removal from a small list is refused, or takes out the element at the
\* position that it counts to.
LEMMA RemSmallShaped ==
    ASSUME OInv, NEW pos \in Nat, RemSmall(pos)
    PROVE  \/ /\ Shaped(sml', slabs', sl_elems', Contents)
              /\ ret' = Result(IF Contents = <<>> THEN "EMPTY" ELSE "ENCIRC", {})
           \/ \E p \in 0 .. Len(Contents) - 1 :
                 /\ Shaped(sml', slabs', sl_elems', RemoveAt(Contents, p + 1))
                 /\ ret' = Result("SUCCESS", {})
<1> DEFINE c == Contents
           l == RemBase.sml
           p == Wrapped(pos, Len(l))
           refused == IF l = <<>> THEN {"EMPTY"} ELSE IF p > Len(l) THEN {"ENCIRC"} ELSE {}
<1>0. RemBase.slabs = <<>>
  BY DEF RemSmall
<1>1. l = c /\ Len(c) <= SMELEM_MAX
  BY <1>0, RemBaseShaped
<1>2. c \in Seq(Elem) /\ Len(c) \in Nat
  BY ShapedFacts DEF OInv
<1>3. /\ slabs' = <<>>
      /\ \/ /\ refused # {}
            /\ sml' = l /\ sl_elems' = Len(l)
            /\ \E st \in refused : ret' = Result(st, {})
         \/ /\ refused = {} /\ p < Len(l)
            /\ sml' = RemoveAt(l, p + 1) /\ sl_elems' = Len(l) - 1
            /\ ret' = Result("SUCCESS", {})
  BY DEF RemSmall
<1> HIDE DEF c, l
<1>4. CASE refused # {}
  <2>1. sml' = c /\ sl_elems' = Len(c) /\ \E st \in refused : ret' = Result(st, {})
    BY <1>1, <1>3, <1>4
  <2>2. Shaped(sml', slabs', sl_elems', c)
    BY <1>1, <1>2, <1>3, <2>1, NoSlabsChain DEF Shaped
  <2>3. ret' = Result(IF c = <<>> THEN "EMPTY" ELSE "ENCIRC", {})
    BY <1>1, <1>4, <2>1
  <2> QED
    BY <2>2, <2>3 DEF c
<1>5. CASE refused = {}
  <2>1. /\ p < Len(c) /\ c # <<>>
        /\ sml' = RemoveAt(c, p + 1) /\ sl_elems' = Len(c) - 1
        /\ ret' = Result("SUCCESS", {})
    BY <1>1, <1>3, <1>5
  <2>2. p \in 0 .. Len(c) - 1
    <3>1. Len(c) > 0
      BY <1>2, <2>1, EmptySeq
    <3>2. p \in Nat
      BY <1>1, <1>2, <3>1, WrappedRange
    <3> QED
      BY <1>2, <2>1, <3>2
  <2> HIDE DEF p
  <2>3. p + 1 \in 1 .. Len(c)
    BY <1>2, <2>2
  <2>4. RemoveAt(c, p + 1) \in Seq(Elem) /\ Len(RemoveAt(c, p + 1)) = Len(c) - 1
    BY <1>2, <2>3, RemoveAtProperties
  <2>5. Len(c) - 1 <= SMELEM_MAX
    BY <1>1, <1>2, Sizes
  <2>6. Shaped(sml', slabs', sl_elems', RemoveAt(c, p + 1))
    BY <1>3, <2>1, <2>4, <2>5, NoSlabsChain DEF Shaped
  <2> QED
    BY <2>1, <2>2, <2>6 DEF c
<1> QED
  BY <1>4, <1>5

LEMMA RemSlabShaped ==
    ASSUME OInv, NEW pos \in Nat, RemSlab(pos)
    PROVE  \E p \in 0 .. Len(Contents) - 1 :
              /\ Shaped(sml', slabs', sl_elems', RemoveAt(Contents, p + 1))
              /\ ret' = Result("SUCCESS", {Contents[p + 1]})
<1> DEFINE c == Contents
           p == Wrapped(pos, sl_elems)
           at == slab_get_elem_pos(slabs, p)
           a == at.slab
           i == at.off_pos
           s == slabs[a]
           r == Put(slabs, a, remove_elem(i, s))
           d == RemoveAt(c, p + 1)
           x == ~Reversing
<1>1. Shaped(sml, slabs, sl_elems, c)
  BY DEF OInv
<1>2. /\ RemBase.slabs # <<>> /\ p < sl_elems
      /\ slabs' = try_reap(slab_generic_rem(r, a), sl_elems, sl_mslabs, sl_mpslabs)
      /\ sl_elems' = sl_elems - 1 /\ sml' = sml
      /\ ret' = Result("SUCCESS", {s.s_arr[i]})
  BY DEF RemSlab, Put
<1>3. slabs # <<>> /\ sl_elems > SMELEM_MAX
  BY <1>2, RemBaseShaped
<1>4. at = [slab |-> a, off_pos |-> i]
  BY DEF slab_get_elem_pos
<1> HIDE DEF c, a, i, x
<1>5. /\ c \in Seq(Elem) /\ sl_elems \in Nat /\ sl_elems = Len(c)
      /\ Chain(slabs) /\ Holds(slabs, c, x) /\ sml = <<>>
  BY <1>1, <1>3, ShapedFacts DEF x
<1>6. p \in 0 .. Len(c) - 1
  <2>1. sl_elems > 0
    BY <1>3, <1>5, Sizes
  <2>2. p \in Nat
    BY <1>5, <2>1, WrappedRange
  <2> QED
    BY <1>2, <1>5, <2>2
<1> HIDE DEF p
<1>7. /\ s.s_arr[i] = c[p + 1]
      /\ Holds(r, d, x) /\ Dented(r, a)
  BY <1>4, <1>5, <1>6, RemovedHolds
<1> HIDE DEF r, s
<1>8. p + 1 \in 1 .. Len(c)
  BY <1>5, <1>6
<1>9. d \in Seq(Elem) /\ Len(d) = Len(c) - 1
  BY <1>5, <1>8, RemoveAtProperties
<1> HIDE DEF d
<1>10. Holds(slabs', d, x) /\ Chain(slabs')
  BY <1>2, <1>7, slab_generic_remHolds, slab_generic_remChain, try_reapHolds, try_reapChain
<1>11. Len(d) > 0 /\ Len(d) >= SMELEM_MAX /\ sl_elems' = Len(d)
  BY <1>2, <1>3, <1>5, <1>9, Sizes
<1>12. slabs' # <<>>
  <2>1. Len(slabs') > 0
    BY <1>10, <1>11, SomethingHeld
  <2> QED
    BY <2>1, EmptySeq
<1>13. Shaped(sml', slabs', sl_elems', d)
  BY <1>2, <1>5, <1>9, <1>10, <1>11, <1>12 DEF Shaped, x
<1> QED
  BY <1>2, <1>6, <1>7, <1>13 DEF c, d

\* A removal past the end crashes, and only a careless client asks for one.
LEMMA RemPastCareless ==
    ASSUME OInv, NEW pos \in Nat, RemPast(pos),
           sl_elems > 0 /\ ~Careless => Wrapped(pos, sl_elems) < sl_elems
    PROVE  Careless /\ Crash
<1> DEFINE c == Contents
           small == RemBase.slabs = <<>>
           n == IF small THEN Len(RemBase.sml) ELSE sl_elems
<1>1. sl_elems \in Nat /\ sl_elems = Len(c)
  BY ShapedFacts DEF OInv
<1>2. n = sl_elems
  BY <1>1, RemBaseShaped
<1>3. n > 0 /\ (Wrapped(pos, n) = n \/ Wrapped(pos, n) > n) /\ Crash
  BY DEF RemPast
<1> HIDE DEF n
<1>4. Wrapped(pos, sl_elems) \in Nat
  BY <1>1, <1>2, <1>3, WrappedRange
<1>5. ~(Wrapped(pos, sl_elems) < sl_elems)
  BY <1>1, <1>2, <1>3, <1>4
<1> QED
  BY <1>2, <1>3, <1>5

LEMMA ReverseShaped ==
    ASSUME OInv, Reversing, ReverseList
    PROVE  Shaped(sml', slabs', sl_elems', Reverse(Contents))
<1> DEFINE c == Contents
           d == Reverse(c)
<1>1. Shaped(sml, slabs, sl_elems, c)
  BY DEF OInv
<1>2. /\ Reversing /\ sml' = Reverse(sml) /\ slabs' = Turned(slabs)
      /\ sl_elems' = sl_elems
  BY DEF ReverseList, Turned
<1> HIDE DEF c
<1>3. /\ c \in Seq(Elem) /\ sml \in Seq(Elem) /\ slabs \in Seq(Slab) /\ Chain(slabs)
      /\ sl_elems = Len(c)
  BY <1>1, ShapedFacts
<1>4. d \in Seq(Elem) /\ Len(d) = Len(c)
  BY <1>3, ReverseProperties
<1>5. Chain(slabs') /\ Len(slabs') = Len(slabs) /\ slabs' \in Seq(Slab)
  BY <1>2, <1>3, TurnedChain, TurnedSlabs
<1> HIDE DEF d
<1>6. CASE slabs = <<>>
  <2>1. slabs' = <<>>
    <3>1. Len(slabs') = 0
      BY <1>5, <1>6, EmptySeq
    <3> QED
      BY <1>5, <3>1, EmptySeq
  <2>2. sml' = d /\ sl_elems <= SMELEM_MAX
    BY <1>1, <1>2, <1>6, ShapedFacts DEF d
  <2> QED
    BY <1>2, <1>3, <1>4, <1>5, <2>1, <2>2 DEF Shaped, d, c
<1>7. CASE slabs # <<>>
  <2>1. slabs' # <<>>
    <3>1. Len(slabs) > 0
      BY <1>3, <1>7, EmptySeq
    <3> QED
      BY <1>5, <3>1, EmptySeq
  <2>2. sml = <<>> /\ sl_elems >= SMELEM_MAX /\ Holds(slabs, c, ~Reversing)
    BY <1>1, <1>7, ShapedFacts
  <2>3. sml' = <<>>
    <3>1. Len(sml') = 0 /\ sml' \in Seq(Elem)
      BY <1>2, <1>3, <2>2, EmptySeq, ReverseProperties
    <3> QED
      BY <3>1, EmptySeq
  <2>4. Holds(slabs', d, FALSE)
    BY <1>2, <2>2, TurnedHolds DEF d
  <2>5. Holds(slabs', d, ~Reversing)
    BY <1>2, <2>4 DEF Holds
  <2> QED
    BY <1>2, <1>3, <1>4, <1>5, <2>1, <2>2, <2>3, <2>5 DEF Shaped, d, c
<1> QED
  BY <1>6, <1>7

LEMMA ReapShaped ==
    ASSUME OInv, Reap
    PROVE  Shaped(sml', slabs', sl_elems', Contents)
<1> DEFINE c == Contents
<1>1. Shaped(sml, slabs, sl_elems, c)
  BY DEF OInv
<1>2. /\ sml' = sml /\ sl_elems' = sl_elems
      /\ slabs' = IF slabs = <<>> THEN slabs ELSE slablist_reap(slabs)
  BY DEF Reap, IS_SMALL_LIST
<1> HIDE DEF c
<1>3. CASE slabs = <<>>
  BY <1>1, <1>2, <1>3 DEF c
<1>4. CASE slabs # <<>>
  <2>1. slabs' = slablist_reap(slabs)
    BY <1>2, <1>4
  <2>2. /\ c \in Seq(Elem) /\ Chain(slabs) /\ Holds(slabs, c, ~Reversing) /\ Len(slabs) > 0
        /\ sml = <<>> /\ sl_elems = Len(c) /\ sl_elems >= SMELEM_MAX
    BY <1>1, <1>4, ShapedFacts
  <2>3. Chain(slabs') /\ Holds(slabs', c, ~Reversing) /\ Len(slabs') > 0
    BY <2>1, <2>2, slablist_reapChain, slablist_reapHolds
  <2>4. slabs' # <<>>
    BY <2>3, EmptySeq
  <2> QED
    BY <1>2, <2>2, <2>3, <2>4 DEF Shaped, c
<1> QED
  BY <1>3, <1>4

-----------------------------------------------------------------------------
(* Walking *)

\* How far a bookmark is into a chain.
CursorOf(b, ls) ==
    IF b.node = 0 \/ ls = <<>> THEN b.node ELSE ElemsBefore(ls, b.node - 1) + b.index + 1

LEMMA CursorIs == Cursor = CursorOf(bm, slabs)
BY DEF Cursor, CursorOf, IS_SMALL_LIST

\* In a chain, the bookmark is at the element that its cursor counts to.
LEMMA CursorInSlabs ==
    ASSUME NEW ls, ls # <<>>, NEW c, NEW o, Lays(ls, c, o),
           ls \in Seq(Slab), c \in Seq(Elem),
           NEW a \in 1 .. Len(ls), NEW i \in 0 .. ls[a].s_elems - 1
    PROVE  LET b == [node |-> a, index |-> i]
           IN  /\ CursorOf(b, ls) = (o[a - 1] + i) + 1
               /\ CursorOf(b, ls) \in 1 .. Len(c)
               /\ c[CursorOf(b, ls)] = ls[a].s_arr[i]
<1> DEFINE b == [node |-> a, index |-> i]
           k == ls[a].s_elems
           n == Len(ls)
<1>0. n \in Nat /\ Len(c) \in Nat /\ a - 1 \in 0 .. n /\ a \in 0 .. n /\ a # 0
  BY LenProperties
<1>1. \A j \in 0 .. n : o[j] \in Nat /\ o[j] <= Len(c)
  BY LaysFacts
<1>2. k \in Nat /\ o[a] = o[a - 1] + k
  BY LaysFacts
<1>3. Continues(c, o[a - 1], ls[a])
  BY LaysFacts
<1>4. ElemsBefore(ls, a - 1) = o[a - 1]
  BY <1>0, ElemsBeforeOffset DEF Lays
<1>5. i \in 0 .. k - 1
  OBVIOUS
<1>6. o[a] \in Nat /\ o[a - 1] \in Nat /\ o[a] <= Len(c)
  BY <1>0, <1>1
<1>7. CursorOf(b, ls) = (o[a - 1] + i) + 1
  BY <1>0, <1>4 DEF CursorOf
<1>8. c[(o[a - 1] + i) + 1] = ls[a].s_arr[i]
  BY <1>3, <1>5 DEF Continues, k
<1> HIDE DEF k, n
<1>9. (o[a - 1] + i) + 1 \in 1 .. Len(c)
  BY <1>0, <1>2, <1>5, <1>6
<1> QED
  BY <1>7, <1>8, <1>9

\* Wherever the bookmark is, its cursor is an index of the sequence, and the
\* bookmark is at the element there.
LEMMA CursorFacts ==
    ASSUME NEW l, NEW ls, NEW n, NEW c, Shaped(l, ls, n, c), NEW b, Marked(b, l, ls)
    PROVE  /\ CursorOf(b, ls) \in 0 .. n
           /\ CursorOf(b, ls) = 0 <=> b.node = 0
           /\ b.node # 0 =>
                 /\ ls = <<>> => b.node \in 1 .. n /\ l[b.node] = c[CursorOf(b, ls)]
                 /\ ls # <<>> => /\ b.node \in 1 .. Len(ls)
                                 /\ b.index \in 0 .. ls[b.node].s_elems - 1
                                 /\ ls[b.node].s_arr[b.index] = c[CursorOf(b, ls)]
<1>0. c \in Seq(Elem) /\ l \in Seq(Elem) /\ ls \in Seq(Slab) /\ n \in Nat /\ n = Len(c)
  BY ShapedFacts
<1>1. DOMAIN <<>> = 1 .. 0 /\ DOMAIN l = 1 .. Len(l) /\ DOMAIN ls = 1 .. Len(ls)
  BY <1>0, LenProperties
<1>2. CASE b.node = 0
  <2>1. CursorOf(b, ls) = 0
    BY <1>2 DEF CursorOf
  <2> QED
    BY <1>0, <1>2, <2>1
<1>3. CASE b.node # 0 /\ ls = <<>>
  <2>1. l = c
    BY <1>3, ShapedFacts
  <2>2. b.node \in DOMAIN l
    BY <1>1, <1>3 DEF Marked
  <2>3. b.node \in 1 .. n
    BY <1>0, <1>1, <2>1, <2>2
  <2>4. CursorOf(b, ls) = b.node
    BY <1>3 DEF CursorOf
  <2> QED
    BY <1>0, <1>3, <2>1, <2>3, <2>4
<1>4. CASE b.node # 0 /\ ls # <<>>
  <2>1. l = <<>> /\ Holds(ls, c, ~Reversing)
    BY <1>4, ShapedFacts
  <2>2. b.node \in 1 .. Len(ls) /\ b.index \in 0 .. ls[b.node].s_elems - 1
    <3>1. b.node \notin DOMAIN l
      BY <1>1, <2>1
    <3> QED
      BY <1>1, <1>4, <3>1 DEF Marked
  <2>3. b = [node |-> b.node, index |-> b.index]
    BY DEF Marked
  <2>4. PICK o : Lays(ls, c, o)
    BY <2>1 DEF Holds
  <2> DEFINE a == b.node
             i == b.index
  <2>5. b = [node |-> a, index |-> i]
    BY <2>3
  <2>6. a \in 1 .. Len(ls) /\ i \in 0 .. ls[a].s_elems - 1
    BY <2>2
  <2> HIDE DEF a, i
  <2>7. CursorOf(b, ls) \in 1 .. Len(c) /\ c[CursorOf(b, ls)] = ls[a].s_arr[i]
    BY <1>0, <1>4, <2>4, <2>5, <2>6, CursorInSlabs
  <2>8. CursorOf(b, ls) \in 0 .. n /\ CursorOf(b, ls) # 0
    BY <1>0, <2>7
  <2> QED
    BY <1>4, <2>2, <2>7, <2>8 DEF a, i
<1> QED
  BY <1>2, <1>3, <1>4

\* In slab form, slablist_next goes to the element after the cursor, or past the
\* end, and slablist_prev to the one before it, or past the start.
LEMMA SlabSteps ==
    ASSUME OInv, slabs # <<>>
    PROVE  /\ Marked(SlabAfter, sml, slabs)
           /\ CursorOf(SlabAfter, slabs) = (Cursor + 1) % (Len(Contents) + 1)
           /\ Marked(SlabBefore, sml, slabs)
           /\ CursorOf(SlabBefore, slabs) = (Cursor - 1) % (Len(Contents) + 1)
<1> DEFINE c == Contents
           m == Len(c)
           a == bm.node
           i == bm.index
           n == Len(slabs)
           b == SlabAfter
           d == SlabBefore
           Forth == Marked(b, sml, slabs) /\ CursorOf(b, slabs) = (Cursor + 1) % (m + 1)
           Back == Marked(d, sml, slabs) /\ CursorOf(d, slabs) = (Cursor - 1) % (m + 1)
<1>1. Shaped(sml, slabs, sl_elems, c) /\ Marked(bm, sml, slabs)
  BY DEF OInv
<1>2. Cursor = CursorOf(bm, slabs)
  BY CursorIs
<1> HIDE DEF c
<1>3. /\ c \in Seq(Elem) /\ slabs \in Seq(Slab) /\ Chain(slabs) /\ n \in Nat /\ n > 0
      /\ Holds(slabs, c, ~Reversing) /\ m \in Nat
  BY <1>1, ShapedFacts
<1>4. PICK o : Lays(slabs, c, o)
  BY <1>3 DEF Holds
<1>5. \A j \in 1 .. n : slabs[j].s_elems \in Nat /\ slabs[j].s_elems > 0
  BY <1>3, SlabAt DEF Chain
<1>6. \A j \in 1 .. n : o[j] = o[j - 1] + slabs[j].s_elems
  BY <1>3, <1>4, LaysFacts
<1>7. \A j \in 0 .. n : o[j] \in Nat
  BY <1>3, <1>4, LaysFacts
<1>8. o[0] = 0 /\ o[n] = m
  BY <1>3, <1>4, LaysFacts
<1>9. bm \in [node : Nat, index : Int] /\ DOMAIN slabs = 1 .. n
  BY <1>1, <1>3, SlabAt DEF Marked
\* A place in the slabs, its mark and its cursor.
<1>10. ASSUME NEW p \in 1 .. n, NEW q \in 0 .. slabs[p].s_elems - 1
       PROVE  /\ Marked([node |-> p, index |-> q], sml, slabs)
              /\ CursorOf([node |-> p, index |-> q], slabs) = (o[p - 1] + q) + 1
              /\ (o[p - 1] + q) + 1 \in 1 .. m
  <2>1. q \in Int /\ p \in Nat
    BY <1>3
  <2>2. Marked([node |-> p, index |-> q], sml, slabs)
    BY <1>9, <2>1 DEF Marked
  <2>3. /\ CursorOf([node |-> p, index |-> q], slabs) = (o[p - 1] + q) + 1
        /\ CursorOf([node |-> p, index |-> q], slabs) \in 1 .. Len(c)
    BY <1>3, <1>4, CursorInSlabs
  <2> QED
    BY <2>2, <2>3
<1>11. ASSUME a = 0 PROVE Forth /\ Back
  <2>1. Cursor = 0
    BY <1>2, <1>11 DEF CursorOf
  <2>2. b = [node |-> 1, index |-> 0]
    BY <1>11 DEF SlabAfter
  <2>3. 1 \in 1 .. n /\ 0 \in 0 .. slabs[1].s_elems - 1
    BY <1>3, <1>5
  <2>4. /\ Marked(b, sml, slabs) /\ CursorOf(b, slabs) = (o[1 - 1] + 0) + 1
        /\ (o[1 - 1] + 0) + 1 \in 1 .. m
    BY <1>10, <2>2, <2>3
  <2>5. CursorOf(b, slabs) = 1 /\ 1 \in 0 .. m
    BY <1>3, <1>8, <2>4
  <2>6. 1 % (m + 1) = 1
    BY <1>3, <2>5, Modulo
  <2>7. d = [node |-> n, index |-> slabs[n].s_elems - 1]
    BY <1>11 DEF SlabBefore, LastOf
  <2>8. n \in 1 .. n /\ slabs[n].s_elems - 1 \in 0 .. slabs[n].s_elems - 1
    BY <1>3, <1>5
  <2> DEFINE q == slabs[n].s_elems - 1
  <2>9. /\ Marked(d, sml, slabs)
        /\ CursorOf(d, slabs) = (o[n - 1] + q) + 1
    <3> HIDE DEF q
    <3> QED
      BY <1>10, <2>7, <2>8 DEF q
  <2>10. (o[n - 1] + q) + 1 = m
    <3>1. /\ o[n] = o[n - 1] + slabs[n].s_elems /\ slabs[n].s_elems \in Nat
          /\ o[n - 1] \in Nat
      BY <1>3, <1>5, <1>6, <1>7, <2>8
    <3> QED
      BY <1>8, <3>1
  <2>11. (0 - 1) % (m + 1) = m
    <3>1. 0 - 1 = -1
      OBVIOUS
    <3> QED
      BY <1>3, <3>1, Modulo
  <2> QED
    BY <2>1, <2>4, <2>5, <2>6, <2>9, <2>10, <2>11
<1>12. ASSUME a # 0 PROVE Forth /\ Back
  <2> DEFINE k == slabs[a].s_elems
  <2>1. a \in 1 .. n /\ i \in 0 .. k - 1 /\ bm = [node |-> a, index |-> i]
    BY <1>1, <1>9, <1>12, CursorFacts
  <2>2. Cursor = (o[a - 1] + i) + 1
    <3> HIDE DEF a, i
    <3> QED
      BY <1>2, <1>10, <2>1
  <2>3. k \in Nat /\ o[a - 1] \in Nat /\ o[a] \in Nat /\ o[a] = o[a - 1] + k
    <3>1. a \in 0 .. n /\ a - 1 \in 0 .. n
      BY <1>3, <2>1
    <3> QED
      BY <1>5, <1>6, <1>7, <2>1, <3>1
  <2>4. ASSUME i + 1 < k PROVE Forth
    <3>1. b = [node |-> a, index |-> i + 1]
      BY <1>9, <1>12, <2>4 DEF SlabAfter
    <3>2. i + 1 \in 0 .. k - 1
      BY <2>1, <2>3, <2>4
    <3> DEFINE j == i + 1
    <3> HIDE DEF j
    <3>3. /\ Marked(b, sml, slabs) /\ CursorOf(b, slabs) = (o[a - 1] + j) + 1
          /\ (o[a - 1] + j) + 1 \in 1 .. m
      BY <1>10, <2>1, <3>1, <3>2 DEF j
    <3>4. (o[a - 1] + j) + 1 = Cursor + 1
      <4>1. i \in Int /\ o[a - 1] \in Nat
        BY <2>1, <2>3
      <4> HIDE DEF a, i
      <4> QED
        BY <2>2, <4>1 DEF j
    <3>7. Cursor + 1 \in 0 .. m
      BY <1>3, <3>3, <3>4
    <3>5. (Cursor + 1) % (m + 1) = Cursor + 1
      BY <1>3, <3>7, Modulo
    <3> QED
      BY <3>3, <3>4, <3>5
  <2>5. ASSUME ~(i + 1 < k), a = n PROVE Forth
    <3>1. b = [node |-> 0, index |-> 0]
      BY <1>9, <1>12, <2>5 DEF SlabAfter
    <3>2. CursorOf(b, slabs) = 0 /\ Marked(b, sml, slabs)
      BY <3>1 DEF CursorOf, Marked
    <3>3. Cursor = m
      <4>1. i = k - 1
        BY <2>1, <2>3, <2>5
      <4>2. o[a] = m
        BY <1>8, <2>5
      <4> QED
        BY <2>2, <2>3, <4>1, <4>2
    <3>4. (m + 1) % (m + 1) = 0
      BY <1>3, Modulo
    <3> QED
      BY <3>2, <3>3, <3>4
  <2>6. ASSUME ~(i + 1 < k), a # n PROVE Forth
    <3> DEFINE p == a + 1
    <3>1. b = [node |-> p, index |-> 0]
      BY <1>9, <1>12, <2>6 DEF SlabAfter
    <3>2. p \in 1 .. n /\ p - 1 = a
      BY <1>3, <2>1, <2>6
    <3> HIDE DEF p
    <3>3. 0 \in 0 .. slabs[p].s_elems - 1
      BY <1>5, <3>2
    <3>4. /\ Marked(b, sml, slabs) /\ CursorOf(b, slabs) = (o[a] + 0) + 1
          /\ (o[a] + 0) + 1 \in 1 .. m
      BY <1>10, <3>1, <3>2, <3>3
    <3>5. Cursor = o[a]
      <4>1. i = k - 1
        BY <2>1, <2>3, <2>6
      <4> QED
        BY <2>2, <2>3, <4>1
    <3>6. (o[a] + 0) + 1 = Cursor + 1 /\ Cursor + 1 \in 0 .. m
      BY <1>3, <2>3, <3>4, <3>5
    <3>7. (Cursor + 1) % (m + 1) = Cursor + 1
      BY <1>3, <3>6, Modulo
    <3> QED
      BY <3>4, <3>6, <3>7
  <2>7. ASSUME i > 0 PROVE Back
    <3>0. i \in Int /\ o[a - 1] \in Nat /\ a \in Nat
      BY <1>3, <2>1, <2>3
    <3>1. d = [node |-> a, index |-> i - 1]
      BY <1>9, <1>12, <2>7 DEF SlabBefore
    <3> DEFINE j == i - 1
    <3>2. j \in 0 .. k - 1
      BY <2>1, <2>3, <2>7
    <3> HIDE DEF j
    <3>3. /\ Marked(d, sml, slabs) /\ CursorOf(d, slabs) = (o[a - 1] + j) + 1
          /\ (o[a - 1] + j) + 1 \in 1 .. m
      BY <1>10, <2>1, <3>1, <3>2 DEF j
    <3>4. (o[a - 1] + j) + 1 = Cursor - 1
      <4> HIDE DEF a, i
      <4>1. Cursor \in Int
        BY <2>2, <3>0
      <4>2. j \in Int /\ j + 1 = i
        BY <3>0 DEF j
      <4>3. (o[a - 1] + j) + 1 = o[a - 1] + i
        BY <3>0, <4>2
      <4>4. o[a - 1] + i = Cursor - 1
        BY <2>2, <3>0, <4>1
      <4> QED
        BY <4>3, <4>4
    <3>5. Cursor - 1 \in 0 .. m
      BY <1>3, <3>3, <3>4
    <3>6. (Cursor - 1) % (m + 1) = Cursor - 1
      BY <1>3, <3>5, Modulo
    <3> QED
      BY <3>3, <3>4, <3>6
  <2>8. ASSUME i = 0, a = 1 PROVE Back
    <3>1. d = [node |-> 0, index |-> -1]
      BY <1>9, <1>12, <2>8 DEF SlabBefore
    <3>2. CursorOf(d, slabs) = 0 /\ Marked(d, sml, slabs)
      BY <3>1 DEF CursorOf, Marked
    <3>3. Cursor - 1 = 0
      BY <1>8, <2>2, <2>8
    <3>4. 0 % (m + 1) = 0
      BY <1>3, Modulo
    <3> QED
      BY <3>2, <3>3, <3>4
  <2>9. ASSUME i = 0, a # 1 PROVE Back
    <3> DEFINE p == a - 1
               q == slabs[p].s_elems - 1
    <3>1. d = [node |-> p, index |-> q]
      BY <1>3, <1>9, <1>12, <2>1, <2>9 DEF SlabBefore, LastOf
    <3>2. p \in 1 .. n /\ p - 1 \in 0 .. n
      BY <1>3, <2>1, <2>9
    <3>3. Cursor - 1 = o[p]
      BY <2>2, <2>3, <2>9
    <3> HIDE DEF p
    <3>4. o[p - 1] \in Nat /\ slabs[p].s_elems \in Nat /\ slabs[p].s_elems > 0
      BY <1>5, <1>7, <3>2
    <3>5. o[p] = o[p - 1] + slabs[p].s_elems
      BY <1>6, <3>2
    <3>6. q \in 0 .. slabs[p].s_elems - 1
      BY <3>4
    <3>7. (o[p - 1] + q) + 1 = o[p]
      BY <3>4, <3>5
    <3> HIDE DEF q
    <3>8. /\ Marked(d, sml, slabs) /\ CursorOf(d, slabs) = (o[p - 1] + q) + 1
          /\ (o[p - 1] + q) + 1 \in 1 .. m
      BY <1>10, <3>1, <3>2, <3>6
    <3>9. Cursor - 1 \in 0 .. m
      BY <1>3, <3>3, <3>7, <3>8
    <3>10. (Cursor - 1) % (m + 1) = Cursor - 1
      BY <1>3, <3>9, Modulo
    <3> QED
      BY <3>3, <3>7, <3>8, <3>10
  <2>10. Forth
    BY <2>4, <2>5, <2>6
  <2>11. Back
    <3>1. i > 0 \/ i = 0
      BY <2>1, <2>3
    <3> QED
      BY <2>7, <2>8, <2>9, <3>1
  <2> QED
    BY <2>10, <2>11
<1> QED
  BY <1>11, <1>12 DEF c

\* In the small form, the same by counting nodes.
LEMMA SmallSteps ==
    ASSUME OInv, slabs = <<>>, sl_elems > 0
    PROVE  /\ Marked(SmallAfter, sml, slabs)
           /\ CursorOf(SmallAfter, slabs) = (Cursor + 1) % (Len(Contents) + 1)
           /\ Marked(SmallBefore, sml, slabs)
           /\ CursorOf(SmallBefore, slabs) = (Cursor - 1) % (Len(Contents) + 1)
<1> DEFINE c == Contents
           m == Len(sml)
           a == bm.node
<1>1. Shaped(sml, slabs, sl_elems, c) /\ Marked(bm, sml, slabs)
  BY DEF OInv
<1> HIDE DEF c
<1>2. sml = c /\ sml \in Seq(Elem) /\ m \in Nat /\ m > 0 /\ sl_elems = m
  BY <1>1, ShapedFacts
<1>3. Cursor = a
  BY DEF Cursor, IS_SMALL_LIST
<1>4. a \in 0 .. m
  <2>1. CursorOf(bm, slabs) \in 0 .. sl_elems
    BY <1>1, CursorFacts
  <2> QED
    BY <1>2, <1>3, <2>1, CursorIs
<1>5. bm \in [node : Nat, index : Int] /\ DOMAIN sml = 1 .. m
  BY <1>1, <1>2, LenProperties DEF Marked
\* A node of the list, its mark and its cursor.
<1>6. ASSUME NEW p \in 0 .. m
      PROVE  /\ Marked([bm EXCEPT !.node = p], sml, slabs)
             /\ CursorOf([bm EXCEPT !.node = p], slabs) = p
  <2>1. /\ [bm EXCEPT !.node = p] \in [node : Nat, index : Int]
        /\ [bm EXCEPT !.node = p].node = p
    BY <1>2, <1>5
  <2>2. p = 0 \/ p \in DOMAIN sml
    BY <1>2, <1>5
  <2> QED
    BY <2>1, <2>2 DEF Marked, CursorOf
<1>7. Marked(SmallAfter, sml, slabs) /\ CursorOf(SmallAfter, slabs) = (a + 1) % (m + 1)
  <2> DEFINE p == IF a = m THEN 0 ELSE a + 1
  <2>1. p \in 0 .. m
    BY <1>2, <1>4
  <2>2. p = (a + 1) % (m + 1)
    <3>1. CASE a = m
      BY <1>2, <3>1, Modulo
    <3>2. CASE a # m
      <4>1. a + 1 \in 0 .. m
        BY <1>2, <1>4, <3>2
      <4> QED
        BY <1>2, <3>2, <4>1, Modulo
    <3> QED
      BY <3>1, <3>2
  <2>3. SmallAfter = [bm EXCEPT !.node = p]
    BY DEF SmallAfter
  <2> HIDE DEF p
  <2> QED
    BY <1>6, <2>1, <2>2, <2>3
<1>8. Marked(SmallBefore, sml, slabs) /\ CursorOf(SmallBefore, slabs) = (a - 1) % (m + 1)
  <2> DEFINE p == IF a = 0 THEN m ELSE a - 1
  <2>1. p \in 0 .. m
    BY <1>2, <1>4
  <2>2. p = (a - 1) % (m + 1)
    <3>1. CASE a = 0
      <4>1. a - 1 = -1
        BY <3>1
      <4> QED
        BY <1>2, <3>1, <4>1, Modulo
    <3>2. CASE a # 0
      <4>1. a - 1 \in 0 .. m
        BY <1>2, <1>4, <3>2
      <4> QED
        BY <1>2, <3>2, <4>1, Modulo
    <3> QED
      BY <3>1, <3>2
  <2>3. SmallBefore = [bm EXCEPT !.node = p]
    BY DEF SmallBefore
  <2> HIDE DEF p
  <2> QED
    BY <1>6, <2>1, <2>2, <2>3
<1> QED
  BY <1>2, <1>3, <1>7, <1>8 DEF c

-----------------------------------------------------------------------------
(* Every step keeps the invariant, and is a step of the sequence or none *)

\* The invariant, from what a call leaves.
LEMMA NextOInvFrom ==
    ASSUME OInv, NEW c, Shaped(sml', slabs', sl_elems', c), Marked(bm', sml', slabs'),
           Strays(slabs', sl_elems', freed'),
           sl_mslabs' = sl_mslabs, ret' \in [st : Status, elem : SUBSET Elem],
           crashed' = crashed
    PROVE  OInv' /\ Contents' = c
<1>1. Contents' = c
  BY NextContents
<1>2. Shaped(sml', slabs', sl_elems', Contents')
  BY <1>1
<1>3. crashed' \in BOOLEAN /\ (~Careless => crashed' = FALSE) /\ sl_mslabs' \in Nat
  BY DEF OInv
<1> QED
  BY <1>1, <1>2, <1>3 DEF OInv

\* Calls that change the list move no bookmark.
LEMMA ChangedOInv ==
    ASSUME OInv, NoWalk, bm' = bm, NEW c, Shaped(sml', slabs', sl_elems', c),
           Strays(slabs', sl_elems', freed'),
           sl_mslabs' = sl_mslabs, ret' \in [st : Status, elem : SUBSET Elem],
           crashed' = crashed
    PROVE  OInv' /\ Contents' = c /\ Cursor = 0 /\ Cursor' = 0
<1>1. Marked(bm', sml', slabs')
  BY DEF OInv, Marked, NoWalk
<1>2. OInv' /\ Contents' = c
  BY <1>1, NextOInvFrom
<1>3. Cursor = 0 /\ Cursor' = 0
  BY DEF Cursor, NoWalk
<1> QED
  BY <1>2, <1>3

LEMMA SameSequence ==
    ASSUME OInv, sml' = sml, slabs' = slabs, sl_elems' = sl_elems, freed' = freed
    PROVE  /\ Shaped(sml', slabs', sl_elems', Contents) /\ Contents' = Contents
           /\ Strays(slabs', sl_elems', freed')
<1>1. Shaped(sml', slabs', sl_elems', Contents)
  BY DEF OInv
<1>2. Strays(slabs', sl_elems', freed')
  BY DEF OInv
<1> QED
  BY <1>1, <1>2, NextContents

LEMMA CrashMaps ==
    ASSUME OInv, Careless, Crash
    PROVE  OInv' /\ UNCHANGED Seqn!vars
<1>1. /\ sml' = sml /\ slabs' = slabs /\ sl_elems' = sl_elems /\ sl_mslabs' = sl_mslabs
      /\ bm' = bm /\ ret' = ret /\ freed' = freed /\ crashed' = TRUE
  BY DEF Crash
<1>2. /\ Shaped(sml', slabs', sl_elems', Contents) /\ Contents' = Contents
      /\ Strays(slabs', sl_elems', freed')
  BY <1>1, SameSequence
<1>3. Cursor' = Cursor
  BY <1>1, CursorIs DEF Cursor, IS_SMALL_LIST
<1>4. Shaped(sml', slabs', sl_elems', Contents')
  BY <1>2
<1>5. /\ Marked(bm', sml', slabs') /\ sl_mslabs' \in Nat
      /\ ret' \in [st : Status, elem : SUBSET Elem]
      /\ crashed' \in BOOLEAN /\ (~Careless => crashed' = FALSE)
  BY <1>1 DEF OInv
<1>6. OInv'
  BY <1>2, <1>4, <1>5 DEF OInv
<1> QED
  BY <1>1, <1>2, <1>3, <1>6 DEF Seqn!vars

\* With careful clients, no call meets a pointer to a freed node.
LEMMA StrayCareless ==
    ASSUME OInv, freed # {}, sl_elems > 0 \/ ~(freed \subseteq {"sl_end"})
    PROVE  Careless
BY DEF OInv, Strays

LEMMA AddFreedMaps ==
    ASSUME OInv, AddFreed
    PROVE  OInv' /\ UNCHANGED Seqn!vars
<1>1. slabs = <<>> /\ ~EndUsable /\ Crash
  BY DEF AddFreed, IS_SMALL_LIST
<1>2. "sl_end" \in freed /\ ~(sml = <<>> /\ "sl_head" \notin freed)
  BY <1>1 DEF EndUsable
<1>3. sml # <<>> => sl_elems > 0
  <2>1. sml = Contents /\ sml \in Seq(Elem) /\ sl_elems = Len(sml)
    BY <1>1, ShapedFacts DEF OInv
  <2>2. Len(sml) \in Nat /\ (sml # <<>> => Len(sml) # 0)
    BY <2>1, EmptySeq, LenProperties
  <2> QED
    BY <2>1, <2>2
<1>4. Careless
  BY <1>2, <1>3, StrayCareless
<1> QED
  BY <1>1, <1>4, CrashMaps

\* An addition sets the end right, or has made the head's freed node the next of the
\* only one.
LEMMA AddStrays ==
    ASSUME OInv, NEW e \in Elem, AddSmall(e) \/ AddSlab(e)
    PROVE  Strays(slabs', sl_elems', freed')
<1>1. CASE AddSlab(e)
  BY <1>1, NoStrays DEF AddSlab
<1>2. CASE AddSmall(e)
  <2>1. /\ slabs' = <<>>
        /\ freed' = IF freed \subseteq {"sl_end"} THEN {} ELSE {"sml_next"}
    BY <1>2 DEF AddSmall, IS_SMALL_LIST
  <2>2. ~Careless => freed' = {}
    BY <2>1 DEF OInv, Strays
  <2> QED
    BY <2>1, <2>2 DEF Strays, Pointer
<1> QED
  BY <1>1, <1>2

LEMMA AddMaps ==
    ASSUME OInv, NEW e \in Elem, Add(e)
    PROVE  OInv' /\ (Seqn!Add(e) \/ UNCHANGED Seqn!vars)
<1> DEFINE d == Append(Contents, e)
<1>1. CASE AddFreed
  BY <1>1, AddFreedMaps
<1>2. CASE AddSmall(e) \/ AddSlab(e)
  <2>1. Shaped(sml', slabs', sl_elems', d) /\ Strays(slabs', sl_elems', freed')
    BY <1>2, AddSmallShaped, AddSlabShaped, AddStrays
  <2>2. /\ NoWalk /\ bm' = bm /\ sl_mslabs' = sl_mslabs /\ crashed' = crashed
        /\ ret' = Result("SUCCESS", {})
    BY <1>2 DEF Add, AddSmall, AddSlab
  <2>3. ret' \in [st : Status, elem : SUBSET Elem]
    <3>1. "SUCCESS" \in Status
      BY DEF Status
    <3> QED
      BY <2>2, <3>1, ResultType
  <2>4. OInv' /\ Contents' = d /\ Cursor = 0 /\ Cursor' = 0
    <3> HIDE DEF d
    <3> QED
      BY <2>1, <2>2, <2>3, ChangedOInv
  <2> QED
    BY <2>2, <2>4 DEF Seqn!Add, Seqn!Returns, Result
<1> QED
  BY <1>1, <1>2 DEF Add

\* A removal that returns `R' takes out the element at `p'.
LEMMA RemovalMaps ==
    ASSUME OInv, NEW p \in 0 .. Len(Contents) - 1,
           Shaped(sml', slabs', sl_elems', RemoveAt(Contents, p + 1)),
           Strays(slabs', sl_elems', freed'),
           NoWalk, bm' = bm, sl_mslabs' = sl_mslabs, crashed' = crashed,
           ret' = Result("SUCCESS", {}) \/ ret' = Result("SUCCESS", {Contents[p + 1]})
    PROVE  OInv' /\ Seqn!Rem(p)
<1> DEFINE c == Contents
           d == RemoveAt(c, p + 1)
<1>1. c \in Seq(Elem) /\ Len(c) \in Nat
  BY ShapedFacts DEF OInv
<1>2. c[p + 1] \in Elem
  <2> HIDE DEF c
  <2>1. p + 1 \in 1 .. Len(c)
    BY <1>1 DEF c
  <2> QED
    BY <1>1, <2>1, ElementOfSeq
<1>3. ret' \in [st : Status, elem : SUBSET Elem]
  <2>1. "SUCCESS" \in Status
    BY DEF Status
  <2>2. {c[p + 1]} \in SUBSET Elem
    BY <1>2
  <2> QED
    BY <2>1, <2>2, ResultType
<1>4. OInv' /\ Contents' = d /\ Cursor = 0 /\ Cursor' = 0
  <2> HIDE DEF d
  <2> QED
    BY <1>3, ChangedOInv DEF d
<1>5. p < Len(c)
  BY <1>1
<1> QED
  BY <1>4, <1>5 DEF Seqn!Rem, Seqn!Returns, Result, Seqn!RemoveAt, RemoveAt

\* What a removal of one node of `n' leaves dangling.
LEMMA StrayRemoval ==
    ASSUME NEW n \in Nat, NEW p \in 0 .. n - 1, freed \subseteq Pointer,
           ~Careless /\ n > 0 => freed = {}
    PROVE  Strays(<<>>, n - 1, FreedBy(n, p))
<1> DEFINE f == FreedBy(n, p)
<1>1. CASE n = 1
  <2>1. f = {"sl_end"} \union (IF "sml_next" \in freed THEN {"sl_head"} ELSE {})
    BY <1>1 DEF FreedBy
  <2>2. ~Careless => f = {"sl_end"}
    BY <1>1, <2>1
  <2>3. f \subseteq Pointer
    BY <2>1 DEF Pointer
  <2> HIDE DEF f
  <2> QED
    BY <1>1, <2>2, <2>3 DEF Strays, f
<1>2. CASE n > 1 /\ p = n - 1
  <2>1. f = IF "sml_next" \in freed THEN {"sml_next", "sl_end"} ELSE {}
    BY <1>2 DEF FreedBy
  <2>2. ~Careless => f = {}
    BY <1>2, <2>1
  <2>3. f \subseteq Pointer
    BY <2>1 DEF Pointer
  <2> HIDE DEF f
  <2> QED
    BY <2>2, <2>3 DEF Strays, f
<1>3. CASE n > 1 /\ p < n - 1
  <2>1. f = freed
    BY <1>3 DEF FreedBy
  <2> HIDE DEF f
  <2> QED
    BY <1>3, <2>1 DEF Strays, f
<1> QED
  BY <1>1, <1>2, <1>3

\* A removal from a small list leaves its end dangling at most when it empties it,
\* unless another pointer already was.
LEMMA RemSmallStrays ==
    ASSUME OInv, NEW pos \in Nat, RemSmall(pos)
    PROVE  Strays(slabs', sl_elems', freed')
<1> DEFINE l == RemBase.sml
           p == Wrapped(pos, Len(l))
<1>1. RemBase.slabs = <<>> /\ slabs' = <<>>
  BY DEF RemSmall
<1>2. l = Contents /\ Len(l) = sl_elems /\ sl_elems \in Nat
  <2>1. l = Contents
    BY <1>1, RemBaseShaped
  <2>2. sl_elems = Len(Contents) /\ sl_elems \in Nat
    BY ShapedFacts DEF OInv
  <2> HIDE DEF l
  <2> QED
    BY <2>1, <2>2
<1>3. \/ sl_elems' = Len(l) /\ freed' = freed
      \/ /\ l # <<>> /\ p < Len(l)
         /\ sl_elems' = Len(l) - 1 /\ freed' = FreedBy(Len(l), p)
  BY DEF RemSmall
<1>4. l # <<>> /\ p < Len(l) => p \in 0 .. Len(l) - 1
  <2>1. l # <<>> => Len(l) > 0
    <3>1. Contents \in Seq(Elem)
      BY ShapedFacts DEF OInv
    <3> HIDE DEF l
    <3> QED
      BY <1>2, <3>1, EmptySeq
  <2>2. Len(l) > 0 => p \in Nat
    BY <1>2, WrappedRange
  <2> QED
    BY <1>2, <2>1, <2>2
<1> DEFINE n == Len(l)
<1>5. n \in Nat /\ n = sl_elems
  BY <1>2
<1>6. freed \subseteq Pointer /\ (~Careless /\ n > 0 => freed = {})
  BY <1>5 DEF OInv, Strays
<1>7. Strays(<<>>, n, freed)
  BY <1>5 DEF OInv, Strays
<1>8. ASSUME p \in 0 .. n - 1 PROVE Strays(<<>>, n - 1, FreedBy(n, p))
  BY <1>8, <1>5, <1>6, StrayRemoval
<1> HIDE DEF l, p, n
<1> QED
  BY <1>1, <1>3, <1>4, <1>7, <1>8 DEF n

LEMMA RemMaps ==
    ASSUME OInv, NEW pos \in Nat, Rem(pos)
    PROVE  OInv' /\ (Seqn!Next \/ UNCHANGED Seqn!vars)
<1> DEFINE c == Contents
<1>1. NoWalk /\ (sl_elems > 0 /\ ~Careless => Wrapped(pos, sl_elems) < sl_elems)
  BY DEF Rem
<1>2. ASSUME NEW p \in 0 .. Len(c) - 1, Seqn!Rem(p) PROVE Seqn!Next
  BY <1>2 DEF Seqn!Next
<1>3. ASSUME RemSmall(pos) PROVE OInv' /\ Seqn!Next
  <2>1. /\ bm' = bm /\ sl_mslabs' = sl_mslabs /\ crashed' = crashed
        /\ Strays(slabs', sl_elems', freed')
    BY <1>3, RemSmallStrays DEF RemSmall
  <2>2. ASSUME Shaped(sml', slabs', sl_elems', c),
               ret' = Result(IF c = <<>> THEN "EMPTY" ELSE "ENCIRC", {})
        PROVE  OInv' /\ Seqn!Next
    <3>1. ret' \in [st : Status, elem : SUBSET Elem]
      <4>1. (IF c = <<>> THEN "EMPTY" ELSE "ENCIRC") \in Status /\ {} \in SUBSET Elem
        BY DEF Status
      <4> QED
        BY <2>2, <4>1, ResultType
    <3>2. OInv' /\ Contents' = c /\ Cursor = 0 /\ Cursor' = 0
      <4> HIDE DEF c
      <4> QED
        BY <1>1, <2>1, <2>2, <3>1, ChangedOInv
    <3>3. Seqn!RemRefused
      BY <2>2, <3>2 DEF Seqn!RemRefused, Seqn!Returns, Result
    <3> QED
      BY <3>2, <3>3 DEF Seqn!Next
  <2>3. ASSUME NEW p \in 0 .. Len(c) - 1,
               Shaped(sml', slabs', sl_elems', RemoveAt(c, p + 1)),
               ret' = Result("SUCCESS", {})
        PROVE  OInv' /\ Seqn!Next
    BY <1>1, <1>2, <2>1, <2>3, RemovalMaps
  <2> QED
    BY <1>3, <2>2, <2>3, RemSmallShaped
<1>4. ASSUME RemSlab(pos) PROVE OInv' /\ Seqn!Next
  <2>0. slabs # <<>> /\ freed' = freed
    BY <1>4, RemBaseShaped DEF RemSlab
  <2>1. /\ bm' = bm /\ sl_mslabs' = sl_mslabs /\ crashed' = crashed
        /\ Strays(slabs', sl_elems', freed')
    BY <1>4, <2>0, NoStrays DEF RemSlab, OInv, Strays
  <2>2. PICK p \in 0 .. Len(c) - 1 :
             /\ Shaped(sml', slabs', sl_elems', RemoveAt(c, p + 1))
             /\ ret' = Result("SUCCESS", {c[p + 1]})
    BY <1>4, RemSlabShaped
  <2> QED
    BY <1>1, <1>2, <2>1, <2>2, RemovalMaps
<1>5. ASSUME RemPast(pos) PROVE OInv' /\ UNCHANGED Seqn!vars
  BY <1>1, <1>5, RemPastCareless, CrashMaps
<1> QED
  BY <1>3, <1>4, <1>5 DEF Rem

LEMMA ReverseMaps ==
    ASSUME OInv, slablist_reverse
    PROVE  OInv' /\ (Seqn!Turn \/ UNCHANGED Seqn!vars)
<1> DEFINE d == Reverse(Contents)
<1>1. CASE ReverseFreed
  <2>1. freed # {} /\ ~(freed \subseteq {"sl_end"}) /\ Crash
    BY <1>1 DEF ReverseFreed
  <2> QED
    BY <2>1, StrayCareless, CrashMaps
<1>2. CASE ReverseList
  <2>1. Shaped(sml', slabs', sl_elems', d)
    BY <1>2, ReverseShaped DEF slablist_reverse
  <2>2. /\ NoWalk /\ bm' = bm /\ sl_mslabs' = sl_mslabs /\ crashed' = crashed
        /\ ret' = ret
    BY <1>2 DEF slablist_reverse, ReverseList
  <2>3. ret' \in [st : Status, elem : SUBSET Elem]
    BY <2>2 DEF OInv
  <2>4. Strays(slabs', sl_elems', freed')
    <3>1. /\ freed' = IF "sl_end" \in freed THEN {"sl_head"} ELSE {}
          /\ ~Careless => sl_elems > 0
      BY <1>2 DEF slablist_reverse, ReverseList
    <3>2. slabs' # <<>> => slabs # <<>>
      BY <1>2, TurnedNothing DEF ReverseList, Turned
    <3>3. slabs' # <<>> => freed' = {}
      BY <3>1, <3>2 DEF OInv, Strays
    <3>4. ~Careless => freed' = {}
      BY <3>1 DEF OInv, Strays
    <3> QED
      BY <3>1, <3>3, <3>4 DEF Strays, Pointer
  <2>5. OInv' /\ Contents' = d /\ Cursor = 0 /\ Cursor' = 0
    <3> HIDE DEF d
    <3> QED
      BY <2>1, <2>2, <2>3, <2>4, ChangedOInv
  <2> QED
    BY <2>2, <2>5 DEF Seqn!Turn, Seqn!Reverse, Reverse
<1> QED
  BY <1>1, <1>2 DEF slablist_reverse

LEMMA ReapMaps ==
    ASSUME OInv, Reap
    PROVE  OInv' /\ UNCHANGED Seqn!vars
<1>1. Shaped(sml', slabs', sl_elems', Contents)
  BY ReapShaped
<1>r. Strays(slabs', sl_elems', freed')
  <2>1. /\ freed' = freed /\ sl_elems' = sl_elems
        /\ slabs' = IF slabs = <<>> THEN slabs ELSE slablist_reap(slabs)
    BY DEF Reap, IS_SMALL_LIST
  <2> QED
    BY <2>1 DEF OInv, Strays
<1>2. /\ NoWalk /\ bm' = bm /\ sl_mslabs' = sl_mslabs /\ crashed' = crashed /\ ret' = ret
  BY DEF Reap
<1>3. ret' \in [st : Status, elem : SUBSET Elem]
  BY <1>2 DEF OInv
<1>4. OInv' /\ Contents' = Contents /\ Cursor = 0 /\ Cursor' = 0
  <2> DEFINE c == Contents
  <2> HIDE DEF c
  <2>1. Shaped(sml', slabs', sl_elems', c)
    BY <1>1 DEF c
  <2>2. OInv' /\ Contents' = c /\ Cursor = 0 /\ Cursor' = 0
    BY <1>2, <1>3, <1>r, <2>1, ChangedOInv
  <2> QED
    BY <2>2 DEF c
<1> QED
  BY <1>2, <1>4 DEF Seqn!vars

LEMMA RestartMaps ==
    ASSUME OInv, slablist_bm_create
    PROVE  OInv' /\ Seqn!Restart
<1>1. /\ bm' = [node |-> 0, index |-> 0] /\ sml' = sml /\ slabs' = slabs
      /\ sl_elems' = sl_elems /\ sl_mslabs' = sl_mslabs /\ ret' = ret /\ freed' = freed
      /\ crashed' = crashed
  BY DEF slablist_bm_create
<1>2. /\ Shaped(sml', slabs', sl_elems', Contents) /\ Contents' = Contents
      /\ Strays(slabs', sl_elems', freed')
  BY <1>1, SameSequence
<1>3. Marked(bm', sml', slabs')
  BY <1>1 DEF Marked
<1>4. Cursor' = 0
  BY <1>1 DEF Cursor
<1>5. ret' \in [st : Status, elem : SUBSET Elem]
  BY <1>1 DEF OInv
<1>6. OInv'
  BY <1>1, <1>2, <1>3, <1>5, NextOInvFrom
<1> QED
  BY <1>1, <1>2, <1>4, <1>6 DEF Seqn!Restart

\* slablist_cur returns the element that the cursor of a bookmark counts to.
LEMMA CurExact ==
    ASSUME OInv, NEW b, Marked(b, sml, slabs), b.node # 0
    PROVE  slablist_cur(b) = {Contents[CursorOf(b, slabs)]}
<1> DEFINE c == Contents
           k == CursorOf(b, slabs)
<1>1. Shaped(sml, slabs, sl_elems, c)
  BY DEF OInv
<1>2. CASE slabs = <<>>
  <2>1. sml[b.node] = c[k]
    BY <1>1, <1>2, CursorFacts
  <2> QED
    BY <1>2, <2>1 DEF slablist_cur, IS_SMALL_LIST
<1>3. CASE slabs # <<>>
  <2>1. slabs[b.node].s_arr[b.index] = c[k]
    BY <1>1, <1>3, CursorFacts
  <2> QED
    BY <1>3, <2>1 DEF slablist_cur, IS_SMALL_LIST
<1> QED
  BY <1>2, <1>3

\* A move of the bookmark returns the element at its new cursor, or END.
LEMMA MoveMaps ==
    ASSUME OInv, NEW b, Marked(b, sml, slabs), MoveTo(b)
    PROVE  /\ OInv' /\ Contents' = Contents /\ Cursor' = CursorOf(b, slabs)
           /\ IF Cursor' = 0 THEN Seqn!Returns("END", {})
              ELSE Seqn!Returns("SUCCESS", {Contents[Cursor']})
<1> DEFINE c == Contents
           k == CursorOf(b, slabs)
<1>1. /\ bm' = b /\ sml' = sml /\ slabs' = slabs /\ sl_elems' = sl_elems
      /\ sl_mslabs' = sl_mslabs /\ freed' = freed /\ crashed' = crashed
      /\ ret' = Result(IF b.node = 0 THEN "END" ELSE "SUCCESS", slablist_cur(b))
  BY DEF MoveTo
<1>2. /\ Shaped(sml', slabs', sl_elems', Contents) /\ Contents' = Contents
      /\ Strays(slabs', sl_elems', freed')
  BY <1>1, SameSequence
<1>3. Cursor' = k
  BY <1>1 DEF Cursor, CursorOf, IS_SMALL_LIST
<1>4. Shaped(sml, slabs, sl_elems, c)
  BY DEF OInv
<1>5. c \in Seq(Elem) /\ sl_elems = Len(c)
  BY <1>4, ShapedFacts
<1>6. ASSUME b.node = 0
      PROVE  k = 0 /\ ret' = Result("END", {})
  BY <1>1, <1>6 DEF CursorOf, slablist_cur
<1>7. ASSUME b.node # 0
      PROVE  k \in 1 .. Len(c) /\ ret' = Result("SUCCESS", {c[k]})
  <2>1. k \in 0 .. Len(c) /\ k # 0
    BY <1>4, <1>5, <1>7, CursorFacts
  <2>2. slablist_cur(b) = {c[k]}
    BY <1>7, CurExact
  <2>3. ret' = Result("SUCCESS", {c[k]})
    BY <1>1, <1>7, <2>2
  <2>4. Len(c) \in Nat
    BY <1>5, LenProperties
  <2> QED
    BY <2>1, <2>3, <2>4
<1> HIDE DEF c, k
<1>8. ret' \in [st : Status, elem : SUBSET Elem]
  <2>1. "END" \in Status /\ "SUCCESS" \in Status
    BY DEF Status
  <2>2. ASSUME k \in 1 .. Len(c) PROVE {c[k]} \in SUBSET Elem
    BY <1>5, <2>2, ElementOfSeq
  <2> QED
    BY <1>6, <1>7, <2>1, <2>2, ResultType
<1>9. OInv'
  BY <1>1, <1>2, <1>8, NextOInvFrom
<1>10. /\ Cursor' = 0 => Seqn!Returns("END", {})
       /\ Cursor' # 0 => Seqn!Returns("SUCCESS", {Contents[Cursor']})
  <2>1. CASE b.node = 0
    BY <1>3, <1>6, <2>1 DEF Seqn!Returns, Result
  <2>2. CASE b.node # 0
    <3>1. k # 0
      BY <1>5, <1>7, <2>2
    <3> QED
      BY <1>3, <1>7, <2>2, <3>1 DEF Seqn!Returns, Result, c
  <2> QED
    BY <2>1, <2>2
<1> QED
  BY <1>2, <1>3, <1>9, <1>10 DEF k

\* The sequence is empty exactly if the counter is 0.
LEMMA CountedSequence ==
    ASSUME OInv
    PROVE  /\ Contents \in Seq(Elem) /\ sl_elems = Len(Contents) /\ sl_elems \in Nat
           /\ sl_elems > 0 => Contents # <<>>
<1>1. Contents \in Seq(Elem) /\ sl_elems = Len(Contents) /\ sl_elems \in Nat
  BY ShapedFacts DEF OInv
<1>2. Contents = <<>> => Len(Contents) = 0
  BY EmptySeq
<1> QED
  BY <1>1, <1>2

LEMMA ForthMaps ==
    ASSUME OInv, slablist_next
    PROVE  OInv' /\ (Seqn!Forth \/ UNCHANGED Seqn!vars)
<1>1. CASE WalkEmpty
  BY <1>1, CrashMaps DEF WalkEmpty
<1>2. CASE sl_elems > 0 /\ MoveTo(IF IS_SMALL_LIST THEN SmallAfter ELSE SlabAfter)
  <2>1. PICK b : /\ b = IF slabs = <<>> THEN SmallAfter ELSE SlabAfter
                 /\ MoveTo(b)
    BY <1>2 DEF IS_SMALL_LIST
  <2>2. Marked(b, sml, slabs) /\ CursorOf(b, slabs) = (Cursor + 1) % (Len(Contents) + 1)
    BY <1>2, <2>1, SmallSteps, SlabSteps
  <2>3. /\ OInv' /\ Contents' = Contents /\ Cursor' = CursorOf(b, slabs)
        /\ IF Cursor' = 0 THEN Seqn!Returns("END", {})
           ELSE Seqn!Returns("SUCCESS", {Contents[Cursor']})
    BY <2>1, <2>2, MoveMaps
  <2>4. Contents # <<>>
    BY <1>2, CountedSequence
  <2> QED
    BY <2>2, <2>3, <2>4 DEF Seqn!Forth
<1>3. CASE WalkFreed(NextFreed)
  <2>1. sl_elems > 0 /\ freed # {} /\ Crash
    BY <1>3 DEF WalkFreed, NextFreed
  <2> QED
    BY <2>1, StrayCareless, CrashMaps
<1> QED
  BY <1>1, <1>2, <1>3 DEF slablist_next

\* In a list of one element that is in slab form, slablist_prev goes to NULL: the
\* place past either end, that slablist_next goes to as well.
LEMMA BackMaps ==
    ASSUME OInv, slablist_prev
    PROVE  OInv' /\ (Seqn!Back \/ Seqn!Forth \/ UNCHANGED Seqn!vars)
<1>1. CASE WalkEmpty
  BY <1>1, CrashMaps DEF WalkEmpty
<1>2. CASE PrevStays
  <2>1. /\ slabs = <<>> /\ sl_elems = 1 /\ bm.node = 1 /\ ret' = Result("END", {})
        /\ sml' = sml /\ slabs' = slabs /\ sl_elems' = sl_elems
        /\ sl_mslabs' = sl_mslabs /\ bm' = bm /\ freed' = freed /\ crashed' = crashed
    BY <1>2 DEF PrevStays, IS_SMALL_LIST
  <2>2. /\ Shaped(sml', slabs', sl_elems', Contents) /\ Contents' = Contents
        /\ Strays(slabs', sl_elems', freed')
    BY <2>1, SameSequence
  <2>3. Marked(bm', sml', slabs')
    BY <2>1 DEF OInv
  <2>4. ret' \in [st : Status, elem : SUBSET Elem]
    <3>1. "END" \in Status
      BY DEF Status
    <3> QED
      BY <2>1, <3>1, ResultType
  <2>5. OInv'
    BY <2>1, <2>2, <2>3, <2>4, NextOInvFrom
  <2>6. Cursor = 1 /\ Cursor' = 1
    BY <2>1 DEF Cursor, IS_SMALL_LIST
  <2>7. Contents # <<>> /\ Len(Contents) = 1
    BY <2>1, CountedSequence
  <2>8. Seqn!Back
    BY <2>1, <2>2, <2>6, <2>7 DEF Seqn!Back, Seqn!Returns, Result
  <2> QED
    BY <2>5, <2>8
<1>3. CASE /\ sl_elems > 0 /\ ~(IS_SMALL_LIST /\ sl_elems = 1 /\ bm.node = 1)
           /\ MoveTo(IF IS_SMALL_LIST THEN SmallBefore ELSE SlabBefore)
  <2>1. PICK b : /\ b = IF slabs = <<>> THEN SmallBefore ELSE SlabBefore
                 /\ MoveTo(b)
    BY <1>3 DEF IS_SMALL_LIST
  <2>2. Marked(b, sml, slabs) /\ CursorOf(b, slabs) = (Cursor - 1) % (Len(Contents) + 1)
    BY <1>3, <2>1, SmallSteps, SlabSteps
  <2>3. /\ OInv' /\ Contents' = Contents /\ Cursor' = CursorOf(b, slabs)
        /\ IF Cursor' = 0 THEN Seqn!Returns("END", {})
           ELSE Seqn!Returns("SUCCESS", {Contents[Cursor']})
    BY <2>1, <2>2, MoveMaps
  <2>4. Contents # <<>>
    BY <1>3, CountedSequence
  <2>5. CASE Cursor = 1 /\ Len(Contents) = 1
    <3>1. Cursor' = (Cursor + 1) % (Len(Contents) + 1)
      <4>1. (1 - 1) % (1 + 1) = (1 + 1) % (1 + 1)
        OBVIOUS
      <4> QED
        BY <2>2, <2>3, <2>5, <4>1
    <3> QED
      BY <2>3, <2>4, <3>1 DEF Seqn!Forth
  <2>6. CASE ~(Cursor = 1 /\ Len(Contents) = 1)
    BY <2>2, <2>3, <2>4, <2>6 DEF Seqn!Back
  <2> QED
    BY <2>5, <2>6
<1>4. CASE WalkFreed(PrevFreed)
  <2>1. sl_elems > 0 /\ freed # {} /\ Crash
    BY <1>4 DEF WalkFreed, PrevFreed
  <2> QED
    BY <2>1, StrayCareless, CrashMaps
<1> QED
  BY <1>1, <1>2, <1>3, <1>4 DEF slablist_prev

LEMMA StepMaps == OInv /\ [Next]_vars => OInv' /\ [Seqn!Next]_(Seqn!vars)
<1> SUFFICES ASSUME OInv, [Next]_vars
             PROVE  OInv' /\ (Seqn!Next \/ UNCHANGED Seqn!vars)
  OBVIOUS
<1>1. ASSUME NEW e \in Elem, Add(e) PROVE OInv' /\ (Seqn!Next \/ UNCHANGED Seqn!vars)
  BY <1>1, AddMaps DEF Seqn!Next, Seqn!Elem, Elem
<1>2. ASSUME NEW pos \in 0 .. sl_elems + 2, Rem(pos)
      PROVE  OInv' /\ (Seqn!Next \/ UNCHANGED Seqn!vars)
  <2>1. pos \in Nat
    BY CountedSequence
  <2> QED
    BY <1>2, <2>1, RemMaps
<1>3. ASSUME slablist_reverse PROVE OInv' /\ (Seqn!Next \/ UNCHANGED Seqn!vars)
  BY <1>3, ReverseMaps DEF Seqn!Next
<1>4. ASSUME Reap PROVE OInv' /\ UNCHANGED Seqn!vars
  BY <1>4, ReapMaps
<1>5. ASSUME slablist_bm_create PROVE OInv' /\ Seqn!Next
  BY <1>5, RestartMaps DEF Seqn!Next
<1>6. ASSUME slablist_next PROVE OInv' /\ (Seqn!Next \/ UNCHANGED Seqn!vars)
  BY <1>6, ForthMaps DEF Seqn!Next
<1>7. ASSUME slablist_prev PROVE OInv' /\ (Seqn!Next \/ UNCHANGED Seqn!vars)
  BY <1>7, BackMaps DEF Seqn!Next
<1>8. ASSUME UNCHANGED vars PROVE OInv' /\ UNCHANGED Seqn!vars
  <2>1. /\ sml' = sml /\ slabs' = slabs /\ sl_elems' = sl_elems
        /\ sl_mslabs' = sl_mslabs /\ bm' = bm /\ ret' = ret /\ freed' = freed
        /\ crashed' = crashed
    BY <1>8 DEF vars
  <2>2. /\ Shaped(sml', slabs', sl_elems', Contents) /\ Contents' = Contents
        /\ Strays(slabs', sl_elems', freed')
    BY <2>1, SameSequence
  <2>3. Marked(bm', sml', slabs') /\ ret' \in [st : Status, elem : SUBSET Elem]
    BY <2>1 DEF OInv
  <2>4. OInv'
    BY <2>1, <2>2, <2>3, NextOInvFrom
  <2>5. Cursor' = Cursor
    BY <2>1 DEF Cursor, IS_SMALL_LIST
  <2> QED
    BY <2>1, <2>2, <2>4, <2>5 DEF Seqn!vars
<1> QED
  BY <1>1, <1>2, <1>3, <1>4, <1>5, <1>6, <1>7, <1>8 DEF Next

LEMMA OInvariance == Spec => []OInv
<1>1. Init => OInv
  BY InitOInv
<1>2. OInv /\ [Next]_vars => OInv'
  BY StepMaps
<1> QED
  BY <1>1, <1>2, PTL DEF Spec

-----------------------------------------------------------------------------
(* What every client can rely on *)

\* Whatever calls a client makes, up to the first that follows a bad pointer: the list
\* is in one of its two forms, every slab of the chain is a slab, only a small list has
\* pointers to freed nodes, and a bookmark under way is at a node of the small list, or
\* at a live index of a slab.
THEOREM OrderedTypeCorrect == Spec => []TypeOK
<1>1. OInv => TypeOK
  <2> SUFFICES ASSUME OInv PROVE TypeOK
    OBVIOUS
  <2>1. Shaped(sml, slabs, sl_elems, Contents)
    BY DEF OInv
  <2>2. /\ sml \in Seq(Elem) /\ slabs \in Seq(Slab) /\ sl_elems \in Nat
        /\ (sml = <<>> \/ slabs = <<>>)
    <3>1. slabs = <<>> \/ slabs # <<>>
      OBVIOUS
    <3> QED
      BY <2>1, <3>1, ShapedFacts
  <2>3. bm.index \in Int
    BY DEF OInv, Marked
  <2>4. freed \subseteq Pointer /\ (slabs # <<>> => freed = {})
    BY DEF OInv, Strays
  <2> QED
    BY <2>2, <2>3, <2>4 DEF TypeOK, OInv, Marked
<1> QED
  BY <1>1, OInvariance, PTL

\* Whatever is added, removed, reversed or reaped, no two neighbouring slabs of an
\* ordered list fit into one.
THEOREM OrderedNeighboursStayUnmergeable == Spec => []NeighboursUnmergeable
<1>1. OInv => NeighboursUnmergeable
  BY DEF OInv, Shaped, Chain, Packed, NeighboursUnmergeable
<1> QED
  BY <1>1, OInvariance, PTL

\* slablist_get finds the element at the position that it counts to.
LEMMA GetFinds ==
    ASSUME OInv, NEW pos, Wrapped(pos, sl_elems) \in 0 .. sl_elems - 1
    PROVE  slablist_get(pos) = Contents[Wrapped(pos, sl_elems) + 1]
<1> DEFINE c == Contents
           p == Wrapped(pos, sl_elems)
<1>1. Shaped(sml, slabs, sl_elems, c)
  BY DEF OInv
<1>2. c \in Seq(Elem) /\ slabs \in Seq(Slab) /\ sl_elems = Len(c)
  BY <1>1, ShapedFacts
<1>3. p \in 0 .. Len(c) - 1
  BY <1>2
<1>4. CASE slabs = <<>>
  BY <1>1, <1>4, ShapedFacts DEF slablist_get, IS_SMALL_LIST
<1>5. CASE slabs # <<>>
  <2>a. Holds(slabs, c, ~Reversing)
    BY <1>1, <1>5, ShapedFacts
  <2>1. PICK o : Lays(slabs, c, o)
    BY <2>a DEF Holds
  <2> DEFINE at == slab_get_elem_pos(slabs, p)
  <2>2. slablist_get(pos) = slabs[at.slab].s_arr[at.off_pos]
    BY <1>5 DEF slablist_get, IS_SMALL_LIST
  <2>3. slabs[at.slab].s_arr[at.off_pos] = c[p + 1]
    <3> HIDE DEF p, c
    <3> QED
      BY <1>2, <1>3, <2>1, slab_get_elem_posFinds
  <2> QED
    BY <2>2, <2>3
<1> QED
  BY <1>4, <1>5

\* Until a call follows a bad pointer, slablist_get returns the element at its position,
\* across slabs and in either form, and counts round in a circular list; slablist_cur returns the element
\* that the bookmark has walked to.
THEOREM PositionsStayExact == Spec => []GetExact
<1>1. OInv => GetExact
  <2> SUFFICES ASSUME OInv PROVE GetExact
    OBVIOUS
  <2> DEFINE n == sl_elems
  <2>0. n \in Nat
    BY CountedSequence
  <2>1. ASSUME NEW pos \in 0 .. n - 1
        PROVE  slablist_get(pos) = Contents[pos + 1]
    <3>1. Wrapped(pos, n) = pos
      BY <2>0 DEF Wrapped
    <3> QED
      BY <3>1, GetFinds
  <2>2. ASSUME CIRCULAR, NEW pos \in n + 1 .. 2 * n
        PROVE  slablist_get(pos) = Contents[(pos % n) + 1]
    <3>1. Wrapped(pos, n) = pos % n
      BY <2>0, <2>2 DEF Wrapped
    <3>2. n > 0 /\ pos \in Nat
      BY <2>0
    <3>3. pos % n \in 0 .. n - 1
      BY <2>0, <3>2, Modulo
    <3> QED
      BY <3>1, <3>3, GetFinds
  <2>3. bm.node # 0 => slablist_cur(bm) = {Contents[Cursor]}
    BY CurExact, CursorIs DEF OInv
  <2> QED
    BY <2>1, <2>2, <2>3 DEF GetExact
<1> QED
  BY <1>1, OInvariance, PTL

\* An ordered list implements a sequence with a cursor: every call takes effect at
\* once as an append, a removal at a position, a reversal or a step of the cursor,
\* and changes of form, merging and reaping are not to be seen.  A call that follows
\* NULL, a stray pointer or a freed node, of careless clients only, ends the behaviour.
THEOREM ListIsSequence == Spec => ImplementsElemSequence
<1>1. Init => Seqn!Init
  <2> SUFFICES ASSUME Init PROVE Seqn!Init
    OBVIOUS
  <2>1. Contents = <<>>
    BY InitOInv
  <2>2. Cursor = 0
    BY DEF Init, Cursor
  <2> QED
    BY <2>1, <2>2 DEF Init, Seqn!Init, Result
<1>2. OInv /\ [Next]_vars => [Seqn!Next]_(Seqn!vars)
  BY StepMaps
<1> QED
  BY <1>1, <1>2, OInvariance, PTL DEF Spec, ImplementsElemSequence, Seqn!Spec

\* As long as nobody reverses the list, the cached extrema of every slab are its
\* first and last element, and slablist_head and slablist_end, which read them,
\* return the first and last element of the list.
THEOREM OrderedExtremaStayExact ==
    ASSUME ~Reversing
    PROVE  Spec => []ExtremaExact
<1>1. OInv => ExtremaExact
  <2> SUFFICES ASSUME OInv PROVE ExtremaExact
    OBVIOUS
  <2> DEFINE c == Contents
             n == Len(slabs)
  <2>1. Shaped(sml, slabs, sl_elems, c)
    BY DEF OInv
  <2>2. /\ c \in Seq(Elem) /\ slabs \in Seq(Slab) /\ Chain(slabs) /\ n \in Nat
        /\ sl_elems = Len(c)
    BY <2>1, ShapedFacts
  <2>3. CASE slabs = <<>>
    <3>1. sml = c
      BY <2>1, <2>3, ShapedFacts
    <3>2. DOMAIN slabs = {}
      BY <2>3
    <3> QED
      BY <2>2, <2>3, <3>1, <3>2 DEF ExtremaExact, slablist_head, slablist_end, IS_SMALL_LIST
  <2>4. CASE slabs # <<>>
    <3>1. Holds(slabs, c, TRUE) /\ n > 0
      BY <2>1, <2>4, ShapedFacts
    <3> HIDE DEF c
    <3>2. PICK o : Lays(slabs, c, o)
      BY <3>1 DEF Holds
    <3>3. \A a \in 1 .. n : slabs[a].s_elems > 0 /\ slabs[a].s_elems \in Nat
      BY <2>2, SlabAt DEF Chain
    <3>4. \A a \in 1 .. n : Capped(slabs[a], TRUE)
      BY <3>1, HoldsFacts
    <3>5. \A a \in 1 .. n : /\ slabs[a].s_min = slabs[a].s_arr[0]
                            /\ slabs[a].s_max = slabs[a].s_arr[slabs[a].s_elems - 1]
      BY <3>3, <3>4 DEF Capped, StandsFor
    <3>6. 1 \in 1 .. n /\ n \in 1 .. n /\ 1 - 1 = 0
      BY <2>2, <3>1
    <3>7. slabs[1].s_arr[0] = c[1]
      <4>1. Continues(c, o[1 - 1], slabs[1])
        BY <2>2, <3>2, <3>6, LaysFacts
      <4>2. o[0] = 0
        BY <2>2, <3>2, LaysFacts
      <4>3. c[(0 + 0) + 1] = slabs[1].s_arr[0]
        BY <3>3, <3>6, <4>1, <4>2 DEF Continues
      <4> QED
        BY <4>3
    <3>8. slabs[n].s_arr[slabs[n].s_elems - 1] = c[Len(c)]
      <4> DEFINE k == slabs[n].s_elems
      <4>1. Continues(c, o[n - 1], slabs[n])
        BY <2>2, <3>2, <3>6, LaysFacts
      <4>2. o[n] = o[n - 1] + k
        BY <2>2, <3>2, <3>6, LaysFacts
      <4>3. o[n] = Len(c)
        BY <2>2, <3>2, LaysFacts
      <4>4. o[n - 1] \in Nat
        <5>1. n - 1 \in 0 .. n
          BY <2>2, <3>1
        <5> QED
          BY <2>2, <3>2, <5>1, LaysFacts
      <4>5. k - 1 \in 0 .. k - 1 /\ k \in Nat
        BY <3>3, <3>6
      <4>6. c[(o[n - 1] + (k - 1)) + 1] = slabs[n].s_arr[k - 1]
        BY <4>1, <4>5 DEF Continues
      <4>7. (o[n - 1] + (k - 1)) + 1 = Len(c)
        BY SMTT(60), <4>2, <4>3, <4>4, <4>5
      <4> QED
        BY <4>6, <4>7
    <3>9. DOMAIN slabs = 1 .. n
      BY <2>2, SlabAt
    <3>10. slablist_head = c[1] /\ slablist_end = c[sl_elems]
      BY <2>2, <2>4, <3>5, <3>6, <3>7, <3>8 DEF slablist_head, slablist_end, IS_SMALL_LIST
    <3> QED
      BY <3>5, <3>9, <3>10 DEF ExtremaExact, c
  <2> QED
    BY <2>3, <2>4
<1> QED
  BY <1>1, OInvariance, PTL

\* Clients who pass no position past the end, and neither walk nor reverse an empty
\* list, never make a call dereference a bad pointer: the sl_end that a removal of the
\* last element leaves at a freed node is set anew before it is used.
THEOREM OrderedNeverCrashes ==
    ASSUME ~Careless
    PROVE  Spec => []NeverCrashes
<1>1. OInv => NeverCrashes
  BY DEF OInv, NeverCrashes
<1> QED
  BY <1>1, OInvariance, PTL

-----------------------------------------------------------------------------
(* Sorting.  SortExact tells equal elements apart by the position they had:   *)
(* the list that is sorted holds naturals as values.  Srt is the module of    *)
(* the proofs about sorting with those values; its operators are those of     *)
(* Tmp, definition by definition.                                             *)

Srt == INSTANCE SlabSortProofs WITH Val <- Nat

\* The shifts inside a slab.
LEMMA SameShift ==
    /\ \A s, e, i : Srt!add_elem(s, e, i) = Tmp!add_elem(s, e, i)
    /\ Srt!mk_slab = Tmp!mk_slab
    /\ \A s : Srt!DropLast(s) = Tmp!DropLast(s)
    /\ \A s : Srt!DropFirst(s) = Tmp!DropFirst(s)
    /\ \A ls, a : Srt!HasRoom(ls, a) <=> Tmp!HasRoom(ls, a)
    /\ \A ls, p, e : Srt!InsertAt(ls, p, e) = Tmp!InsertAt(ls, p, e)
    /\ \A l : Srt!small_list_to_slab(l) = Tmp!small_list_to_slab(l)
<1>1. \A s, e, i : Srt!add_elem(s, e, i) = Tmp!add_elem(s, e, i)
  BY DEF Srt!add_elem, Tmp!add_elem, Srt!Index, Tmp!Index
<1>2. Srt!mk_slab = Tmp!mk_slab
  BY DEF Srt!mk_slab, Tmp!mk_slab, Srt!Index, Tmp!Index, Srt!NoElem, Tmp!NoElem
<1>3. \A s : Srt!DropLast(s) = Tmp!DropLast(s)
  BY DEF Srt!DropLast, Tmp!DropLast
<1>4. \A s : Srt!DropFirst(s) = Tmp!DropFirst(s)
  BY DEF Srt!DropFirst, Tmp!DropFirst, Srt!Index, Tmp!Index
<1>5. \A ls, a : Srt!HasRoom(ls, a) <=> Tmp!HasRoom(ls, a)
  BY DEF Srt!HasRoom, Tmp!HasRoom
<1>6. \A ls, p, e : Srt!InsertAt(ls, p, e) = Tmp!InsertAt(ls, p, e)
  BY DEF Srt!InsertAt, Tmp!InsertAt
<1>7. \A l : Srt!small_list_to_slab(l) = Tmp!small_list_to_slab(l)
  BY DEF Srt!small_list_to_slab, Tmp!small_list_to_slab, Srt!Index, Tmp!Index,
         Srt!NoElem, Tmp!NoElem
<1> QED
  BY <1>1, <1>2, <1>3, <1>4, <1>5, <1>6, <1>7

\* The spills into a neighbour.
LEMMA SameSpill ==
    /\ \A ls, a, e, q : Srt!addsn(ls, a, e, q) = Tmp!addsn(ls, a, e, q)
    /\ \A ls, a, e, q : Srt!addsp(ls, a, e, q) = Tmp!addsp(ls, a, e, q)
<1>1. ASSUME NEW ls, NEW a, NEW e, NEW q
      PROVE  Srt!addsn(ls, a, e, q) = Tmp!addsn(ls, a, e, q)
  BY DEF Srt!addsn, Tmp!addsn, Srt!add_elem, Tmp!add_elem, Srt!DropLast, Tmp!DropLast,
         Srt!Index, Tmp!Index
<1>2. ASSUME NEW ls, NEW a, NEW e, NEW q
      PROVE  Srt!addsp(ls, a, e, q) = Tmp!addsp(ls, a, e, q)
  BY DEF Srt!addsp, Tmp!addsp, Srt!add_elem, Tmp!add_elem, Srt!DropFirst, Tmp!DropFirst,
         Srt!Index, Tmp!Index
<1> QED
  BY <1>1, <1>2

\* The searches for a slab and for a slot.
LEMMA SameSearch ==
    /\ \A k, s : Srt!slab_get_last_elem(k, s) = Tmp!slab_get_last_elem(k, s)
    /\ \A k, s : Srt!sl_bnd_elem(k, s) = Tmp!sl_bnd_elem(k, s)
    /\ \A ls, k : Srt!find_linear_scan(ls, k) = Tmp!find_linear_scan(ls, k)
    /\ \A ls, k, a : Srt!list_get_last_slab(ls, k, a) = Tmp!list_get_last_slab(ls, k, a)
<1>1. \A k, s : Srt!slab_get_last_elem(k, s) = Tmp!slab_get_last_elem(k, s)
  BY DEF Srt!slab_get_last_elem, Tmp!slab_get_last_elem, Srt!Min, Tmp!Min
<1>2. \A k, s : Srt!sl_bnd_elem(k, s) = Tmp!sl_bnd_elem(k, s)
  BY DEF Srt!sl_bnd_elem, Tmp!sl_bnd_elem
<1>3. \A ls, k : Srt!find_linear_scan(ls, k) = Tmp!find_linear_scan(ls, k)
  BY DEF Srt!find_linear_scan, Tmp!find_linear_scan, Srt!Min, Tmp!Min
<1>4. \A ls, k, a : Srt!list_get_last_slab(ls, k, a) = Tmp!list_get_last_slab(ls, k, a)
  BY DEF Srt!list_get_last_slab, Tmp!list_get_last_slab, Srt!Max, Tmp!Max,
         Srt!sl_bnd_elem, Tmp!sl_bnd_elem
<1> QED
  BY <1>1, <1>2, <1>3, <1>4

\* The scan that slablist_sort adds to them.
LEMMA SameScan ==
    \A ls, k : Srt!SortScan(ls, k) = Tmp!SortScan(ls, k)
<1> SUFFICES ASSUME NEW ls, NEW k PROVE Srt!SortScan(ls, k) = Tmp!SortScan(ls, k)
  OBVIOUS
<1>1. Srt!SortScan(ls, k) = Tmp!SortScan(ls, k)
  BY SameSearch DEF Srt!SortScan, Tmp!SortScan
<1> QED
  BY <1>1

\* One insertion into the temporary list.
LEMMA SameAdditions ==
    /\ \A ls, a, e : Srt!SortInto(ls, a, e) = Tmp!SortInto(ls, a, e)
    /\ \A ls, e, a, fs : Srt!SortAddAt(ls, e, a, fs) = Tmp!SortAddAt(ls, e, a, fs)
    /\ \A l, e : Srt!SortAddSmall(l, e) = Tmp!SortAddSmall(l, e)
    /\ \A tmp, e : Srt!SortAdd(tmp, e) = Tmp!SortAdd(tmp, e)
<1>1. ASSUME NEW ls, NEW a, NEW e
      PROVE  Srt!SortInto(ls, a, e) = Tmp!SortInto(ls, a, e)
  BY SameShift, SameSearch DEF Srt!SortInto, Tmp!SortInto
<1>2. ASSUME NEW ls, NEW e, NEW a, NEW fs
      PROVE  Srt!SortAddAt(ls, e, a, fs) = Tmp!SortAddAt(ls, e, a, fs)
  BY <1>1, SameShift, SameSpill, SameSearch DEF Srt!SortAddAt, Tmp!SortAddAt
<1>3. ASSUME NEW l, NEW e
      PROVE  Srt!SortAddSmall(l, e) = Tmp!SortAddSmall(l, e)
  BY DEF Srt!SortAddSmall, Tmp!SortAddSmall, Srt!InsertAt, Tmp!InsertAt, Srt!Min, Tmp!Min
<1>4. ASSUME NEW tmp, NEW e
      PROVE  Srt!SortAdd(tmp, e) = Tmp!SortAdd(tmp, e)
  BY <1>2, <1>3, SameShift, SameScan DEF Srt!SortAdd, Tmp!SortAdd
<1> QED
  BY <1>1, <1>2, <1>3, <1>4

\* What sorting promises.
LEMMA SamePromise ==
    /\ \A es, ls : Srt!SortedStably(es, ls) <=> Tmp!SortedStably(es, ls)
    /\ \A es : Srt!Outgrows(es) <=> Tmp!Outgrows(es)
<1>1. \A ls : Srt!Walked(ls) = Tmp!Walked(ls)
  BY DEF Srt!Walked, Tmp!Walked, Srt!Live, Tmp!Live, Srt!FlattenSeq, Tmp!FlattenSeq
<1>2. \A es : Srt!Accepted(es) = Tmp!Accepted(es)
  BY DEF Srt!Accepted, Tmp!Accepted, Srt!Refused, Tmp!Refused, Srt!Cardinality, Tmp!Cardinality
<1>3. \A u, v : Srt!Precedes(u, v) <=> Tmp!Precedes(u, v)
  BY DEF Srt!Precedes, Tmp!Precedes
<1>4. \A c : Srt!ToSet(c) = Tmp!ToSet(c)
  BY DEF Srt!ToSet, Tmp!ToSet
<1>5. \A es : Srt!Outgrows(es) <=> Tmp!Outgrows(es)
  BY DEF Srt!Outgrows, Tmp!Outgrows, Srt!Cardinality, Tmp!Cardinality
<1>6. \A es, ls : Srt!SortedStably(es, ls) <=> Tmp!SortedStably(es, ls)
  BY <1>1, <1>2, <1>3, <1>4 DEF Srt!SortedStably, Tmp!SortedStably
<1> QED
  BY <1>5, <1>6

\* Told apart by position, any sequence of elements is sorted stably.
LEMMA ToldSorts ==
    ASSUME NEW es \in Seq(Elem)
    PROVE  /\ Tmp!TempFilled(Told(es)).slabs # <<>> <=> Tmp!Outgrows(Told(es))
           /\ Tmp!Outgrows(Told(es)) =>
                  Tmp!SortedStably(Told(es), Tmp!TempFilled(Told(es)).slabs)
<1> DEFINE ts == Told(es)
           N == Len(ts)
           F(g) == g = [n \in 0 .. N |-> IF n = 0 THEN [sml |-> <<>>, slabs |-> <<>>]
                                         ELSE Tmp!SortAdd(g[n - 1], ts[n])]
           f == CHOOSE g : F(g)
<1>1. ts \in Seq(Srt!Elem) /\ Srt!Numbered(ts)
  <2>1. Len(es) \in Nat /\ DOMAIN es = 1 .. Len(es) /\ \A p \in 1 .. Len(es) : es[p] \in Elem
    BY LenProperties, ElementOfSeq
  <2>2. ts = [p \in 1 .. Len(es) |-> [key |-> es[p].key, val |-> p]]
    BY <2>1 DEF Told
  <2>3. \A p \in 1 .. Len(es) : [key |-> es[p].key, val |-> p] \in Srt!Elem
    BY <2>1 DEF Srt!Elem, Elem
  <2> HIDE DEF ts
  <2>4. ts \in Seq(Srt!Elem)
    BY <2>1, <2>2, <2>3
  <2>5. Srt!Numbered(ts)
    BY <2>1, <2>2 DEF Srt!Numbered
  <2> QED
    BY <2>4, <2>5
<1>2. Tmp!TempFilled(ts) = f[N]
  BY DEF Tmp!TempFilled
<1>3. N \in Nat
  BY <1>1, LenProperties
<1> HIDE DEF ts, N
<1>4. \A g : F(g) <=> Srt!IsSorting(g, ts, N)
  <2> SUFFICES ASSUME NEW g PROVE F(g) <=> Srt!IsSorting(g, ts, N)
    OBVIOUS
  <2> DEFINE u == [n \in 0 .. N |-> IF n = 0 THEN [sml |-> <<>>, slabs |-> <<>>]
                                    ELSE Tmp!SortAdd(g[n - 1], ts[n])]
             v == [n \in 0 .. N |-> IF n = 0 THEN [sml |-> <<>>, slabs |-> <<>>]
                                    ELSE Srt!SortAdd(g[n - 1], ts[n])]
  <2>1. u = v
    BY SameAdditions
  <2>2. F(g) <=> g = u
    OBVIOUS
  <2>3. Srt!IsSorting(g, ts, N) <=> g = v
    BY DEF Srt!IsSorting
  <2> HIDE DEF u, v, F
  <2> QED
    BY <2>1, <2>2, <2>3
<1>a. /\ SELEM_MAX \in Nat /\ SELEM_MAX >= 2 /\ Key \subseteq Nat /\ Nat \subseteq Nat
      /\ SMELEM_MAX \in 1 .. SELEM_MAX - 1
  BY SlabSizeAssumption, ElemAssumption, SmallListAssumption
<1>5. \E g : F(g)
  <2>1. \E g : Srt!IsSorting(g, ts, N)
    BY <1>a, <1>3, Srt!SortingExists
  <2> QED
    BY <1>4, <2>1
<1> HIDE DEF F
<1>6. Srt!IsSorting(f, ts, N)
  BY <1>4, <1>5
<1> HIDE DEF f
<1>7. f[N].slabs # <<>> <=> Srt!Outgrows(ts)
  BY <1>a, <1>1, <1>6, Srt!SlabsWhenOutgrown DEF N
<1>8. f[N].slabs # <<>> => Srt!SortedStably(ts, f[N].slabs)
  BY <1>a, <1>1, <1>6, Srt!SortingIsStable DEF N
<1> QED
  BY <1>2, <1>7, <1>8, SamePromise DEF ts

\* Whatever an ordered list holds, slablist_sort leaves it with slabs exactly when it
\* had slabs and its temporary list came to have some; and then a walk through it gives
\* every element that the temporary list accepted, each where its key belongs, elements
\* of one key in the order they had, none lost or repeated.  (The temporary list of the
\* model is a small list or a chain without sublayers, whatever its length.)
THEOREM SortingIsExact == Spec => []SortExact
<1>1. OInv => SortExact
  <2> SUFFICES ASSUME OInv PROVE SortExact
    OBVIOUS
  <2>1. Shaped(sml, slabs, sl_elems, Contents)
    BY DEF OInv
  <2>2. Contents \in Seq(Elem)
    BY <2>1, ShapedFacts
  <2> DEFINE es == Told(Contents)
             list == Tmp!slablist_sort(es, IS_SMALL_LIST)
             tmp == Tmp!TempFilled(es)
  <2>3. /\ tmp.slabs # <<>> <=> Tmp!Outgrows(es)
        /\ Tmp!Outgrows(es) => Tmp!SortedStably(es, tmp.slabs)
    BY <2>2, ToldSorts
  <2>4. list = IF IS_SMALL_LIST
               THEN [sl_head |-> IF es = <<>> THEN "NULL" ELSE "freed", slabs |-> <<>>]
               ELSE [sl_head |-> IF tmp.slabs = <<>> THEN "node" ELSE "slab",
                     slabs |-> tmp.slabs]
    BY DEF Tmp!slablist_sort
  <2> HIDE DEF es, tmp, list
  <2>5. list.sl_head = "slab" <=> ~IS_SMALL_LIST /\ tmp.slabs # <<>>
    BY <2>4
  <2>6. list.sl_head = "slab" => list.slabs = tmp.slabs
    BY <2>4
  <2>7. /\ list.sl_head = "slab" <=> ~IS_SMALL_LIST /\ Tmp!Outgrows(es)
        /\ list.sl_head = "slab" => Tmp!SortedStably(es, list.slabs)
    BY <2>3, <2>5, <2>6
  <2> QED
    BY <2>7 DEF SortExact, es, list
<1> QED
  BY <1>1, OInvariance, PTL

=============================================================================
