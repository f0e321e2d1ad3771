---------------------------- MODULE SlabArrayProofs ----------------------------
(***************************************************************************)
(* What the primitives of SlabArray return: slabs again, with so many      *)
(* elements.  Stated for every slab size.  Before that, facts that the     *)
(* libraries do not state: least elements, induction over a set, insertion *)
(* and removal in a sequence.                                              *)
(***************************************************************************)
EXTENDS SlabArray, SequencesExt, SequenceTheorems, WellFoundedInduction, TLAPS

\* A set of natural numbers that is not empty has a least element, and Min is it.
LEMMA MinOfNats ==
    ASSUME NEW S \in SUBSET Nat, S # {}
    PROVE  Min(S) \in S /\ \A y \in S : Min(S) <= y
<1>1. PICK x \in S : \A y \in S : ~(<<y, x>> \in OpToRel(<, Nat))
  BY NatLessThanWellFounded, WFMin
<1>2. \A y \in S : x <= y
  <2> SUFFICES ASSUME NEW y \in S, y < x PROVE FALSE
    OBVIOUS
  <2>1. <<y, x>> \in OpToRel(<, Nat)
    BY DEF OpToRel
  <2> QED
    BY <1>1, <2>1
<1> QED
  BY <1>1, <1>2 DEF Min

\* A set that holds 0 and, with a number, the next one holds every number.
LEMMA SetInduction ==
    ASSUME NEW S, 0 \in S, \A n \in Nat : n \in S => n + 1 \in S
    PROVE  Nat \subseteq S
<1> SUFFICES ASSUME Nat \ S # {} PROVE FALSE
  OBVIOUS
<1> DEFINE m == Min(Nat \ S)
<1>1. m \in Nat \ S /\ \A y \in Nat \ S : m <= y
  BY MinOfNats
<1>2. m # 0 /\ m - 1 \in Nat /\ m - 1 < m
  BY <1>1
<1>3. m - 1 \in S
  BY <1>1, <1>2
<1>4. (m - 1) + 1 \in S
  BY <1>2, <1>3
<1> QED
  BY <1>1, <1>2, <1>4

\* Inserting into a sequence.
LEMMA InsertAtProperties ==
    ASSUME NEW T, NEW q \in Seq(T), NEW p \in 1 .. Len(q) + 1, NEW e \in T
    PROVE  /\ InsertAt(q, p, e) \in Seq(T)
           /\ Len(InsertAt(q, p, e)) = Len(q) + 1
           /\ \A j \in 1 .. Len(q) + 1 : InsertAt(q, p, e)[j] =
                  IF j < p THEN q[j] ELSE IF j = p THEN e ELSE q[j - 1]
<1> DEFINE l == SubSeq(q, 1, p - 1)
           r == SubSeq(q, p, Len(q))
           le == l \o <<e>>
<1>0. Len(q) \in Nat /\ \A j \in 1 .. Len(q) : q[j] \in T
  BY LenProperties, ElementOfSeq
<1>1. /\ l \in Seq(T) /\ Len(l) = p - 1
      /\ \A j \in 1 .. p - 1 : l[j] = q[j]
  BY <1>0, SubSeqProperties
<1>2. /\ r \in Seq(T) /\ Len(r) = Len(q) - p + 1
      /\ \A j \in 1 .. Len(q) - p + 1 : r[j] = q[p + j - 1]
  BY <1>0, SubSeqProperties
<1>3. <<e>> \in Seq(T) /\ Len(<<e>>) = 1 /\ <<e>>[1] = e
  OBVIOUS
<1>4. /\ le \in Seq(T) /\ Len(le) = p
      /\ \A j \in 1 .. p : le[j] = IF j < p THEN q[j] ELSE e
  <2> HIDE DEF l
  <2>1. /\ le \in Seq(T) /\ Len(le) = Len(l) + 1
        /\ \A j \in 1 .. Len(l) + 1 :
              le[j] = IF j <= Len(l) THEN l[j] ELSE <<e>>[j - Len(l)]
    BY <1>1, <1>3, ConcatProperties
  <2> QED
    BY <1>0, <1>1, <1>3, <2>1, SMTT(30)
<1> HIDE DEF l, r, le
<1>5. /\ le \o r \in Seq(T) /\ Len(le \o r) = Len(le) + Len(r)
      /\ \A j \in 1 .. Len(le) + Len(r) :
            (le \o r)[j] = IF j <= Len(le) THEN le[j] ELSE r[j - Len(le)]
  BY <1>2, <1>4, ConcatProperties
<1>6. InsertAt(q, p, e) = le \o r
  BY DEF InsertAt, l, r, le
<1> QED
  BY <1>0, <1>2, <1>4, <1>5, <1>6

\* Removing from a sequence.
LEMMA RemoveAtProperties ==
    ASSUME NEW T, NEW q \in Seq(T), NEW p \in 1 .. Len(q)
    PROVE  /\ RemoveAt(q, p) \in Seq(T)
           /\ Len(RemoveAt(q, p)) = Len(q) - 1
           /\ \A j \in 1 .. Len(q) - 1 : RemoveAt(q, p)[j] =
                  IF j < p THEN q[j] ELSE q[j + 1]
<1> DEFINE l == SubSeq(q, 1, p - 1)
           r == SubSeq(q, p + 1, Len(q))
<1>0. Len(q) \in Nat /\ \A j \in 1 .. Len(q) : q[j] \in T
  BY LenProperties, ElementOfSeq
<1>1. /\ l \in Seq(T) /\ Len(l) = p - 1
      /\ \A j \in 1 .. p - 1 : l[j] = q[j]
  BY <1>0, SubSeqProperties
<1>2. /\ r \in Seq(T) /\ Len(r) = Len(q) - p
      /\ \A j \in 1 .. Len(q) - p : r[j] = q[p + j]
  <2>1. /\ r \in Seq(T)
        /\ Len(r) = IF p + 1 <= Len(q) THEN Len(q) - (p + 1) + 1 ELSE 0
        /\ \A j \in 1 .. Len(q) - (p + 1) + 1 : r[j] = q[p + 1 + j - 1]
    BY <1>0, SubSeqProperties
  <2> QED
    BY <1>0, <2>1
<1> HIDE DEF l, r
<1>3. /\ l \o r \in Seq(T) /\ Len(l \o r) = Len(l) + Len(r)
      /\ \A j \in 1 .. Len(l) + Len(r) :
            (l \o r)[j] = IF j <= Len(l) THEN l[j] ELSE r[j - Len(l)]
  BY <1>1, <1>2, ConcatProperties
<1>4. RemoveAt(q, p) = l \o r
  BY DEF RemoveAt, l, r
<1>5. Len(l \o r) = Len(q) - 1
  BY <1>0, <1>1, <1>2, <1>3
<1>6. ASSUME NEW j \in 1 .. Len(q) - 1
      PROVE  (l \o r)[j] = IF j < p THEN q[j] ELSE q[j + 1]
  <2>1. (l \o r)[j] = IF j <= p - 1 THEN l[j] ELSE r[j - (p - 1)]
    BY <1>0, <1>1, <1>2, <1>3
  <2>2. CASE j < p
    BY <1>0, <1>1, <2>1, <2>2
  <2>3. CASE ~(j < p)
    <3>1. j - (p - 1) \in 1 .. Len(q) - p
      BY <1>0, <2>3
    <3>2. r[j - (p - 1)] = q[p + (j - (p - 1))]
      BY <1>2, <3>1
    <3>3. p + (j - (p - 1)) = j + 1
      BY <1>0
    <3> QED
      BY <1>0, <2>1, <2>3, <3>2, <3>3
  <2> QED
    BY <2>2, <2>3
<1> QED
  BY <1>3, <1>4, <1>5, <1>6

-----------------------------------------------------------------------------
(* Slabs *)

\* The parts of a slab.
LEMMA SlabParts ==
    ASSUME NEW s \in Slab
    PROVE  /\ s.s_elems \in 0 .. SELEM_MAX /\ s.s_arr \in [Index -> Slot]
           /\ s.s_min \in Slot /\ s.s_max \in Slot
           /\ \A j \in 0 .. s.s_elems - 1 : s.s_arr[j] \in Elem
           /\ \A j \in Index : s.s_arr[j] \in Slot
           /\ s = [s_min |-> s.s_min, s_max |-> s.s_max,
                   s_elems |-> s.s_elems, s_arr |-> s.s_arr]
BY DEF Slab

\* Parts that make a slab.
LEMMA MakeSlab ==
    ASSUME NEW mn \in Slot, NEW mx \in Slot, NEW n \in 0 .. SELEM_MAX,
           NEW arr \in [Index -> Slot],
           \A j \in 0 .. n - 1 : arr[j] \in Elem
    PROVE  [s_min |-> mn, s_max |-> mx, s_elems |-> n, s_arr |-> arr] \in Slab
BY DEF Slab

LEMMA RawSlab ==
    ASSUME NEW s \in [s_min : Slot, s_max : Slot, s_elems : 0 .. SELEM_MAX,
                      s_arr : [Index -> Slot]],
           \A j \in 0 .. s.s_elems - 1 : s.s_arr[j] \in Elem
    PROVE  s \in Slab
BY DEF Slab

\* The two ways the primitives update a slab in place.
SetEnd(s, n, x) == [s EXCEPT !.s_elems = n, !.s_max = x]
SetFront(s, n, arr, x) == [s EXCEPT !.s_elems = n, !.s_arr = arr, !.s_min = x]

LEMMA SetEndIsSlab ==
    ASSUME NEW s \in Slab, NEW n \in 0 .. SELEM_MAX, NEW x \in Slot,
           \A j \in 0 .. n - 1 : s.s_arr[j] \in Elem
    PROVE  SetEnd(s, n, x) \in Slab /\ SetEnd(s, n, x).s_elems = n
<1>1. /\ SetEnd(s, n, x) \in [s_min : Slot, s_max : Slot,
                             s_elems : 0 .. SELEM_MAX, s_arr : [Index -> Slot]]
      /\ SetEnd(s, n, x).s_elems = n /\ SetEnd(s, n, x).s_arr = s.s_arr
  BY DEF SetEnd, Slab
<1> QED
  BY <1>1, RawSlab

LEMMA SetFrontIsSlab ==
    ASSUME NEW s \in Slab, NEW n \in 0 .. SELEM_MAX, NEW x \in Slot,
           NEW arr \in [Index -> Slot], \A j \in 0 .. n - 1 : arr[j] \in Elem
    PROVE  SetFront(s, n, arr, x) \in Slab /\ SetFront(s, n, arr, x).s_elems = n
<1>1. /\ SetFront(s, n, arr, x) \in [s_min : Slot, s_max : Slot,
                                    s_elems : 0 .. SELEM_MAX, s_arr : [Index -> Slot]]
      /\ SetFront(s, n, arr, x).s_elems = n /\ SetFront(s, n, arr, x).s_arr = arr
  BY DEF SetFront, Slab
<1> QED
  BY <1>1, RawSlab

LEMMA ElemIsSlot == /\ Elem \subseteq Slot /\ NoElem \in Slot
                    /\ \A x \in Slot : x.key \in Nat
<1>1. Elem \subseteq Slot /\ NoElem \in Slot
  BY DEF Slot
<1>2. \A x \in Elem : x.key \in Nat
  BY ElemAssumption DEF Elem
<1>3. NoElem.key \in Nat
  BY DEF NoElem
<1> QED
  BY <1>1, <1>2, <1>3 DEF Slot

LEMMA mk_slabIsSlab == mk_slab \in Slab /\ mk_slab.s_elems = 0
<1>1. [j \in Index |-> NoElem] \in [Index -> Slot]
  BY ElemIsSlot
<1> QED
  BY <1>1, ElemIsSlot, MakeSlab, SlabSizeAssumption DEF mk_slab

\* The search ends at a live slot or one past the last.
LEMMA slab_bin_srchRange ==
    ASSUME NEW s \in Slab, NEW k
    PROVE  slab_bin_srch(k, s) \in 0 .. s.s_elems
<1> DEFINE S == {i \in 0 .. s.s_elems : i = s.s_elems \/ k <= s.s_arr[i].key}
<1>1. s.s_elems \in Nat
  BY SlabParts, SlabSizeAssumption
<1>2. S \in SUBSET Nat /\ S # {}
  BY <1>1
<1>3. Min(S) \in S
  BY <1>2, MinOfNats
<1> QED
  BY <1>3 DEF slab_bin_srch

-----------------------------------------------------------------------------
LEMMA add_elemIsSlab ==
    ASSUME NEW s \in Slab, NEW e \in Elem, NEW i \in 0 .. s.s_elems
    PROVE  /\ add_elem(s, e, i) \in Slab
           /\ add_elem(s, e, i).s_elems =
                  IF s.s_elems = SELEM_MAX THEN SELEM_MAX ELSE s.s_elems + 1
<1> DEFINE full == s.s_elems = SELEM_MAX
           arr  == [j \in Index |->
                       IF j = i THEN e
                       ELSE IF i < j /\ j <= s.s_elems THEN s.s_arr[j - 1]
                       ELSE s.s_arr[j]]
           n    == IF full THEN SELEM_MAX ELSE s.s_elems + 1
           mn   == IF full \/ i = 0 THEN arr[0] ELSE s.s_min
           mx   == IF full THEN arr[SELEM_MAX - 1]
                   ELSE IF i = s.s_elems THEN arr[i] ELSE s.s_max
<1>0. SELEM_MAX \in Nat /\ SELEM_MAX >= 2 /\ s.s_elems \in 0 .. SELEM_MAX
  BY SlabSizeAssumption, SlabParts
<1>1. \A j \in Index : arr[j] \in Slot
  <2> SUFFICES ASSUME NEW j \in Index PROVE arr[j] \in Slot
    OBVIOUS
  <2>1. i < j => j - 1 \in Index
    BY <1>0 DEF Index
  <2> QED
    BY <2>1, SlabParts, ElemIsSlot
<1>2. arr \in [Index -> Slot]
  BY <1>1
<1>3. n \in 0 .. SELEM_MAX
  BY <1>0
<1>4. \A j \in 0 .. n - 1 : arr[j] \in Elem
  <2> SUFFICES ASSUME NEW j \in 0 .. n - 1 PROVE arr[j] \in Elem
    OBVIOUS
  <2>1. j \in Index
    BY <1>0 DEF Index
  <2>2. CASE j = i
    BY <2>1, <2>2
  <2>3. CASE i < j
    <3>1. j <= s.s_elems /\ j - 1 \in 0 .. s.s_elems - 1
      BY <1>0, <2>3
    <3>2. arr[j] = s.s_arr[j - 1]
      BY <2>1, <2>3, <3>1
    <3> QED
      BY <3>1, <3>2, SlabParts
  <2>4. CASE j < i
    <3>1. j \in 0 .. s.s_elems - 1
      BY <1>0, <2>4
    <3>2. arr[j] = s.s_arr[j]
      BY <1>0, <2>1, <2>4
    <3> QED
      BY <3>1, <3>2, SlabParts
  <2> QED
    BY <1>0, <2>2, <2>3, <2>4
<1>5. mn \in Slot /\ mx \in Slot
  <2>1. 0 \in Index /\ SELEM_MAX - 1 \in Index
    BY <1>0 DEF Index
  <2>2. ~full /\ i = s.s_elems => i \in Index
    BY <1>0 DEF Index
  <2> HIDE DEF arr
  <2> QED
    BY <1>1, <2>1, <2>2, SlabParts
<1>6. [s_min |-> mn, s_max |-> mx, s_elems |-> n, s_arr |-> arr] \in Slab
  <2> HIDE DEF arr, n, mn, mx
  <2> QED
    BY <1>2, <1>3, <1>4, <1>5, MakeSlab
<1>7. add_elem(s, e, i) = [s_min |-> mn, s_max |-> mx, s_elems |-> n, s_arr |-> arr]
  BY DEF add_elem
<1> QED
  BY <1>6, <1>7

LEMMA remove_elemIsSlab ==
    ASSUME NEW s \in Slab, NEW i \in 0 .. s.s_elems - 1
    PROVE  /\ remove_elem(i, s) \in Slab
           /\ remove_elem(i, s).s_elems = s.s_elems - 1
<1> DEFINE n   == s.s_elems - 1
           arr == [j \in Index |->
                      IF i <= j /\ j < n THEN s.s_arr[j + 1] ELSE s.s_arr[j]]
           mn  == IF n > 0 /\ i = 0 THEN arr[0] ELSE s.s_min
           mx  == IF n > 0 /\ i = n THEN arr[n - 1] ELSE s.s_max
<1>0. SELEM_MAX \in Nat /\ SELEM_MAX >= 2 /\ s.s_elems \in 1 .. SELEM_MAX
  BY SlabSizeAssumption, SlabParts
<1>1. \A j \in Index : arr[j] \in Slot
  <2> SUFFICES ASSUME NEW j \in Index PROVE arr[j] \in Slot
    OBVIOUS
  <2>1. j < n => j + 1 \in Index
    BY <1>0 DEF Index
  <2> QED
    BY <2>1, SlabParts
<1>2. arr \in [Index -> Slot]
  BY <1>1
<1>3. n \in 0 .. SELEM_MAX
  BY <1>0
<1>4. \A j \in 0 .. n - 1 : arr[j] \in Elem
  <2> SUFFICES ASSUME NEW j \in 0 .. n - 1 PROVE arr[j] \in Elem
    OBVIOUS
  <2>1. j \in Index /\ j \in 0 .. s.s_elems - 1 /\ j + 1 \in 0 .. s.s_elems - 1
    BY <1>0 DEF Index
  <2> QED
    BY <2>1, SlabParts
<1>5. mn \in Slot /\ mx \in Slot
  <2>1. 0 \in Index /\ (n > 0 => n - 1 \in Index)
    BY <1>0 DEF Index
  <2> HIDE DEF arr
  <2> QED
    BY <1>1, <2>1, SlabParts
<1>6. [s_min |-> mn, s_max |-> mx, s_elems |-> n, s_arr |-> arr] \in Slab
  <2> HIDE DEF arr, n, mn, mx
  <2> QED
    BY <1>2, <1>3, <1>4, <1>5, MakeSlab
<1>7. remove_elem(i, s) = [s_min |-> mn, s_max |-> mx, s_elems |-> n, s_arr |-> arr]
  BY DEF remove_elem
<1> QED
  BY <1>6, <1>7

-----------------------------------------------------------------------------
(* The first halves of addsn and addsp, on a full slab. *)

LEMMA DropLastIsSlab ==
    ASSUME NEW s \in Slab, s.s_elems = SELEM_MAX
    PROVE  DropLast(s) \in Slab /\ DropLast(s).s_elems = SELEM_MAX - 1
<1>0. SELEM_MAX \in Nat /\ SELEM_MAX >= 2
  BY SlabSizeAssumption
<1>1. s.s_arr[SELEM_MAX - 2] \in Slot
  BY <1>0, SlabParts DEF Index
<1>2. DropLast(s) = SetEnd(s, SELEM_MAX - 1, s.s_arr[SELEM_MAX - 2])
  BY DEF DropLast, SetEnd
<1>3. /\ SELEM_MAX - 1 \in 0 .. SELEM_MAX
      /\ \A j \in 0 .. (SELEM_MAX - 1) - 1 : s.s_arr[j] \in Elem
  BY <1>0, SlabParts
<1> QED
  BY <1>1, <1>2, <1>3, SetEndIsSlab

LEMMA DropFirstIsSlab ==
    ASSUME NEW s \in Slab, s.s_elems = SELEM_MAX
    PROVE  DropFirst(s) \in Slab /\ DropFirst(s).s_elems = SELEM_MAX - 1
<1> DEFINE arr == [j \in Index |->
                      IF j < SELEM_MAX - 1 THEN s.s_arr[j + 1] ELSE s.s_arr[j]]
<1>0. SELEM_MAX \in Nat /\ SELEM_MAX >= 2
  BY SlabSizeAssumption
<1>1. \A j \in Index : arr[j] \in Slot
  <2> SUFFICES ASSUME NEW j \in Index PROVE arr[j] \in Slot
    OBVIOUS
  <2>1. j < SELEM_MAX - 1 => j + 1 \in Index
    BY <1>0 DEF Index
  <2> QED
    BY <2>1, SlabParts
<1>2. arr \in [Index -> Slot] /\ arr[0] \in Slot
  BY <1>0, <1>1 DEF Index
<1>3. \A j \in 0 .. (SELEM_MAX - 1) - 1 : arr[j] \in Elem
  <2> SUFFICES ASSUME NEW j \in 0 .. (SELEM_MAX - 1) - 1 PROVE arr[j] \in Elem
    OBVIOUS
  <2>1. j \in Index /\ j < SELEM_MAX - 1 /\ j + 1 \in 0 .. s.s_elems - 1
    BY <1>0 DEF Index
  <2> QED
    BY <2>1, SlabParts
<1>4. DropFirst(s) = SetFront(s, SELEM_MAX - 1, arr, arr[0])
  BY DEF DropFirst, SetFront
<1> HIDE DEF arr
<1>5. SELEM_MAX - 1 \in 0 .. SELEM_MAX
  BY <1>0
<1> QED
  BY <1>2, <1>3, <1>4, <1>5, SetFrontIsSlab

-----------------------------------------------------------------------------
(* Moving elements between neighbours: everything that fits. *)

LEMMA CopyCountRange ==
    ASSUME NEW s \in Slab, NEW d \in Slab
    PROVE  /\ CopyCount(s, d) \in 0 .. s.s_elems
           /\ CopyCount(s, d) <= SELEM_MAX - d.s_elems
           /\ CopyCount(s, d) = s.s_elems \/ CopyCount(s, d) = SELEM_MAX - d.s_elems
BY SlabParts, SlabSizeAssumption DEF CopyCount, SLAB_FREE_SPACE

LEMMA move_to_nextIsSlab ==
    ASSUME NEW s \in Slab, NEW d \in Slab
    PROVE  /\ move_to_next(s, d)[1] \in Slab /\ move_to_next(s, d)[2] \in Slab
           /\ move_to_next(s, d)[1].s_elems = s.s_elems - CopyCount(s, d)
           /\ move_to_next(s, d)[2].s_elems = d.s_elems + CopyCount(s, d)
<1> DEFINE c    == CopyCount(s, d)
           from == s.s_elems - c
           arr  == [j \in Index |->
                       IF j < c THEN s.s_arr[from + j]
                       ELSE IF j < c + d.s_elems THEN d.s_arr[j - c]
                       ELSE d.s_arr[j]]
<1>0. /\ SELEM_MAX \in Nat /\ SELEM_MAX >= 2
      /\ s.s_elems \in 0 .. SELEM_MAX /\ d.s_elems \in 0 .. SELEM_MAX
      /\ c \in 0 .. s.s_elems /\ c <= SELEM_MAX - d.s_elems
  BY SlabSizeAssumption, SlabParts, CopyCountRange
<1>1. CASE s.s_elems = 0
  <2>1. move_to_next(s, d) = <<s, d>>
    BY <1>1 DEF move_to_next
  <2> QED
    BY <1>0, <1>1, <2>1
<1>2. CASE s.s_elems # 0
  <2> HIDE DEF c
  <2>1. \A j \in Index : arr[j] \in Slot
    <3> SUFFICES ASSUME NEW j \in Index PROVE arr[j] \in Slot
      OBVIOUS
    <3>1. /\ j < c => from + j \in Index
          /\ ~(j < c) /\ j < c + d.s_elems => j - c \in Index
      BY <1>0 DEF Index
    <3> QED
      BY <3>1, SlabParts
  <2>2. \A j \in 0 .. (d.s_elems + c) - 1 : arr[j] \in Elem
    <3> SUFFICES ASSUME NEW j \in 0 .. (d.s_elems + c) - 1 PROVE arr[j] \in Elem
      OBVIOUS
    <3>1. j \in Index
      BY <1>0 DEF Index
    <3>2. CASE j < c
      <4>1. from + j \in 0 .. s.s_elems - 1
        BY <1>0, <3>2
      <4> QED
        BY <3>1, <3>2, <4>1, SlabParts
    <3>3. CASE ~(j < c)
      <4>1. j - c \in 0 .. d.s_elems - 1 /\ j < c + d.s_elems
        BY <1>0, <3>3
      <4> QED
        BY <3>1, <3>3, <4>1, SlabParts
    <3> QED
      BY <3>2, <3>3
  <2>3. arr \in [Index -> Slot] /\ arr[0] \in Slot
    BY <1>0, <2>1 DEF Index
  <2>4. MaxAfter(s.s_arr, from, s.s_max) \in Slot
    <3>1. from # 0 => from - 1 \in Index
      BY <1>0 DEF Index
    <3> QED
      BY <3>1, SlabParts DEF MaxAfter
  <2>5. /\ from \in 0 .. SELEM_MAX /\ d.s_elems + c \in 0 .. SELEM_MAX
        /\ \A j \in 0 .. from - 1 : s.s_arr[j] \in Elem
    BY <1>0, SlabParts
  <2> DEFINE sa == SetEnd(s, from, MaxAfter(s.s_arr, from, s.s_max))
             da == SetFront(d, d.s_elems + c, arr, arr[0])
  <2>6. move_to_next(s, d) = <<sa, da>>
    BY <1>2 DEF move_to_next, c, SetEnd, SetFront
  <2> HIDE DEF arr, from
  <2>7. sa \in Slab /\ sa.s_elems = from
    BY <2>4, <2>5, SetEndIsSlab
  <2>8. da \in Slab /\ da.s_elems = d.s_elems + c
    BY <2>2, <2>3, <2>5, SetFrontIsSlab
  <2> HIDE DEF sa, da
  <2> QED
    BY <2>6, <2>7, <2>8 DEF c, from
<1> QED
  BY <1>1, <1>2

LEMMA move_to_prevIsSlab ==
    ASSUME NEW s \in Slab, NEW d \in Slab
    PROVE  /\ move_to_prev(s, d)[1] \in Slab /\ move_to_prev(s, d)[2] \in Slab
           /\ move_to_prev(s, d)[1].s_elems = s.s_elems - CopyCount(s, d)
           /\ move_to_prev(s, d)[2].s_elems = d.s_elems + CopyCount(s, d)
<1> DEFINE c    == CopyCount(s, d)
           n    == s.s_elems - c
           pn   == d.s_elems + c
           parr == [j \in Index |->
                       IF d.s_elems <= j /\ j < pn THEN s.s_arr[j - d.s_elems]
                       ELSE d.s_arr[j]]
           arr  == [j \in Index |-> IF j < n THEN s.s_arr[j + c] ELSE s.s_arr[j]]
<1>0. /\ SELEM_MAX \in Nat /\ SELEM_MAX >= 2
      /\ s.s_elems \in 0 .. SELEM_MAX /\ d.s_elems \in 0 .. SELEM_MAX
      /\ c \in 0 .. s.s_elems /\ c <= SELEM_MAX - d.s_elems
  BY SlabSizeAssumption, SlabParts, CopyCountRange
<1>1. CASE s.s_elems = 0
  <2>1. move_to_prev(s, d) = <<s, d>>
    BY <1>1 DEF move_to_prev
  <2> QED
    BY <1>0, <1>1, <2>1
<1>2. CASE s.s_elems # 0
  <2> HIDE DEF c
  <2>1. \A j \in Index : parr[j] \in Slot /\ arr[j] \in Slot
    <3> SUFFICES ASSUME NEW j \in Index PROVE parr[j] \in Slot /\ arr[j] \in Slot
      OBVIOUS
    <3>1. /\ d.s_elems <= j /\ j < pn => j - d.s_elems \in Index
          /\ j < n => j + c \in Index
      BY <1>0 DEF Index
    <3> QED
      BY <3>1, SlabParts
  <2>2. \A j \in 0 .. pn - 1 : parr[j] \in Elem
    <3> SUFFICES ASSUME NEW j \in 0 .. pn - 1 PROVE parr[j] \in Elem
      OBVIOUS
    <3>1. j \in Index
      BY <1>0 DEF Index
    <3>2. CASE d.s_elems <= j
      <4>1. j - d.s_elems \in 0 .. s.s_elems - 1 /\ j < pn
        BY <1>0, <3>2
      <4>2. parr[j] = s.s_arr[j - d.s_elems]
        BY <3>1, <3>2, <4>1
      <4> QED
        BY <4>1, <4>2, SlabParts
    <3>3. CASE ~(d.s_elems <= j)
      <4>1. j \in 0 .. d.s_elems - 1
        BY <1>0, <3>3
      <4> QED
        BY <3>1, <3>3, <4>1, SlabParts
    <3> QED
      BY <3>2, <3>3
  <2>3. \A j \in 0 .. n - 1 : arr[j] \in Elem
    <3> SUFFICES ASSUME NEW j \in 0 .. n - 1 PROVE arr[j] \in Elem
      OBVIOUS
    <3>1. j \in Index /\ j < n /\ j + c \in 0 .. s.s_elems - 1
      BY <1>0 DEF Index
    <3> QED
      BY <3>1, SlabParts
  <2>4. /\ arr \in [Index -> Slot] /\ parr \in [Index -> Slot]
        /\ arr[0] \in Slot /\ parr[0] \in Slot
    <3>1. arr \in [Index -> Slot]
      BY <2>1
    <3>2. parr \in [Index -> Slot]
      BY <2>1
    <3>3. 0 \in Index
      BY <1>0 DEF Index
    <3> QED
      BY <3>1, <3>2, <3>3
  <2>5. n \in 0 .. SELEM_MAX /\ pn \in 0 .. SELEM_MAX
    BY <1>0
  <2>6. /\ MaxAfter(arr, n, s.s_max) \in Slot
        /\ MaxAfter(parr, pn, d.s_max) \in Slot
    <3>1. /\ n # 0 => n - 1 \in Index
          /\ pn # 0 => pn - 1 \in Index
      BY <1>0 DEF Index
    <3> HIDE DEF arr, parr, n, pn
    <3> QED
      BY <2>1, <3>1, SlabParts DEF MaxAfter
  <2>7. move_to_prev(s, d) =
          << [s_min |-> arr[0], s_max |-> MaxAfter(arr, n, s.s_max),
              s_elems |-> n, s_arr |-> arr],
             [s_min |-> parr[0], s_max |-> MaxAfter(parr, pn, d.s_max),
              s_elems |-> pn, s_arr |-> parr] >>
    BY <1>2 DEF move_to_prev, c
  <2> HIDE DEF arr, parr, n, pn
  <2>8. /\ [s_min |-> arr[0], s_max |-> MaxAfter(arr, n, s.s_max),
            s_elems |-> n, s_arr |-> arr] \in Slab
        /\ [s_min |-> parr[0], s_max |-> MaxAfter(parr, pn, d.s_max),
            s_elems |-> pn, s_arr |-> parr] \in Slab
    BY <2>2, <2>3, <2>4, <2>5, <2>6, MakeSlab
  <2> QED
    BY <2>7, <2>8 DEF c, n, pn
<1> QED
  BY <1>1, <1>2

=============================================================================
