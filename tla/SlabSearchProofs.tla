--------------------------- MODULE SlabSearchProofs ---------------------------
(***************************************************************************)
(* The binary search of a slab returns the right index, for every slab     *)
(* size, every set of keys and every content of the dead slots.            *)
(***************************************************************************)
EXTENDS SlabSearch, TLAPS

-----------------------------------------------------------------------------
(* Facts about the operator the searches compute *)

\* `p' separates the live elements below the key from the others.
Separates(p, key, t) ==
    /\ p \in 0 .. t.s_elems
    /\ \A j \in 0 .. p - 1 : t.s_arr[j].key < key
    /\ p < t.s_elems => key <= t.s_arr[p].key

\* The index slab_bin_srch stands for is the only one that separates.
LEMMA SeparatorIsPosition ==
    ASSUME NEW t, t.s_elems \in Nat, NEW key \in Nat,
           \A j \in 0 .. t.s_elems - 1 : t.s_arr[j].key \in Nat,
           NEW p, Separates(p, key, t)
    PROVE  slab_bin_srch(key, t) = p
<1> DEFINE S == {q \in 0 .. t.s_elems : q = t.s_elems \/ key <= t.s_arr[q].key}
<1>1. p \in S
  BY DEF Separates
<1>2. \A q \in S : p <= q
  <2> SUFFICES ASSUME NEW q \in S, q < p PROVE FALSE
    BY DEF Separates
  <2>1. q \in 0 .. p - 1 /\ q # t.s_elems
    BY DEF Separates
  <2>2. t.s_arr[q].key < key /\ key <= t.s_arr[q].key /\ t.s_arr[q].key \in Nat
    BY <2>1 DEF Separates
  <2> QED
    BY <2>2
<1>3. \A q \in S : (\A r \in S : q <= r) => q = p
  BY <1>1, <1>2 DEF Separates
<1>4. Min(S) = p
  BY <1>1, <1>2, <1>3 DEF Min
<1> QED
  BY <1>4 DEF slab_bin_srch

-----------------------------------------------------------------------------
(* The loop invariant *)

\* What is left of min is below the key, what is right of max is above it.
BinInv ==
    /\ min \in 0 .. s.s_elems /\ max \in -1 .. s.s_elems - 1 /\ min <= max + 1
    /\ \A j \in 0 .. s.s_elems - 1 :
         /\ j < min => s.s_arr[j].key < k
         /\ j > max => k < s.s_arr[j].key
    /\ bin # Running => Separates(bin, k, s)

\* Everything the linear search has passed is below the key.
LinInv ==
    /\ i \in 0 .. s.s_elems
    /\ \A j \in 0 .. i - 1 : s.s_arr[j].key < k
    /\ lin # Running => lin = i /\ Separates(i, k, s)

IInv == TypeOK /\ BinInv /\ LinInv

\* What every slab that is searched provides.
LEMMA SearchableFacts ==
    ASSUME NEW t \in Searchable
    PROVE  /\ t.s_elems \in 1 .. SELEM_MAX
           /\ \A j \in Index : t.s_arr[j].key \in Nat
           /\ Ordered(t)
<1>1. PICK arr \in [Index -> Slot], n \in 1 .. SELEM_MAX :
        t = [s_arr |-> arr, s_elems |-> n, s_min |-> arr[0], s_max |-> arr[n - 1]]
  BY DEF Searchable
<1>2. \A x \in Slot : x.key \in Nat
  <2>1. \A x \in Elem : x.key \in Nat
    BY ElemAssumption DEF Elem
  <2>2. NoElem.key \in Nat
    BY DEF NoElem
  <2> QED
    BY <2>1, <2>2 DEF Slot
<1>3. \A j \in Index : t.s_arr[j] \in Slot
  BY <1>1
<1>4. Ordered(t)
  BY DEF Searchable
<1> QED
  BY <1>1, <1>2, <1>3, <1>4

\* What is live lies in the array.
LEMMA LiveInArray ==
    ASSUME NEW t \in Searchable, NEW j \in 0 .. t.s_elems - 1
    PROVE  j \in Index /\ t.s_arr[j].key \in Nat
BY SearchableFacts, SlabSizeAssumption DEF Index

\* The midpoint of two bounds lies between them.
LEMMA MidBetween ==
    ASSUME NEW lo \in Int, NEW hi \in Int, lo <= hi
    PROVE  (lo + hi) \div 2 \in lo .. hi
OBVIOUS

-----------------------------------------------------------------------------
(* The invariant is inductive *)

LEMMA InitIInv == Init => IInv
<1> SUFFICES ASSUME Init PROVE IInv
  OBVIOUS
<1>1. s.s_elems \in 1 .. SELEM_MAX
  BY SearchableFacts DEF Init
<1>2. TypeOK
  BY <1>1, SlabSizeAssumption DEF Init, TypeOK, Running
<1>3. BinInv /\ LinInv
  BY <1>1, SlabSizeAssumption DEF Init, BinInv, LinInv, Running
<1> QED
  BY <1>2, <1>3 DEF IInv

LEMMA NextIInv == IInv /\ [Next]_vars => IInv'
<1> SUFFICES ASSUME IInv, [Next]_vars PROVE IInv'
  OBVIOUS
<1> USE SlabSizeAssumption DEF IInv, Running
<1>1. /\ s \in Searchable /\ k \in Nat
      /\ s.s_elems \in 1 .. SELEM_MAX
      /\ Ordered(s)
      /\ \A j \in 0 .. s.s_elems - 1 : s.s_arr[j].key \in Nat
  BY SearchableFacts, LiveInArray, ElemAssumption DEF TypeOK
<1>2. Probing => mid \in min .. max /\ mid \in 0 .. s.s_elems - 1
  BY <1>1, MidBetween DEF Probing, mid, BinInv
<1>3. CASE GoRight
  <2>1. min' = mid + 1 /\ mid \in min .. max /\ mid \in 0 .. s.s_elems - 1
        /\ s.s_arr[mid].key < k /\ UNCHANGED <<s, k, max, bin, i, lin>>
    BY <1>1, <1>2, <1>3 DEF GoRight
  <2>2. \A j \in 0 .. s.s_elems - 1 : j < min' => s.s_arr[j].key < k
    BY <1>1, <2>1 DEF Ordered
  <2>3. BinInv'
    BY <1>1, <1>3, <2>1, <2>2 DEF BinInv, GoRight, Probing
  <2> QED
    BY <1>1, <2>1, <2>3 DEF TypeOK, LinInv, Separates
<1>4. CASE GoLeft
  <2>1. max' = mid - 1 /\ mid \in min .. max /\ mid \in 0 .. s.s_elems - 1
        /\ k < s.s_arr[mid].key /\ UNCHANGED <<s, k, min, bin, i, lin>>
    BY <1>1, <1>2, <1>4 DEF GoLeft
  <2>2. \A j \in 0 .. s.s_elems - 1 : j > max' => k < s.s_arr[j].key
    BY <1>1, <2>1 DEF Ordered
  <2>3. BinInv'
    BY <1>1, <1>4, <2>1, <2>2 DEF BinInv, GoLeft, Probing
  <2> QED
    BY <1>1, <2>1, <2>3 DEF TypeOK, LinInv, Separates
<1>5. CASE Hit
  <2>1. bin' = mid /\ mid \in 0 .. s.s_elems - 1 /\ s.s_arr[mid].key = k
        /\ UNCHANGED <<s, k, min, max, i, lin>>
    BY <1>1, <1>2, <1>5 DEF Hit
  <2>2. Separates(mid, k, s)
    BY <1>1, <2>1 DEF Separates, Ordered
  <2>3. BinInv'
    BY <1>1, <2>1, <2>2 DEF BinInv, Separates
  <2> QED
    BY <1>1, <2>1, <2>3 DEF TypeOK, LinInv, Separates
<1>6. CASE Miss
  <2> DEFINE at == IF min >= s.s_elems THEN s.s_elems - 1 ELSE min
  <2>1. bin' = IF k > s.s_arr[at].key THEN at + 1 ELSE at
    BY <1>6 DEF Miss
  <2>2. min = max + 1 /\ UNCHANGED <<s, k, min, max, i, lin>>
    BY <1>1, <1>6 DEF Miss, BinInv
  <2>3. at \in 0 .. s.s_elems - 1 /\ (min < s.s_elems => at = min)
    BY <1>1 DEF BinInv
  <2> HIDE DEF at
  <2>4. bin' = min
    <3>1. CASE min < s.s_elems
      <4>1. k < s.s_arr[min].key /\ s.s_arr[min].key \in Nat
        BY <1>1, <2>2, <3>1 DEF BinInv
      <4> QED
        BY <1>1, <2>1, <2>3, <3>1, <4>1
    <3>2. CASE min = s.s_elems
      <4>1. at = min - 1 /\ at < min
        BY <1>1, <3>2 DEF at
      <4>2. s.s_arr[at].key < k /\ s.s_arr[at].key \in Nat
        BY <1>1, <2>3, <4>1 DEF BinInv
      <4>3. bin' = at + 1
        BY <1>1, <2>1, <4>2
      <4> QED
        BY <1>1, <3>2, <4>1, <4>3
    <3> QED
      BY <3>1, <3>2, <1>1 DEF BinInv
  <2>5. Separates(min, k, s)
    BY <1>1, <2>2 DEF BinInv, Separates
  <2>6. BinInv'
    BY <1>1, <2>2, <2>4, <2>5 DEF BinInv, Separates
  <2> QED
    BY <1>1, <2>2, <2>4, <2>6 DEF TypeOK, BinInv, LinInv, Separates
<1>7. CASE LinStep
  <2>1. i' = i + 1 /\ i < s.s_elems /\ s.s_arr[i].key < k
        /\ UNCHANGED <<s, k, min, max, bin, lin>>
    BY <1>1, <1>7 DEF LinStep, LinInv
  <2>2. LinInv'
    BY <1>1, <1>7, <2>1 DEF LinInv, LinStep
  <2> QED
    BY <1>1, <2>1, <2>2 DEF TypeOK, BinInv, LinInv, Separates
<1>8. CASE LinEnd
  <2>1. lin' = i /\ UNCHANGED <<s, k, min, max, bin, i>>
        /\ (i < s.s_elems => ~(k > s.s_arr[i].key))
    BY <1>8 DEF LinEnd
  <2>2. Separates(i, k, s)
    BY <1>1, <2>1 DEF LinInv, Separates
  <2> QED
    BY <1>1, <2>1, <2>2 DEF TypeOK, BinInv, LinInv, Separates
<1>9. CASE UNCHANGED vars
  BY <1>9 DEF vars, TypeOK, BinInv, LinInv, Separates
<1> QED
  BY <1>3, <1>4, <1>5, <1>6, <1>7, <1>8, <1>9 DEF Next, BinNext, LinNext

LEMMA Invariance == Spec => []IInv
BY InitIInv, NextIInv, PTL DEF Spec

-----------------------------------------------------------------------------
(* What follows from it *)

\* slab_bin_srch never reads a dead slot on its way, nor outside the array.
THEOREM BinProbesLive == Spec => []ProbesLive
<1>1. IInv => ProbesLive
  <2> SUFFICES ASSUME IInv, Probing PROVE mid \in 0 .. s.s_elems - 1
    BY DEF ProbesLive
  <2>1. s.s_elems \in 1 .. SELEM_MAX
    BY SearchableFacts DEF IInv, TypeOK
  <2>2. mid \in min .. max
    BY <2>1, SlabSizeAssumption, MidBetween DEF IInv, BinInv, Probing, mid
  <2> QED
    BY <2>1, <2>2, SlabSizeAssumption DEF IInv, BinInv
<1> QED
  BY <1>1, Invariance, PTL

\* What slab_bin_srch returns is the index that SlabList takes for its answer.
THEOREM BinSearchCorrect == Spec => []BinFindsPosition
<1>1. IInv => BinFindsPosition
  <2> SUFFICES ASSUME IInv, bin # Running PROVE bin = slab_bin_srch(k, s)
    BY DEF BinFindsPosition
  <2>1. s.s_elems \in Nat /\ k \in Nat
        /\ \A j \in 0 .. s.s_elems - 1 : s.s_arr[j].key \in Nat
    BY SearchableFacts, LiveInArray, ElemAssumption, SlabSizeAssumption DEF IInv, TypeOK
  <2>2. Separates(bin, k, s)
    BY DEF IInv, BinInv
  <2> QED
    BY <2>1, <2>2, SeparatorIsPosition
<1> QED
  BY <1>1, Invariance, PTL

\* slab_bin_srch and slab_lin_srch return the same index.
THEOREM SearchesAlwaysAgree == Spec => []SearchesAgree
<1>1. IInv => SearchesAgree
  <2> SUFFICES ASSUME IInv, bin # Running, lin # Running PROVE bin = lin
    BY DEF SearchesAgree
  <2>1. s.s_elems \in Nat /\ k \in Nat
        /\ \A j \in 0 .. s.s_elems - 1 : s.s_arr[j].key \in Nat
    BY SearchableFacts, LiveInArray, ElemAssumption, SlabSizeAssumption DEF IInv, TypeOK
  <2>2. Separates(bin, k, s) /\ Separates(lin, k, s)
    BY DEF IInv, BinInv, LinInv
  <2> QED
    BY <2>1, <2>2, SeparatorIsPosition
<1> QED
  BY <1>1, Invariance, PTL

=============================================================================
