------------------------------ MODULE SlabArray ------------------------------
(***************************************************************************)
(* One slab: the fixed array of SELEM_MAX element slots with its element   *)
(* count and its cached extrema, and the primitives that shift elements    *)
(* inside a slab or between two neighbouring slabs.                        *)
(*                                                                         *)
(* A slab is kept as the C program keeps it.  The array always has         *)
(* SELEM_MAX slots (mk_slab zeroes them); slots at or above s_elems are    *)
(* dead but keep whatever bcopy() left there, because one caller           *)
(* (slablist_rem_impl) can read such a slot.                               *)
(***************************************************************************)
EXTENDS Integers, FiniteSetsExt

CONSTANTS
    SELEM_MAX,      \* slots of a slab (121 in the program)
    Key,            \* what the comparison callbacks look at
    Val             \* the rest of a user's element

ASSUME SlabSizeAssumption == SELEM_MAX \in Nat /\ SELEM_MAX >= 2
ASSUME ElemAssumption == Key \subseteq Nat /\ Val \subseteq Nat

\* A user's element: two elements with equal keys may still differ.
Elem == [key : Key, val : Val]

\* What a slot holds that no element was ever written to.
NoElem == [key |-> 0, val |-> 0]

Slot == Elem \cup {NoElem}

\* C array indices of s_arr.
Index == 0 .. SELEM_MAX - 1

\* A slab; its live slots hold elements that a user added.
Slab ==
    {s \in [s_min : Slot, s_max : Slot, s_elems : 0 .. SELEM_MAX,
            s_arr : [Index -> Slot]] :
        \A j \in 0 .. s.s_elems - 1 : s.s_arr[j] \in Elem}

mk_slab == [s_min |-> NoElem, s_max |-> NoElem, s_elems |-> 0,
            s_arr |-> [j \in Index |-> NoElem]]

SLAB_FREE_SPACE(s) == SELEM_MAX - s.s_elems

\* The live elements of a slab.
ElemsOf(s) == {s.s_arr[j] : j \in 0 .. s.s_elems - 1}

\* The same in order.
Live(s) == [p \in 1 .. s.s_elems |-> s.s_arr[p - 1]]

-----------------------------------------------------------------------------
\* Where `k' is, or belongs, in `s': the first live slot whose key is not
\* smaller, or s_elems when all are.  SlabSearch runs the loop that computes it.
slab_bin_srch(k, s) ==
    Min({i \in 0 .. s.s_elems : i = s.s_elems \/ k <= s.s_arr[i].key})

\* The bounds callback: is `k' under, in or over the cached extrema of `s'?
sl_bnd_elem(k, s) ==
    IF k > s.s_max.key THEN "OVER" ELSE IF k < s.s_min.key THEN "UNDER" ELSE "IN"

-----------------------------------------------------------------------------
\* Insert `e' at index `i', shifting the tail one slot up.  In a full slab the
\* last element is shifted out of the array.
add_elem(s, e, i) ==
    LET full == s.s_elems = SELEM_MAX
        arr  == [j \in Index |->
                    IF j = i THEN e
                    ELSE IF i < j /\ j <= s.s_elems THEN s.s_arr[j - 1]
                    ELSE s.s_arr[j]]
    IN  [s_arr   |-> arr,
         s_elems |-> IF full THEN SELEM_MAX ELSE s.s_elems + 1,
         s_min   |-> IF full \/ i = 0 THEN arr[0] ELSE s.s_min,
         s_max   |-> IF full THEN arr[SELEM_MAX - 1]
                     ELSE IF i = s.s_elems THEN arr[i] ELSE s.s_max]

\* Faulty variant of remove_elem: the shift starts one slot late.
remove_elemShiftsLate(i, s) ==
    LET n   == s.s_elems - 1
        arr == [j \in Index |-> IF i < j /\ j < n THEN s.s_arr[j + 1] ELSE s.s_arr[j]]
    IN  [s_arr |-> arr, s_elems |-> n, s_min |-> arr[0],
         s_max |-> IF n > 0 /\ i = n THEN arr[n - 1] ELSE s.s_max]

\* Remove the live element at index `i', shifting the tail one slot down.
\* The vacated last slot keeps its old content.
remove_elem(i, s) ==
    LET n   == s.s_elems - 1
        arr == [j \in Index |->
                    IF i <= j /\ j < n THEN s.s_arr[j + 1] ELSE s.s_arr[j]]
    IN  [s_arr   |-> arr,
         s_elems |-> n,
         s_min   |-> IF n > 0 /\ i = 0 THEN arr[0] ELSE s.s_min,
         s_max   |-> IF n > 0 /\ i = n THEN arr[n - 1] ELSE s.s_max]

\* Faulty variant of DropLast: the cached maximum is not refreshed.
DropLastKeepsMax(s) == [s EXCEPT !.s_elems = s.s_elems - 1]

\* Forget the last element of `s': the first half of addsn.
DropLast(s) == [s EXCEPT !.s_elems = s.s_elems - 1,
                         !.s_max = s.s_arr[s.s_elems - 2]]

\* Shift the first element out of `s': the first half of addsp.
DropFirst(s) ==
    LET arr == [j \in Index |->
                   IF j < SELEM_MAX - 1 THEN s.s_arr[j + 1] ELSE s.s_arr[j]]
    IN  [s EXCEPT !.s_elems = s.s_elems - 1, !.s_arr = arr, !.s_min = arr[0]]

-----------------------------------------------------------------------------
\* How many elements a move takes out of `s': all, or as many as `d' has room for.
CopyCount(s, d) ==
    IF s.s_elems >= SLAB_FREE_SPACE(d) THEN SLAB_FREE_SPACE(d) ELSE s.s_elems

\* s_max after a move: the code reads s_arr[s_elems - 1], which for an emptied
\* slab is before the array.  Every caller frees such a slab at once, so its
\* extrema are left as they were.
MaxAfter(arr, n, old) == IF n = 0 THEN old ELSE arr[n - 1]

\* Move the last elements of `s' to the front of its next slab `sn'.
move_to_next(s, sn) ==
    LET c    == CopyCount(s, sn)
        from == s.s_elems - c
        arr  == [j \in Index |->
                    IF j < c THEN s.s_arr[from + j]
                    ELSE IF j < c + sn.s_elems THEN sn.s_arr[j - c]
                    ELSE sn.s_arr[j]]
    IN  IF s.s_elems = 0 THEN <<s, sn>>
        ELSE << [s EXCEPT !.s_elems = from,
                          !.s_max = MaxAfter(s.s_arr, from, s.s_max)],
                [sn EXCEPT !.s_elems = sn.s_elems + c, !.s_arr = arr,
                           !.s_min = arr[0]] >>

\* Move the first elements of `s' to the end of its previous slab `sp'.
move_to_prev(s, sp) ==
    LET c    == CopyCount(s, sp)
        n    == s.s_elems - c
        pn   == sp.s_elems + c
        parr == [j \in Index |->
                    IF sp.s_elems <= j /\ j < pn THEN s.s_arr[j - sp.s_elems]
                    ELSE sp.s_arr[j]]
        arr  == [j \in Index |-> IF j < n THEN s.s_arr[j + c] ELSE s.s_arr[j]]
    IN  IF s.s_elems = 0 THEN <<s, sp>>
        ELSE << [s_elems |-> n, s_arr |-> arr,
                 s_min |-> arr[0], s_max |-> MaxAfter(arr, n, s.s_max)],
                [s_elems |-> pn, s_arr |-> parr,
                 s_min |-> parr[0], s_max |-> MaxAfter(parr, pn, sp.s_max)] >>

=============================================================================
