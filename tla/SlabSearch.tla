------------------------------ MODULE SlabSearch ------------------------------
(***************************************************************************)
(* The two searches of one slab, loop iteration by loop iteration:         *)
(* slab_bin_srch, which every addition, removal and lookup uses, and       *)
(* slab_lin_srch, which the test code runs on the same slab to check the   *)
(* answer of the first.  The slab is any slab in the order that SlabList   *)
(* maintains, whatever its dead slots hold.                                *)
(***************************************************************************)
EXTENDS SlabArray

VARIABLES
    s,              \* the slab; never changes
    k,              \* the key looked for; never changes
    min, max,       \* the binary search looks at min .. max
    bin,            \* what slab_bin_srch returned, or Running
    i,              \* the linear search's index
    lin             \* what slab_lin_srch returned, or Running

vars == <<s, k, min, max, bin, i, lin>>

Running == -1

Ordered(t) ==
    \A a, b \in 0 .. t.s_elems - 1 : a < b => t.s_arr[a].key < t.s_arr[b].key

\* The slabs a search can meet: some elements, in order, with exact extrema.
Searchable ==
    {t \in {[s_arr |-> arr, s_elems |-> n, s_min |-> arr[0], s_max |-> arr[n - 1]] :
                arr \in [Index -> Slot], n \in 1 .. SELEM_MAX} : Ordered(t)}

\* Faulty variant of Init: the binary search starts one slot too wide.
InitWide ==
    /\ s \in Searchable /\ k \in Key
    /\ min = 0 /\ max = s.s_elems /\ bin = Running
    /\ i = 0 /\ lin = Running

Init ==
    /\ s \in Searchable /\ k \in Key
    /\ min = 0 /\ max = s.s_elems - 1 /\ bin = Running
    /\ i = 0 /\ lin = Running

mid == (min + max) \div 2

Probing == bin = Running /\ max >= min

\* Faulty variant of GoRight: the probed index is looked at again.
GoRightStays ==
    /\ Probing /\ k > s.s_arr[mid].key
    /\ min' = mid
    /\ UNCHANGED <<s, k, max, bin, i, lin>>

GoRight ==
    /\ Probing /\ k > s.s_arr[mid].key
    /\ min' = mid + 1
    /\ UNCHANGED <<s, k, max, bin, i, lin>>

GoLeft ==
    /\ Probing /\ k < s.s_arr[mid].key
    /\ max' = mid - 1
    /\ UNCHANGED <<s, k, min, bin, i, lin>>

Hit ==
    /\ Probing /\ k = s.s_arr[mid].key
    /\ bin' = mid
    /\ UNCHANGED <<s, k, min, max, i, lin>>

\* Faulty variant of Miss: the final comparison is left out.
MissAtMin ==
    /\ bin = Running /\ max < min
    /\ bin' = IF min >= s.s_elems THEN s.s_elems - 1 ELSE min
    /\ UNCHANGED <<s, k, min, max, i, lin>>

\* The key is not there: min, or the last index if min is past it, and one
\* more if the key is above what is there.
Miss ==
    LET at == IF min >= s.s_elems THEN s.s_elems - 1 ELSE min
    IN  /\ bin = Running /\ max < min
        /\ bin' = IF k > s.s_arr[at].key THEN at + 1 ELSE at
        /\ UNCHANGED <<s, k, min, max, i, lin>>

LinStep ==
    /\ lin = Running /\ i < s.s_elems /\ k > s.s_arr[i].key
    /\ i' = i + 1
    /\ UNCHANGED <<s, k, min, max, bin, lin>>

\* Faulty variant of LinEnd: one past the index where the loop stopped.
LinEndLate ==
    /\ lin = Running /\ ~(i < s.s_elems /\ k > s.s_arr[i].key)
    /\ lin' = i + 1
    /\ UNCHANGED <<s, k, min, max, bin, i>>

LinEnd ==
    /\ lin = Running /\ ~(i < s.s_elems /\ k > s.s_arr[i].key)
    /\ lin' = i
    /\ UNCHANGED <<s, k, min, max, bin, i>>

BinNext == GoRight \/ GoLeft \/ Hit \/ Miss
LinNext == LinStep \/ LinEnd

Next == BinNext \/ LinNext

Spec == Init /\ [][Next]_vars

\* The searches are plain loops: the caller does nothing else until they return.
FairSpec == Spec /\ WF_vars(BinNext) /\ WF_vars(LinNext)

-----------------------------------------------------------------------------
TypeOK ==
    /\ s \in Searchable /\ k \in Key
    /\ min \in 0 .. SELEM_MAX /\ max \in -1 .. SELEM_MAX - 1
    /\ bin \in -1 .. SELEM_MAX
    /\ i \in 0 .. SELEM_MAX /\ lin \in -1 .. SELEM_MAX

\* The binary search looks only at live elements of the slab.
ProbesLive == Probing => mid \in 0 .. s.s_elems - 1

\* The binary search returns the first index whose element is not below the
\* key: the operator that SlabList uses for it.
BinFindsPosition == bin # Running => bin = slab_bin_srch(k, s)

\* The two searches never disagree (test_slab_bin_srch).
SearchesAgree == bin # Running /\ lin # Running => bin = lin

\* Both searches return.
Returns == <>(bin # Running /\ lin # Running)

=============================================================================
