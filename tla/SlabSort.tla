------------------------------- MODULE SlabSort -------------------------------
(***************************************************************************)
(* Sorting an ordered list: what slablist_sort makes of the contents of    *)
(* any list that OrderedSlabList reaches, by way of a temporary list.      *)
(***************************************************************************)
EXTENDS OrderedSlabList

\* The temporary list takes the elements of any list, with any values.
Tmp == INSTANCE TempList WITH Val <- Nat

\* The elements `es' told apart: each has its place in the list as its value.
Told(es) == [p \in DOMAIN es |-> [key |-> es[p].key, val |-> p]]

\* After slablist_sort the head of the list leads to slabs exactly when the list had
\* slabs and its temporary list came to have some; then slablist_next passes every
\* element that the temporary list accepted, in order, equal keys in the order they
\* were added in, though runs of them fill slabs and spill from one into the next, and
\* slablist_head gives the first.  All that such a list loses are the repeated keys that
\* come while the temporary list is small.  In every other case the head is no slab of
\* the list, and nothing is said of the calls that follow.
SortExact ==
    LET es   == Told(Contents)
        list == Tmp!slablist_sort(es, IS_SMALL_LIST)
    IN  NoWalk =>
            /\ list.sl_head = "slab" <=> ~IS_SMALL_LIST /\ Tmp!Outgrows(es)
            /\ list.sl_head = "slab" => Tmp!SortedStably(es, list.slabs)

=============================================================================
