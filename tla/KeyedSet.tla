------------------------------- MODULE KeyedSet -------------------------------
(***************************************************************************)
(* What a sorted slab list promises its user: a set of elements with       *)
(* distinct keys, changed by slablist_add and slablist_rem and by nothing  *)
(* else, and the status each call returns.  It says nothing of small       *)
(* lists, slabs, spilling, merging or reaping.                             *)
(***************************************************************************)
EXTENDS Naturals

CONSTANTS
    Key, Val,   \* the elements of a list: a key and the rest
    Reps        \* values of the `rep' argument that clients pass

Elem == [key : Key, val : Val]

VARIABLES
    store,      \* the elements in the list
    st          \* status of the last addition or removal

vars == <<store, st>>

With(k) == {x \in store : x.key = k}

Init == store = {} /\ st = "SUCCESS"

\* slablist_add of a key that is not in the list.
AddNew(e) ==
    /\ With(e.key) = {}
    /\ store' = store \cup {e}
    /\ st' = "SUCCESS"

\* slablist_add of a key that is in the list: refused, or replaced if the
\* caller asks for it.
AddAgain(e, rep) ==
    /\ With(e.key) # {}
    /\ IF rep = 0
       THEN store' = store /\ st' = "EDUP"
       ELSE store' = (store \ With(e.key)) \cup {e} /\ st' = "SUCCESS"

Rem(k) ==
    /\ With(k) # {}
    /\ store' = store \ With(k)
    /\ st' = "SUCCESS"

RemNothing(k) ==
    /\ With(k) = {}
    /\ store' = store
    /\ st' \in {"ENFOUND"} \cup (IF store = {} THEN {"EMPTY"} ELSE {})

Next ==
    \/ \E e \in Elem, rep \in Reps : AddNew(e) \/ AddAgain(e, rep)
    \/ \E k \in Key : Rem(k) \/ RemNothing(k)

Spec == Init /\ [][Next]_vars

=============================================================================
