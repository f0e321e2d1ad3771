----------------------------- MODULE ElemSequence -----------------------------
(***************************************************************************)
(* What an ordered slab list promises its user: a sequence of elements     *)
(* that grows at its end, shrinks at any position and can be turned round, *)
(* and a cursor that walks it in either direction.  It says nothing of     *)
(* small lists, slabs or extrema.                                          *)
(***************************************************************************)
EXTENDS Integers, SequencesExt

CONSTANTS
    Key, Val    \* the elements of a list: a key and the rest

Elem == [key : Key, val : Val]

VARIABLES
    seq,        \* the elements
    cur,        \* index of the element the cursor is at, 0 when it is at none
    out         \* status and element that the last call returned

vars == <<seq, cur, out>>

Returns(st, es) == out' = [st |-> st, elem |-> es]

Init ==
    /\ seq = <<>> /\ cur = 0
    /\ out = [st |-> "SUCCESS", elem |-> {}]

Add(e) ==
    /\ cur = 0
    /\ seq' = Append(seq, e) /\ cur' = cur
    /\ Returns("SUCCESS", {})

\* The element at position `pos', counted from 0, is removed.  The callback that
\* gets it may be forgotten.
Rem(pos) ==
    /\ cur = 0 /\ pos < Len(seq)
    /\ seq' = RemoveAt(seq, pos + 1) /\ cur' = cur
    /\ Returns("SUCCESS", {}) \/ Returns("SUCCESS", {seq[pos + 1]})

\* A removal that finds nothing at its position.
RemRefused ==
    /\ cur = 0
    /\ UNCHANGED <<seq, cur>>
    /\ IF seq = <<>> THEN Returns("EMPTY", {}) ELSE Returns("ENCIRC", {})

Turn ==
    /\ cur = 0
    /\ seq' = Reverse(seq)
    /\ UNCHANGED <<cur, out>>

Restart == cur' = 0 /\ UNCHANGED <<seq, out>>

\* Past either end there is one place, from which a walk starts again.
Forth ==
    /\ seq # <<>>
    /\ cur' = (cur + 1) % (Len(seq) + 1)
    /\ IF cur' = 0 THEN Returns("END", {}) ELSE Returns("SUCCESS", {seq[cur']})
    /\ seq' = seq

\* Going back from the only element of a sequence, the cursor stays at it.
Back ==
    /\ seq # <<>>
    /\ IF cur = 1 /\ Len(seq) = 1
       THEN cur' = 1 /\ Returns("END", {})
       ELSE /\ cur' = (cur - 1) % (Len(seq) + 1)
            /\ IF cur' = 0 THEN Returns("END", {}) ELSE Returns("SUCCESS", {seq[cur']})
    /\ seq' = seq

Next ==
    \/ \E e \in Elem : Add(e)
    \/ \E pos \in 0 .. Len(seq) - 1 : Rem(pos)
    \/ RemRefused \/ Turn \/ Restart \/ Forth \/ Back

Spec == Init /\ [][Next]_vars

=============================================================================
