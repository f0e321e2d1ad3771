--------------------------- MODULE OrderedSlabList ---------------------------
(***************************************************************************)
(* An ordered slab list: elements stay where they are added, at the end,   *)
(* and are removed and read by position.  It has the two forms of a sorted *)
(* list and shares its merging and reaping, but never gets sublayers.  A   *)
(* bookmark walks the list in both directions.                             *)
(*                                                                         *)
(* One action per API call.  A crash is a call that dereferences NULL, a   *)
(* stray pointer or a freed node: from there on the program may do         *)
(* anything, and the model stops.                                          *)
(***************************************************************************)
EXTENDS SlabChain

CONSTANTS
    CIRCULAR,       \* was the list created with SL_CIRCULAR?
    Reversing,      \* do clients call slablist_reverse?
    Careless,       \* do clients pass positions past the end, and walk or reverse
                    \* empty lists?
    ReapSlabs,      \* values clients give slablist_set_reap_slabs at the start
    CountBound      \* nothing is added once sl_elems is this high

ASSUME OrderedClientAssumption ==
    /\ CIRCULAR \in BOOLEAN /\ Reversing \in BOOLEAN /\ Careless \in BOOLEAN
    /\ ReapSlabs \subseteq Nat /\ CountBound \in Nat

VARIABLES
    sml,            \* the small list; empty in slab form
    slabs,          \* the chain of slabs; empty in small form
    sl_elems,       \* the element counter
    sl_mslabs,      \* least number of reapable slabs for a reap
    bm,             \* a bookmark: sb_node as the number of a node or slab, 0 for
                    \* NULL, and sb_index
    ret,            \* what the last call returned: a status and an element
    freed,          \* which pointers of the small list lead to a freed node; an
                    \* empty list's sl_head and sl_end that do not are NULL
    crashed         \* the last call dereferenced a bad pointer

vars == <<sml, slabs, sl_elems, sl_mslabs, bm, ret, freed, crashed>>

\* The head, the end, and the sml_next of the last node.
Pointer == {"sl_head", "sl_end", "sml_next"}

\* The share of reapable slabs for a reap keeps its default.
sl_mpslabs == 30

Status == {"SUCCESS", "EMPTY", "ENCIRC", "END"}
Result(st, es) == [st |-> st, elem |-> es]

IS_SMALL_LIST == slabs = <<>>

Crash ==
    /\ crashed' = TRUE
    /\ UNCHANGED <<sml, slabs, sl_elems, sl_mslabs, bm, ret, freed>>

Init ==
    /\ sml = <<>> /\ slabs = <<>> /\ sl_elems = 0
    /\ sl_mslabs \in ReapSlabs
    /\ bm = [node |-> 0, index |-> 0]
    /\ ret = Result("SUCCESS", {})
    /\ freed = {}
    /\ crashed = FALSE

\* Clients change the list only while no walk is under way: "If the list changes
\* between accesses using this struct, the result is undefined."
NoWalk == bm.node = 0

-----------------------------------------------------------------------------
(* Adding *)

\* May small_list_add go through sl_end?  A head that is NULL, of an empty list, it
\* takes for a sign to set both ends anew.
EndUsable == "sl_end" \notin freed \/ (sml = <<>> /\ "sl_head" \notin freed)

\* slablist_add while the small list has room.  The new node goes between sl_end and
\* what that led to, or before the head: a freed node there becomes its next.
AddSmall(e) ==
    /\ IS_SMALL_LIST /\ sl_elems <= SMELEM_MAX - 1
    /\ EndUsable
    /\ sml' = Append(sml, e) /\ sl_elems' = sl_elems + 1
    /\ freed' = IF freed \subseteq {"sl_end"} THEN {} ELSE {"sml_next"}
    /\ ret' = Result("SUCCESS", {})
    /\ UNCHANGED <<slabs, sl_mslabs, bm, crashed>>

\* slablist_add that links the new node behind a freed one.
AddFreed ==
    /\ IS_SMALL_LIST /\ sl_elems <= SMELEM_MAX - 1
    /\ ~EndUsable
    /\ Crash

\* Faulty variant of AppendTo: the maximum of the last slab is not updated.
AppendToKeepsMax(ls, e) ==
    LET s == ls[Len(ls)]
    IN  IF s.s_elems < SELEM_MAX
        THEN [ls EXCEPT ![Len(ls)] =
                 [s EXCEPT !.s_arr[s.s_elems] = e, !.s_elems = s.s_elems + 1]]
        ELSE Append(ls, add_elem(mk_slab, e, 0))

\* Put `e' at the end of the last slab, or of a new one.
AppendTo(ls, e) ==
    LET s == ls[Len(ls)]
    IN  IF s.s_elems < SELEM_MAX
        THEN [ls EXCEPT ![Len(ls)] =
                 [s EXCEPT !.s_arr[s.s_elems] = e, !.s_max = e, !.s_elems = s.s_elems + 1]]
        ELSE Append(ls, add_elem(mk_slab, e, 0))

\* slablist_add to the slabs, made from the small list first if it is full.
AddSlab(e) ==
    LET ls == IF IS_SMALL_LIST THEN <<small_list_to_slab(sml)>> ELSE slabs
    IN
    /\ IS_SMALL_LIST => sl_elems = SMELEM_MAX
    /\ sml' = <<>>
    /\ slabs' = try_reap(AppendTo(ls, e), sl_elems, sl_mslabs, sl_mpslabs)
    /\ sl_elems' = sl_elems + 1
    /\ freed' = {}
    /\ ret' = Result("SUCCESS", {})
    /\ UNCHANGED <<sl_mslabs, bm, crashed>>

Add(e) == NoWalk /\ sl_elems < CountBound /\ (AddSmall(e) \/ AddFreed \/ AddSlab(e))

-----------------------------------------------------------------------------
(* Positions *)

\* Where `pos' is in a list of `n' elements: a circular list counts round.
Wrapped(pos, n) == IF n < pos /\ CIRCULAR THEN pos % n ELSE pos

\* Elements in the first `a' slabs.
ElemsBefore(ls, a) ==
    LET before[b \in 0 .. Len(ls)] ==
            IF b = 0 THEN 0 ELSE before[b - 1] + ls[b].s_elems
    IN  before[a]

\* Faulty variant of slab_get_elem_pos: every slab but the last is taken for full.
slab_get_elem_posFull(ls, pos) ==
    [slab |-> Min({Len(ls), (pos \div SELEM_MAX) + 1}), off_pos |-> pos % SELEM_MAX]

\* The slab that holds position `pos', and the index in it: the first slab at
\* which the elements seen so far exceed the position.
slab_get_elem_pos(ls, pos) ==
    LET a == Min({b \in DOMAIN ls : ElemsBefore(ls, b) > pos})
    IN  [slab |-> a, off_pos |-> pos - ElemsBefore(ls, a - 1)]

-----------------------------------------------------------------------------
(* Removing *)

\* Faulty variant of RemBase: the list is made small when one slab would be enough.
RemBaseEarly ==
    IF slabs # <<>> /\ sl_elems = SELEM_MAX + 1
    THEN [sml |-> slab_to_small_list(slabs[1]), slabs |-> <<>>]
    ELSE [sml |-> sml, slabs |-> slabs]

\* The list a removal works on: slabs that hold SMELEM_MAX elements become a
\* small list first.  Only the head slab is copied.
RemBase ==
    IF slabs # <<>> /\ sl_elems = SMELEM_MAX
    THEN [sml |-> slab_to_small_list(slabs[1]), slabs |-> <<>>]
    ELSE [sml |-> sml, slabs |-> slabs]

\* Faulty variant of FreedBy: the end is not set back when the last node goes.
FreedByKeepsEnd(n, p) ==
    IF p = n - 1 THEN freed \union {"sl_end"} ELSE freed

\* What is freed once a small list of `n' nodes has lost the one at `p'.  The head
\* takes the next of the node it was, and sl_end stays; the last node of several hands
\* its next to the one before, which becomes the end only if that next is NULL.
FreedBy(n, p) ==
    LET stray == "sml_next" \in freed
    IN  CASE n = 1 -> {"sl_end"} \union (IF stray THEN {"sl_head"} ELSE {})
          [] n > 1 /\ p = n - 1 -> IF stray THEN {"sml_next", "sl_end"} ELSE {}
          [] n > 1 /\ p < n - 1 -> freed

\* slablist_rem from a small list.  The callback is not called.
RemSmall(pos) ==
    LET l == RemBase.sml
        p == Wrapped(pos, Len(l))
        refused == IF l = <<>> THEN {"EMPTY"} ELSE IF p > Len(l) THEN {"ENCIRC"} ELSE {}
    IN
    /\ RemBase.slabs = <<>>
    /\ slabs' = <<>>
    /\ \/ /\ refused # {}
          /\ sml' = l /\ sl_elems' = Len(l) /\ freed' = freed
          /\ \E st \in refused : ret' = Result(st, {})
       \/ /\ refused = {} /\ p < Len(l)
          /\ sml' = RemoveAt(l, p + 1) /\ sl_elems' = Len(l) - 1
          /\ freed' = FreedBy(Len(l), p)
          /\ ret' = Result("SUCCESS", {})
    /\ UNCHANGED <<sl_mslabs, bm, crashed>>

\* slablist_rem from the slabs.
RemSlab(pos) ==
    LET p  == Wrapped(pos, sl_elems)
        at == slab_get_elem_pos(slabs, p)
        s  == slabs[at.slab]
    IN
    /\ RemBase.slabs # <<>> /\ p < sl_elems
    /\ slabs' = try_reap(slab_generic_rem(
                             [slabs EXCEPT ![at.slab] = remove_elem(at.off_pos, s)], at.slab),
                         sl_elems, sl_mslabs, sl_mpslabs)
    /\ sl_elems' = sl_elems - 1
    /\ ret' = Result("SUCCESS", {s.s_arr[at.off_pos]})
    /\ UNCHANGED <<sml, sl_mslabs, bm, freed, crashed>>

\* slablist_rem past the end: a small list refuses a position above its length,
\* but for one equal to it walks to the NULL after its last node; in slab form
\* neither finds a slab.  A circular list wraps positions above its length only.
RemPast(pos) ==
    LET small == RemBase.slabs = <<>>
        n == IF small THEN Len(RemBase.sml) ELSE sl_elems
    IN
    /\ n > 0
    /\ Wrapped(pos, n) = n \/ (~small /\ Wrapped(pos, n) > n)
    /\ Crash

Rem(pos) ==
    /\ NoWalk
    /\ sl_elems > 0 /\ ~Careless => Wrapped(pos, sl_elems) < sl_elems
    /\ RemSmall(pos) \/ RemSlab(pos) \/ RemPast(pos)

-----------------------------------------------------------------------------
(* Reversing and reaping *)

\* Faulty variant of ReverseSlab: only the links between slabs are reversed.
ReverseSlabLinksOnly(s) == s

\* The slab with its live elements reversed; the extrema are left as they were.
ReverseSlab(s) ==
    [s EXCEPT !.s_arr = [j \in Index |-> IF j < s.s_elems THEN s.s_arr[s.s_elems - 1 - j]
                                         ELSE s.s_arr[j]]]

\* slablist_reverse.  The ends change places, whatever they are.
ReverseList ==
    /\ sml' = Reverse(sml)
    /\ slabs' = Reverse([a \in DOMAIN slabs |-> ReverseSlab(slabs[a])])
    /\ freed' = IF "sl_end" \in freed THEN {"sl_head"} ELSE {}
    /\ UNCHANGED <<sl_elems, sl_mslabs, bm, ret, crashed>>

\* slablist_reverse of a small list from whose head a walk by sml_next comes to a
\* freed node.
ReverseFreed == {"sl_head", "sml_next"} \intersect freed # {} /\ Crash

slablist_reverse ==
    /\ Reversing /\ NoWalk
    /\ Careless \/ sl_elems > 0
    /\ \/ {"sl_head", "sml_next"} \intersect freed = {} /\ ReverseList
       \/ ReverseFreed

Reap ==
    /\ NoWalk
    /\ slabs' = IF IS_SMALL_LIST THEN slabs ELSE slablist_reap(slabs)
    /\ UNCHANGED <<sml, sl_elems, sl_mslabs, bm, ret, freed, crashed>>

-----------------------------------------------------------------------------
(* Walking with a bookmark *)

slablist_bm_create ==
    /\ bm' = [node |-> 0, index |-> 0]
    /\ UNCHANGED <<sml, slabs, sl_elems, sl_mslabs, ret, freed, crashed>>

\* slablist_cur: the element at bookmark `b', or nothing.
slablist_cur(b) ==
    IF b.node = 0 THEN {}
    ELSE IF IS_SMALL_LIST THEN {sml[b.node]} ELSE {slabs[b.node].s_arr[b.index]}

\* The places the bookmark is moved to: forth from NULL to the first element
\* and from the last to NULL, and back the other way round.
SmallAfter ==
    [bm EXCEPT !.node = IF bm.node = Len(sml) THEN 0 ELSE bm.node + 1]

SmallBefore ==
    [bm EXCEPT !.node = IF bm.node = 0 THEN Len(sml) ELSE bm.node - 1]

\* Faulty variant of SlabAfter: the index is kept when the walk leaves a slab.
SlabAfterKeepsIndex ==
    IF bm.node = 0 THEN [node |-> 1, index |-> 0]
    ELSE IF bm.index + 1 < slabs[bm.node].s_elems
    THEN [bm EXCEPT !.index = bm.index + 1]
    ELSE [node |-> IF bm.node = Len(slabs) THEN 0 ELSE bm.node + 1, index |-> bm.index]

SlabAfter ==
    IF bm.node = 0 THEN [node |-> 1, index |-> 0]
    ELSE IF bm.index + 1 < slabs[bm.node].s_elems
    THEN [bm EXCEPT !.index = bm.index + 1]
    ELSE [node |-> IF bm.node = Len(slabs) THEN 0 ELSE bm.node + 1, index |-> 0]

LastOf(a) == [node |-> a, index |-> slabs[a].s_elems - 1]

SlabBefore ==
    CASE bm.node = 0 -> LastOf(Len(slabs))
      [] bm.node # 0 /\ bm.index > 0 -> [bm EXCEPT !.index = bm.index - 1]
      [] bm.node = 1 /\ bm.index = 0 -> [node |-> 0, index |-> -1]
      [] bm.node > 1 /\ bm.index = 0 -> LastOf(bm.node - 1)

MoveTo(b) ==
    /\ bm' = b
    /\ ret' = Result(IF b.node = 0 THEN "END" ELSE "SUCCESS", slablist_cur(b))
    /\ UNCHANGED <<sml, slabs, sl_elems, sl_mslabs, freed, crashed>>

\* slablist_prev says END at the only element of a list, but stays there.
PrevStays ==
    /\ IS_SMALL_LIST /\ sl_elems = 1 /\ bm.node = 1
    /\ ret' = Result("END", {})
    /\ UNCHANGED <<sml, slabs, sl_elems, sl_mslabs, bm, freed, crashed>>

\* An empty list has neither a first nor a last element to start at.
WalkEmpty == Careless /\ sl_elems = 0 /\ Crash

\* The walk comes to a freed node: behind the last one, or at sl_end.
NextFreed == bm.node = Len(sml) /\ "sml_next" \in freed
PrevFreed == bm.node = 0 /\ "sl_end" \in freed
WalkFreed(b) == sl_elems > 0 /\ b /\ Crash

slablist_next ==
    \/ /\ sl_elems > 0 /\ ~NextFreed
       /\ MoveTo(IF IS_SMALL_LIST THEN SmallAfter ELSE SlabAfter)
    \/ WalkFreed(NextFreed)
    \/ WalkEmpty

slablist_prev ==
    \/ PrevStays
    \/ /\ sl_elems > 0 /\ ~(IS_SMALL_LIST /\ sl_elems = 1 /\ bm.node = 1)
       /\ ~PrevFreed
       /\ MoveTo(IF IS_SMALL_LIST THEN SmallBefore ELSE SlabBefore)
    \/ WalkFreed(PrevFreed)
    \/ WalkEmpty

-----------------------------------------------------------------------------
Next ==
    /\ ~crashed
    /\ \/ \E e \in Elem : Add(e)
       \/ \E pos \in 0 .. sl_elems + 2 : Rem(pos)
       \/ slablist_reverse
       \/ Reap
       \/ slablist_bm_create
       \/ slablist_next
       \/ slablist_prev

Spec == Init /\ [][Next]_vars

-----------------------------------------------------------------------------
(* Reading the list *)

\* slablist_get at a position in the list.
slablist_get(pos) ==
    IF IS_SMALL_LIST THEN sml[Wrapped(pos, sl_elems) + 1]
    ELSE LET at == slab_get_elem_pos(slabs, Wrapped(pos, sl_elems))
         IN  slabs[at.slab].s_arr[at.off_pos]

\* slablist_head and slablist_end of a list that is not empty, the end where it is
\* not freed.
slablist_head == IF IS_SMALL_LIST THEN sml[1] ELSE slabs[1].s_min
slablist_end == IF IS_SMALL_LIST THEN sml[Len(sml)] ELSE slabs[Len(slabs)].s_max

-----------------------------------------------------------------------------
(* Properties *)

\* The live elements of the list in order.
Contents ==
    IF IS_SMALL_LIST THEN sml ELSE FlattenSeq([a \in DOMAIN slabs |-> Live(slabs[a])])

\* How far the bookmark is into the list; 0 before and after a walk.
Cursor ==
    IF bm.node = 0 \/ IS_SMALL_LIST THEN bm.node
    ELSE ElemsBefore(slabs, bm.node - 1) + bm.index + 1

\* The shapes of the state: both forms are never in use at once, only a small list has
\* freed pointers, and a bookmark under way is at a node, or at a live index of a slab.
TypeOK ==
    /\ sml \in Seq(Elem) /\ slabs \in Seq(Slab)
    /\ sml = <<>> \/ slabs = <<>>
    /\ slabs # <<>> => freed = {}
    /\ sl_elems \in Nat /\ sl_mslabs \in Nat
    /\ ret \in [st : Status, elem : SUBSET Elem]
    /\ freed \subseteq Pointer /\ crashed \in BOOLEAN
    /\ \/ bm.node = 0 /\ bm.index \in Int
       \/ bm.node \in DOMAIN sml
       \/ bm.node \in DOMAIN slabs /\ bm.index \in 0 .. slabs[bm.node].s_elems - 1

\* Two neighbouring slabs never fit into one, appending and reversing included.
NeighboursUnmergeable ==
    \A a \in 1 .. Len(slabs) - 1 :
        slabs[a].s_elems + slabs[a + 1].s_elems > SELEM_MAX

\* slablist_get returns the element at its position, whichever slab that is in,
\* and counts round in a circular list; slablist_cur returns the one at the bookmark.
GetExact ==
    /\ \A pos \in 0 .. sl_elems - 1 : slablist_get(pos) = Contents[pos + 1]
    /\ CIRCULAR => \A pos \in sl_elems + 1 .. 2 * sl_elems :
                       slablist_get(pos) = Contents[(pos % sl_elems) + 1]
    /\ bm.node # 0 => slablist_cur(bm) = {Contents[Cursor]}

\* The cached extrema of a slab are its first and last element, so slablist_head
\* and slablist_end, which read them, return the first and last of the list.
ExtremaExact ==
    /\ \A a \in DOMAIN slabs :
         /\ slabs[a].s_min = slabs[a].s_arr[0]
         /\ slabs[a].s_max = slabs[a].s_arr[slabs[a].s_elems - 1]
    /\ sl_elems > 0 => /\ slablist_head = Contents[1]
                       /\ slablist_end = Contents[sl_elems]

\* No call of a careful client dereferences a bad pointer.  The sl_end that a removed
\* last element leaves dangling is set anew by the next addition, unless the empty list
\* was reversed in between: then it is the head that dangles, and the addition and
\* walks after it would follow it.
NeverCrashes == ~crashed

\* The list, seen from outside, is a sequence of elements with a cursor, as long as no
\* call has followed a bad pointer.
Seqn == INSTANCE ElemSequence WITH seq <- Contents, cur <- Cursor, out <- ret

ImplementsElemSequence == Seqn!Spec

=============================================================================
