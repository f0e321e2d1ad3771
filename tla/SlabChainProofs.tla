---------------------------- MODULE SlabChainProofs ----------------------------
(***************************************************************************)
(* What the operations of SlabChain do to the chain of slabs: additions,    *)
(* merges and reaps take a chain without empty slabs and without two       *)
(* neighbours that fit into one to such a chain again.                     *)
(***************************************************************************)
EXTENDS SlabChain, SlabArrayProofs

\* A chain of slabs as the list keeps it between two calls.
Packed(ls) ==
    \A a \in 1 .. Len(ls) - 1 : ls[a].s_elems + ls[a + 1].s_elems > SELEM_MAX

Chain(ls) ==
    /\ ls \in Seq(Slab)
    /\ \A a \in 1 .. Len(ls) : ls[a].s_elems > 0
    /\ Packed(ls)

-----------------------------------------------------------------------------
LEMMA SlabAt ==
    ASSUME NEW ls \in Seq(Slab)
    PROVE  /\ Len(ls) \in Nat /\ DOMAIN ls = 1 .. Len(ls)
           /\ SELEM_MAX \in Nat /\ SELEM_MAX >= 2
           /\ \A a \in 1 .. Len(ls) : /\ ls[a] \in Slab
                                      /\ ls[a].s_elems \in 0 .. SELEM_MAX
<1>1. Len(ls) \in Nat /\ \A a \in 1 .. Len(ls) : ls[a] \in Slab
  BY LenProperties, ElementOfSeq
<1>2. DOMAIN ls = 1 .. Len(ls)
  BY LenProperties
<1> QED
  BY <1>1, <1>2, SlabParts, SlabSizeAssumption

\* One slab replaced, and two.
Put(ls, a, x) == [ls EXCEPT ![a] = x]
Put2(ls, a, x, b, y) == [ls EXCEPT ![a] = x, ![b] = y]

LEMMA PutProperties ==
    ASSUME NEW ls \in Seq(Slab), NEW a \in 1 .. Len(ls), NEW x \in Slab
    PROVE  /\ Put(ls, a, x) \in Seq(Slab) /\ Len(Put(ls, a, x)) = Len(ls)
           /\ \A j \in 1 .. Len(ls) : Put(ls, a, x)[j] = IF j = a THEN x ELSE ls[j]
BY ExceptSeq DEF Put

LEMMA Put2Properties ==
    ASSUME NEW ls \in Seq(Slab), NEW a \in 1 .. Len(ls), NEW b \in 1 .. Len(ls),
           NEW x \in Slab, NEW y \in Slab, a # b
    PROVE  /\ Put2(ls, a, x, b, y) \in Seq(Slab)
           /\ Len(Put2(ls, a, x, b, y)) = Len(ls)
           /\ \A j \in 1 .. Len(ls) : Put2(ls, a, x, b, y)[j] =
                  IF j = a THEN x ELSE IF j = b THEN y ELSE ls[j]
<1> DEFINE m == Put(ls, a, x)
<1>1. /\ m \in Seq(Slab) /\ Len(m) = Len(ls)
      /\ \A j \in 1 .. Len(ls) : m[j] = IF j = a THEN x ELSE ls[j]
  <2>1. m \in Seq(Slab)
    BY PutProperties
  <2>2. Len(m) = Len(ls)
    BY PutProperties
  <2>3. \A j \in 1 .. Len(ls) : m[j] = IF j = a THEN x ELSE ls[j]
    BY PutProperties
  <2> QED
    BY <2>1, <2>2, <2>3
<1>2. Put2(ls, a, x, b, y) = Put(m, b, y)
  BY DEF Put2, Put
<1> HIDE DEF m
<1>3. /\ Put(m, b, y) \in Seq(Slab) /\ Len(Put(m, b, y)) = Len(m)
      /\ \A j \in 1 .. Len(m) : Put(m, b, y)[j] = IF j = b THEN y ELSE m[j]
  <2>1. m \in Seq(Slab) /\ b \in 1 .. Len(m)
    BY <1>1
  <2> QED
    BY <2>1, PutProperties
<1> QED
  BY <1>1, <1>2, <1>3

\* A chain stays one when its slabs grow.
LEMMA GrownChain ==
    ASSUME NEW ls, Chain(ls), NEW gr \in Seq(Slab), Len(gr) = Len(ls),
           \A j \in 1 .. Len(ls) : gr[j].s_elems >= ls[j].s_elems
    PROVE  Chain(gr)
<1>0. ls \in Seq(Slab)
  BY DEF Chain
<1>1. \A j \in 1 .. Len(gr) : gr[j].s_elems > 0
  BY <1>0, SlabAt DEF Chain
<1>2. Packed(gr)
  <2> SUFFICES ASSUME NEW a \in 1 .. Len(gr) - 1
               PROVE  gr[a].s_elems + gr[a + 1].s_elems > SELEM_MAX
    BY DEF Packed
  <2>1. a \in 1 .. Len(ls) /\ a + 1 \in 1 .. Len(ls) /\ a \in 1 .. Len(ls) - 1
    BY <1>0, SlabAt
  <2>2. ls[a].s_elems + ls[a + 1].s_elems > SELEM_MAX
    BY <2>1 DEF Chain, Packed
  <2> QED
    BY <1>0, <2>1, <2>2, SlabAt
<1> QED
  BY <1>1, <1>2 DEF Chain

LEMMA GrownSlab ==
    ASSUME NEW ls, Chain(ls), NEW a \in 1 .. Len(ls), NEW x \in Slab,
           x.s_elems >= ls[a].s_elems
    PROVE  Chain(Put(ls, a, x)) /\ Len(Put(ls, a, x)) = Len(ls)
<1>0. ls \in Seq(Slab)
  BY DEF Chain
<1> DEFINE gr == Put(ls, a, x)
<1>1. /\ gr \in Seq(Slab) /\ Len(gr) = Len(ls)
      /\ \A j \in 1 .. Len(ls) : gr[j] = IF j = a THEN x ELSE ls[j]
  <2>1. gr \in Seq(Slab)
    BY <1>0, PutProperties
  <2>2. Len(gr) = Len(ls)
    BY <1>0, PutProperties
  <2>3. \A j \in 1 .. Len(ls) : gr[j] = IF j = a THEN x ELSE ls[j]
    BY <1>0, PutProperties
  <2> QED
    BY <2>1, <2>2, <2>3
<1> HIDE DEF gr
<1>2. \A j \in 1 .. Len(ls) : gr[j].s_elems >= ls[j].s_elems
  BY <1>0, <1>1, SlabAt
<1>3. Chain(gr)
  BY <1>1, <1>2, GrownChain
<1> QED
  BY <1>1, <1>3 DEF gr

\* A new slab may stand between two full ones.
LEMMA NewSlab ==
    ASSUME NEW ls, Chain(ls), NEW p \in 1 .. Len(ls) + 1, NEW x \in Slab,
           x.s_elems > 0,
           p > 1 => ls[p - 1].s_elems = SELEM_MAX,
           p <= Len(ls) => ls[p].s_elems = SELEM_MAX
    PROVE  Chain(InsertAt(ls, p, x))
<1>0. ls \in Seq(Slab)
  BY DEF Chain
<1> DEFINE r == InsertAt(ls, p, x)
<1>1. /\ r \in Seq(Slab) /\ Len(r) = Len(ls) + 1
      /\ \A j \in 1 .. Len(ls) + 1 : r[j] =
             IF j < p THEN ls[j] ELSE IF j = p THEN x ELSE ls[j - 1]
  <2>1. r \in Seq(Slab)
    BY <1>0, InsertAtProperties, SMTT(20)
  <2>2. Len(r) = Len(ls) + 1
    BY <1>0, InsertAtProperties, SMTT(20)
  <2>3. \A j \in 1 .. Len(ls) + 1 : r[j] =
            IF j < p THEN ls[j] ELSE IF j = p THEN x ELSE ls[j - 1]
    BY <1>0, InsertAtProperties, SMTT(20)
  <2> QED
    BY <2>1, <2>2, <2>3
<1> HIDE DEF r
<1>2. \A j \in 1 .. Len(r) : r[j].s_elems > 0
  <2> SUFFICES ASSUME NEW j \in 1 .. Len(ls) + 1 PROVE r[j].s_elems > 0
    BY <1>1
  <2>1. /\ j < p => j \in 1 .. Len(ls)
        /\ j > p => j - 1 \in 1 .. Len(ls)
    BY <1>0, SlabAt
  <2> QED
    <3>1. \A a \in 1 .. Len(ls) : ls[a].s_elems > 0
      BY DEF Chain
    <3>2. CASE j < p
      BY <1>1, <2>1, <3>1, <3>2
    <3>3. CASE j = p
      BY <1>1, <3>3
    <3>4. CASE j > p
      <4>1. r[j] = ls[j - 1]
        BY <1>1, <3>4
      <4> QED
        BY <2>1, <3>1, <3>4, <4>1
    <3>5. j < p \/ j = p \/ j > p
      OBVIOUS
    <3> QED
      BY <3>2, <3>3, <3>4, <3>5
<1>3. Packed(r)
  <2> SUFFICES ASSUME NEW a \in 1 .. Len(r) - 1
               PROVE  r[a].s_elems + r[a + 1].s_elems > SELEM_MAX
    BY DEF Packed
  <2>0. a \in 1 .. Len(ls)
    BY <1>0, <1>1, SlabAt
  <2>1. /\ r[a] = IF a < p THEN ls[a] ELSE IF a = p THEN x ELSE ls[a - 1]
        /\ r[a + 1] = IF a + 1 < p THEN ls[a + 1]
                      ELSE IF a + 1 = p THEN x ELSE ls[(a + 1) - 1]
    BY <1>0, <1>1, <2>0, SlabAt
  <2>2. CASE a + 1 < p
    <3>1. a \in 1 .. Len(ls) - 1
      BY <1>0, <2>0, <2>2, SlabAt
    <3> QED
      BY <1>0, <2>0, <2>1, <2>2, <3>1, SlabAt DEF Chain, Packed
  <2>3. CASE a + 1 = p
    <3>1. r[a].s_elems = SELEM_MAX /\ r[a + 1] = x
      BY <1>0, <2>0, <2>1, <2>3, SlabAt
    <3> QED
      BY <3>1, SlabParts, SlabSizeAssumption
  <2>4. CASE a = p
    <3>1. r[a] = x /\ r[a + 1].s_elems = SELEM_MAX
      BY <1>0, <2>0, <2>1, <2>4, SlabAt
    <3> QED
      BY <3>1, SlabParts, SlabSizeAssumption
  <2>5. CASE a > p
    <3>1. a - 1 \in 1 .. Len(ls) - 1 /\ (a - 1) + 1 = a /\ (a + 1) - 1 = a
      BY <1>0, <2>0, <2>5, SlabAt
    <3>2. ls[a - 1].s_elems + ls[(a - 1) + 1].s_elems > SELEM_MAX
      BY <3>1 DEF Chain, Packed
    <3> QED
      BY <1>0, <2>0, <2>1, <2>5, <3>1, <3>2, SlabAt
  <2> QED
    BY <1>0, <2>0, <2>2, <2>3, <2>4, <2>5, SlabAt
<1>4. Chain(r)
  BY <1>1, <1>2, <1>3 DEF Chain
<1> QED
  BY <1>4 DEF r

-----------------------------------------------------------------------------
(* Additions *)

LEMMA find_linear_scanRange ==
    ASSUME NEW ls \in Seq(Slab), Len(ls) > 0, NEW k
    PROVE  find_linear_scan(ls, k) \in 1 .. Len(ls)
<1> DEFINE S == {a \in DOMAIN ls : a = Len(ls) \/ k <= ls[a].s_max.key}
<1>1. DOMAIN ls = 1 .. Len(ls) /\ Len(ls) \in Nat
  BY SlabAt
<1>2. S \in SUBSET Nat /\ Len(ls) \in S
  BY <1>1
<1>3. Min(S) \in S
  BY <1>2, MinOfNats
<1> QED
  BY <1>1, <1>3 DEF find_linear_scan

LEMMA HasRoomAt ==
    ASSUME NEW ls \in Seq(Slab), NEW a \in Int
    PROVE  HasRoom(ls, a) <=> a \in 1 .. Len(ls) /\ ls[a].s_elems < SELEM_MAX
BY SlabAt DEF HasRoom

LEMMA AddIntoChain ==
    ASSUME NEW ls, Chain(ls), NEW a \in 1 .. Len(ls), NEW e \in Elem
    PROVE  Chain(AddInto(ls, a, e)) /\ Len(AddInto(ls, a, e)) = Len(ls)
<1> DEFINE i == slab_bin_srch(e.key, ls[a])
           x == add_elem(ls[a], e, i)
<1>0. ls[a] \in Slab /\ ls[a].s_elems \in 0 .. SELEM_MAX
  BY SlabAt DEF Chain
<1>1. i \in 0 .. ls[a].s_elems
  BY <1>0, slab_bin_srchRange
<1> HIDE DEF i
<1>2. x \in Slab /\ x.s_elems >= ls[a].s_elems
  BY <1>0, <1>1, add_elemIsSlab, SlabSizeAssumption
<1> HIDE DEF x
<1>3. AddInto(ls, a, e) = Put(ls, a, x)
  BY DEF AddInto, Put, i, x
<1> QED
  BY <1>2, <1>3, GrownSlab

\* Spilling into a neighbour makes that neighbour one element longer.
LEMMA addsnSlabs ==
    ASSUME NEW ls \in Seq(Slab), NEW a \in 1 .. Len(ls), a + 1 \in 1 .. Len(ls),
           ls[a].s_elems = SELEM_MAX, NEW e \in Elem, NEW q \in 0 .. SELEM_MAX
    PROVE  /\ addsn(ls, a, e, q) \in Seq(Slab)
           /\ Len(addsn(ls, a, e, q)) = Len(ls)
           /\ \A j \in 1 .. Len(ls) : addsn(ls, a, e, q)[j].s_elems =
                  IF j = a + 1 /\ ls[j].s_elems < SELEM_MAX
                  THEN ls[j].s_elems + 1 ELSE ls[j].s_elems
<1> DEFINE b     == a + 1
           s     == ls[a]
           short == DropLast(s)
           at    == IF q > short.s_elems THEN q - 1 ELSE q
           last  == s.s_arr[s.s_elems - 1]
           x     == add_elem(short, e, at)
           y     == add_elem(ls[b], last, 0)
<1>0. /\ SELEM_MAX \in Nat /\ SELEM_MAX >= 2
      /\ s \in Slab /\ s.s_elems = SELEM_MAX
      /\ ls[b] \in Slab /\ ls[b].s_elems \in 0 .. SELEM_MAX
      /\ \A j \in 1 .. Len(ls) : ls[j].s_elems \in 0 .. SELEM_MAX
  BY SlabAt
<1>b. b \in 1 .. Len(ls) /\ a # b
  OBVIOUS
<1>1. addsn(ls, a, e, q) = Put2(ls, a, x, b, y)
  BY DEF addsn, Put2
<1> HIDE DEF s, b
<1>2. short \in Slab /\ short.s_elems = SELEM_MAX - 1
  BY <1>0, DropLastIsSlab
<1> HIDE DEF short
<1>3. at \in 0 .. short.s_elems
  BY <1>0, <1>2
<1>4. last \in Elem
  <2>1. s.s_elems - 1 \in 0 .. s.s_elems - 1
    BY <1>0
  <2> QED
    BY <1>0, <2>1, SlabParts
<1> HIDE DEF at, last
<1>5. x \in Slab /\ x.s_elems = SELEM_MAX
  <2>1. /\ add_elem(short, e, at) \in Slab
        /\ add_elem(short, e, at).s_elems =
               IF short.s_elems = SELEM_MAX THEN SELEM_MAX ELSE short.s_elems + 1
    BY <1>2, <1>3, add_elemIsSlab
  <2> QED
    BY <1>0, <1>2, <2>1
<1>6. /\ y \in Slab
      /\ y.s_elems = IF ls[b].s_elems = SELEM_MAX THEN SELEM_MAX
                     ELSE ls[b].s_elems + 1
  <2>1. 0 \in 0 .. ls[b].s_elems
    BY <1>0
  <2> QED
    BY <1>0, <1>4, <2>1, add_elemIsSlab
<1> HIDE DEF x, y
<1>8. /\ addsn(ls, a, e, q) \in Seq(Slab)
      /\ Len(addsn(ls, a, e, q)) = Len(ls)
      /\ \A j \in 1 .. Len(ls) : addsn(ls, a, e, q)[j] =
             IF j = a THEN x ELSE IF j = b THEN y ELSE ls[j]
  <2>1. x \in Slab /\ y \in Slab
    BY <1>5, <1>6
  <2>2. addsn(ls, a, e, q) \in Seq(Slab)
    BY <1>b, <1>1, <2>1, Put2Properties
  <2>3. Len(addsn(ls, a, e, q)) = Len(ls)
    BY <1>b, <1>1, <2>1, Put2Properties
  <2>4. \A j \in 1 .. Len(ls) : addsn(ls, a, e, q)[j] =
            IF j = a THEN x ELSE IF j = b THEN y ELSE ls[j]
    BY SMTT(60), <1>b, <1>1, <2>1, Put2Properties
  <2> QED
    BY <2>2, <2>3, <2>4
<1> QED
  <2>1. \A j \in 1 .. Len(ls) :
            /\ j = a => addsn(ls, a, e, q)[j] = x
            /\ j = b => addsn(ls, a, e, q)[j] = y
            /\ j # a /\ j # b => addsn(ls, a, e, q)[j] = ls[j]
    BY <1>b, <1>8
  <2>2. ASSUME NEW j \in 1 .. Len(ls)
        PROVE  addsn(ls, a, e, q)[j].s_elems =
                   IF j = b /\ ls[j].s_elems < SELEM_MAX
                   THEN ls[j].s_elems + 1 ELSE ls[j].s_elems
    <3>1. CASE j = a
      BY <1>0, <1>b, <1>5, <2>1, <3>1 DEF s
    <3>2. CASE j = b
      BY <1>0, <1>b, <1>6, <2>1, <3>2
    <3>3. CASE j # a /\ j # b
      BY <2>1, <3>3
    <3> QED
      BY <3>1, <3>2, <3>3
  <2> QED
    BY <1>8, <2>2 DEF b

LEMMA addspSlabs ==
    ASSUME NEW ls \in Seq(Slab), NEW a \in 1 .. Len(ls), a - 1 \in 1 .. Len(ls),
           ls[a].s_elems = SELEM_MAX, NEW e \in Elem, NEW q \in 0 .. SELEM_MAX
    PROVE  /\ addsp(ls, a, e, q) \in Seq(Slab)
           /\ Len(addsp(ls, a, e, q)) = Len(ls)
           /\ \A j \in 1 .. Len(ls) : addsp(ls, a, e, q)[j].s_elems =
                  IF j = a - 1 /\ ls[j].s_elems < SELEM_MAX
                  THEN ls[j].s_elems + 1 ELSE ls[j].s_elems
<1> DEFINE b     == a - 1
           s     == ls[a]
           pv    == ls[b]
           at    == IF q > 0 THEN q - 1 ELSE q
           x     == add_elem(DropFirst(s), e, at)
           y     == add_elem(pv, s.s_arr[0], pv.s_elems)
<1>0. /\ SELEM_MAX \in Nat /\ SELEM_MAX >= 2
      /\ s \in Slab /\ s.s_elems = SELEM_MAX
      /\ pv \in Slab /\ pv.s_elems \in 0 .. SELEM_MAX
      /\ \A j \in 1 .. Len(ls) : ls[j].s_elems \in 0 .. SELEM_MAX
  BY SlabAt
<1>b. b \in 1 .. Len(ls) /\ a # b
  OBVIOUS
<1>1. addsp(ls, a, e, q) = Put2(ls, a, x, b, y)
  BY DEF addsp, Put2
<1> HIDE DEF s, pv, b
<1>2. DropFirst(s) \in Slab /\ DropFirst(s).s_elems = SELEM_MAX - 1
  BY <1>0, DropFirstIsSlab
<1>3. at \in 0 .. DropFirst(s).s_elems
  BY <1>0, <1>2
<1>4. s.s_arr[0] \in Elem
  <2>1. 0 \in 0 .. s.s_elems - 1
    BY <1>0
  <2> QED
    BY <1>0, <2>1, SlabParts
<1> HIDE DEF at
<1>5. x \in Slab /\ x.s_elems = SELEM_MAX
  <2> DEFINE d == DropFirst(s)
  <2>1. /\ add_elem(d, e, at) \in Slab
        /\ add_elem(d, e, at).s_elems =
               IF d.s_elems = SELEM_MAX THEN SELEM_MAX ELSE d.s_elems + 1
    BY <1>2, <1>3, add_elemIsSlab
  <2> QED
    BY <1>0, <1>2, <2>1
<1>6. /\ y \in Slab
      /\ y.s_elems = IF pv.s_elems = SELEM_MAX THEN SELEM_MAX ELSE pv.s_elems + 1
  <2>1. pv.s_elems \in 0 .. pv.s_elems
    BY <1>0
  <2> QED
    BY <1>0, <1>4, <2>1, add_elemIsSlab
<1> HIDE DEF x, y
<1>8. /\ addsp(ls, a, e, q) \in Seq(Slab)
      /\ Len(addsp(ls, a, e, q)) = Len(ls)
      /\ \A j \in 1 .. Len(ls) : addsp(ls, a, e, q)[j] =
             IF j = a THEN x ELSE IF j = b THEN y ELSE ls[j]
  <2>1. x \in Slab /\ y \in Slab
    BY <1>5, <1>6
  <2> QED
    BY <1>b, <1>1, <2>1, Put2Properties
<1> QED
  BY SMTT(60), <1>0, <1>5, <1>6, <1>8 DEF s, pv, b

\* A spill into a neighbour that is there leaves a chain.
LEMMA SpillChain ==
    ASSUME NEW ls, Chain(ls), NEW a \in 1 .. Len(ls), ls[a].s_elems = SELEM_MAX,
           NEW e \in Elem, NEW q \in 0 .. SELEM_MAX
    PROVE  /\ a + 1 \in 1 .. Len(ls) => Chain(addsn(ls, a, e, q))
           /\ a - 1 \in 1 .. Len(ls) => Chain(addsp(ls, a, e, q))
<1>0. ls \in Seq(Slab)
  BY DEF Chain
<1>1. \A j \in 1 .. Len(ls) : ls[j].s_elems \in Int /\ ls[j].s_elems + 1 >= ls[j].s_elems
  BY <1>0, SlabAt
<1>2. ASSUME a + 1 \in 1 .. Len(ls) PROVE Chain(addsn(ls, a, e, q))
  <2> DEFINE r == addsn(ls, a, e, q)
  <2>1. /\ r \in Seq(Slab) /\ Len(r) = Len(ls)
        /\ \A j \in 1 .. Len(ls) : r[j].s_elems =
               IF j = a + 1 /\ ls[j].s_elems < SELEM_MAX
               THEN ls[j].s_elems + 1 ELSE ls[j].s_elems
    BY <1>0, <1>2, addsnSlabs
  <2> HIDE DEF r
  <2>2. \A j \in 1 .. Len(ls) : r[j].s_elems >= ls[j].s_elems
    BY <1>1, <2>1
  <2>3. Chain(r)
    BY <2>1, <2>2, GrownChain
  <2> QED
    BY <2>3 DEF r
<1>3. ASSUME a - 1 \in 1 .. Len(ls) PROVE Chain(addsp(ls, a, e, q))
  <2> DEFINE r == addsp(ls, a, e, q)
  <2>1. /\ r \in Seq(Slab) /\ Len(r) = Len(ls)
        /\ \A j \in 1 .. Len(ls) : r[j].s_elems =
               IF j = a - 1 /\ ls[j].s_elems < SELEM_MAX
               THEN ls[j].s_elems + 1 ELSE ls[j].s_elems
    BY <1>0, <1>3, addspSlabs
  <2> HIDE DEF r
  <2>2. \A j \in 1 .. Len(ls) : r[j].s_elems >= ls[j].s_elems
    BY <1>1, <2>1
  <2>3. Chain(r)
    BY <2>1, <2>2, GrownChain
  <2> QED
    BY <2>3 DEF r
<1> QED
  BY <1>2, <1>3

\* A slab with the one element `e'.
LEMMA OneElemSlab ==
    ASSUME NEW e \in Elem
    PROVE  add_elem(mk_slab, e, 0) \in Slab /\ add_elem(mk_slab, e, 0).s_elems = 1
<1>1. mk_slab \in Slab /\ mk_slab.s_elems = 0 /\ 0 \in 0 .. mk_slab.s_elems
  BY mk_slabIsSlab
<1>2. /\ add_elem(mk_slab, e, 0) \in Slab
      /\ add_elem(mk_slab, e, 0).s_elems =
             IF mk_slab.s_elems = SELEM_MAX THEN SELEM_MAX ELSE mk_slab.s_elems + 1
  BY <1>1, add_elemIsSlab
<1> QED
  BY <1>1, <1>2, SlabSizeAssumption

\* A spill into a new next slab leaves a chain when there is no room elsewhere.
LEMMA SpillNewChain ==
    ASSUME NEW ls, Chain(ls), NEW a \in 1 .. Len(ls), ls[a].s_elems = SELEM_MAX,
           a + 1 \in 1 .. Len(ls) => ls[a + 1].s_elems = SELEM_MAX,
           NEW e \in Elem, NEW q \in 0 .. SELEM_MAX
    PROVE  Chain(addsn(InsertAt(ls, a + 1, mk_slab), a, e, q))
<1> DEFINE p   == a + 1
           z   == InsertAt(ls, p, mk_slab)
           one == add_elem(mk_slab, e, 0)
           m   == InsertAt(ls, p, one)
           r   == addsn(z, a, e, q)
<1>0. /\ ls \in Seq(Slab) /\ Len(ls) \in Nat /\ SELEM_MAX \in Nat /\ SELEM_MAX >= 2
      /\ \A j \in 1 .. Len(ls) : ls[j].s_elems \in 0 .. SELEM_MAX
  BY SlabAt DEF Chain
<1>1. p \in 1 .. Len(ls) + 1
  BY <1>0
<1>2. mk_slab \in Slab /\ mk_slab.s_elems = 0 /\ one \in Slab /\ one.s_elems = 1
  BY mk_slabIsSlab, OneElemSlab
<1> HIDE DEF one
<1>3. /\ z \in Seq(Slab) /\ Len(z) = Len(ls) + 1
      /\ \A j \in 1 .. Len(ls) + 1 : z[j] =
             IF j < p THEN ls[j] ELSE IF j = p THEN mk_slab ELSE ls[j - 1]
  <2> HIDE DEF p
  <2> QED
    BY <1>0, <1>1, <1>2, InsertAtProperties
<1>4. /\ m \in Seq(Slab) /\ Len(m) = Len(ls) + 1
      /\ \A j \in 1 .. Len(ls) + 1 : m[j] =
             IF j < p THEN ls[j] ELSE IF j = p THEN one ELSE ls[j - 1]
  <2> HIDE DEF p
  <2> QED
    BY <1>0, <1>1, <1>2, InsertAtProperties
<1>5. Chain(m)
  <2>1. /\ p > 1 => ls[p - 1].s_elems = SELEM_MAX
        /\ p <= Len(ls) => ls[p].s_elems = SELEM_MAX
    BY <1>0
  <2> HIDE DEF p
  <2> QED
    BY <1>1, <1>2, <2>1, NewSlab
<1> HIDE DEF z, m
<1>6. /\ a \in 1 .. Len(z) /\ a + 1 \in 1 .. Len(z) /\ z[a].s_elems = SELEM_MAX
  BY <1>0, <1>3
<1>7. /\ r \in Seq(Slab) /\ Len(r) = Len(z)
      /\ \A j \in 1 .. Len(z) : r[j].s_elems =
             IF j = a + 1 /\ z[j].s_elems < SELEM_MAX
             THEN z[j].s_elems + 1 ELSE z[j].s_elems
  BY <1>3, <1>6, addsnSlabs
<1> HIDE DEF r
<1>8. \A j \in 1 .. Len(m) : r[j].s_elems >= m[j].s_elems
  <2> SUFFICES ASSUME NEW j \in 1 .. Len(ls) + 1 PROVE r[j].s_elems >= m[j].s_elems
    BY <1>4
  <2>1. CASE j = p
    BY <1>0, <1>2, <1>3, <1>4, <1>7, <2>1
  <2>2. CASE j # p
    <3>1. z[j] = m[j] /\ r[j].s_elems = z[j].s_elems
      BY <1>3, <1>4, <1>7, <2>2
    <3>2. m[j].s_elems \in Int
      BY <1>4, SlabAt
    <3> QED
      BY <3>1, <3>2
  <2> QED
    BY <2>1, <2>2
<1>9. Chain(r)
  BY <1>3, <1>4, <1>5, <1>7, <1>8, GrownChain
<1> QED
  BY <1>9 DEF r, z

\* Replacing an element leaves the counts alone.
Replaced(ls, a, i, e) == [ls EXCEPT ![a].s_arr[i] = e]

LEMMA ReplaceChain ==
    ASSUME NEW ls, Chain(ls), NEW a \in 1 .. Len(ls), NEW e \in Elem, NEW i
    PROVE  Chain(Replaced(ls, a, i, e))
<1> DEFINE s == ls[a]
           arr == [s.s_arr EXCEPT ![i] = e]
           x == [s EXCEPT !.s_arr = arr]
<1>0. s \in Slab /\ s.s_elems \in Int
  BY SlabAt DEF Chain
<1>1. arr \in [Index -> Slot] /\ \A j \in 0 .. s.s_elems - 1 : arr[j] \in Elem
  <2>0. /\ s.s_elems \in 0 .. SELEM_MAX /\ s.s_arr \in [Index -> Slot]
        /\ \A j \in 0 .. s.s_elems - 1 : s.s_arr[j] \in Elem
    BY <1>0, SlabParts
  <2>1. arr \in [Index -> Slot]
    BY <2>0, ElemIsSlot
  <2>2. 0 .. s.s_elems - 1 \subseteq Index
    BY <2>0, SlabSizeAssumption DEF Index
  <2> HIDE DEF s
  <2>3. \A j \in Index : arr[j] = IF j = i THEN e ELSE s.s_arr[j]
    BY <2>0
  <2> QED
    BY <2>0, <2>1, <2>2, <2>3
<1> HIDE DEF arr
<1>2. x \in Slab /\ x.s_elems = s.s_elems
  <2> HIDE DEF s
  <2>1. /\ x \in [s_min : Slot, s_max : Slot, s_elems : 0 .. SELEM_MAX,
                  s_arr : [Index -> Slot]]
        /\ x.s_arr = arr /\ x.s_elems = s.s_elems
    BY <1>0, <1>1 DEF Slab
  <2> QED
    BY <1>1, <2>1, RawSlab
<1>3. Replaced(ls, a, i, e) = Put(ls, a, x)
  BY DEF Put, Replaced, arr
<1> HIDE DEF x
<1>4. x.s_elems >= ls[a].s_elems
  BY <1>0, <1>2
<1>5. Chain(Put(ls, a, x))
  BY <1>2, <1>4, GrownSlab
<1> QED
  BY <1>3, <1>5

LEMMA gen_add_iraChain ==
    ASSUME NEW ls, Chain(ls), NEW a \in 1 .. Len(ls), NEW e \in Elem, NEW rep
    PROVE  Chain(gen_add_ira(ls, a, e, rep))
<1> DEFINE s   == ls[a]
           i   == slab_bin_srch(e.key, s)
           dup == s.s_arr[i].key = e.key
<1>0. /\ ls \in Seq(Slab) /\ s \in Slab /\ s.s_elems \in 0 .. SELEM_MAX
      /\ SELEM_MAX \in Nat
      /\ \A j \in 1 .. Len(ls) : ls[j].s_elems \in 0 .. SELEM_MAX
  BY SlabAt DEF Chain
<1>1. i \in 0 .. SELEM_MAX
  BY <1>0, slab_bin_srchRange
<1>2. CASE dup /\ rep = 0
  BY <1>2 DEF gen_add_ira
<1>3. CASE dup /\ rep # 0
  <2>1. gen_add_ira(ls, a, e, rep) = Replaced(ls, a, i, e)
    BY <1>3 DEF gen_add_ira, Replaced
  <2> HIDE DEF i
  <2> QED
    BY <2>1, ReplaceChain
<1>4. CASE ~dup /\ (s.s_elems < SELEM_MAX \/ rep # 0)
  <2>1. gen_add_ira(ls, a, e, rep) = AddInto(ls, a, e)
    BY <1>4 DEF gen_add_ira
  <2> QED
    BY <2>1, AddIntoChain
<1>5. CASE ~dup /\ ~(s.s_elems < SELEM_MAX \/ rep # 0)
  <2>1. gen_add_ira(ls, a, e, rep) =
            IF HasRoom(ls, a + 1) THEN addsn(ls, a, e, i)
            ELSE IF HasRoom(ls, a - 1) THEN addsp(ls, a, e, i)
            ELSE addsn(InsertAt(ls, a + 1, mk_slab), a, e, i)
    BY <1>5 DEF gen_add_ira
  <2> HIDE DEF i
  <2>2. s.s_elems = SELEM_MAX
    BY <1>0, <1>5
  <2>3. HasRoom(ls, a + 1) => Chain(addsn(ls, a, e, i))
    BY <1>1, <2>2, SpillChain DEF HasRoom, Chain
  <2>4. HasRoom(ls, a - 1) => Chain(addsp(ls, a, e, i))
    BY <1>1, <2>2, SpillChain DEF HasRoom, Chain
  <2>5. ~HasRoom(ls, a + 1) => Chain(addsn(InsertAt(ls, a + 1, mk_slab), a, e, i))
    <3>1. ~HasRoom(ls, a + 1) /\ a + 1 \in 1 .. Len(ls) => ls[a + 1].s_elems = SELEM_MAX
      BY <1>0, HasRoomAt
    <3> QED
      BY <1>1, <2>2, <3>1, SpillNewChain
  <2> QED
    BY <2>1, <2>3, <2>4, <2>5
<1> QED
  BY <1>2, <1>3, <1>4, <1>5

LEMMA gen_add_uraChain ==
    ASSUME NEW ls, Chain(ls), NEW a \in 1 .. Len(ls), NEW e \in Elem
    PROVE  Chain(gen_add_ura(ls, a, e))
<1> DEFINE q == slab_bin_srch(e.key, ls[a])
           one == add_elem(mk_slab, e, 0)
<1>0. /\ ls \in Seq(Slab) /\ ls[a] \in Slab /\ ls[a].s_elems \in 0 .. SELEM_MAX
      /\ \A j \in 1 .. Len(ls) : ls[j].s_elems \in 0 .. SELEM_MAX
      /\ SELEM_MAX \in Nat /\ Len(ls) \in Nat
  BY SlabAt DEF Chain
<1>1. q \in 0 .. SELEM_MAX
  BY <1>0, slab_bin_srchRange
<1>2. \A j \in Int : HasRoom(ls, j) <=> j \in 1 .. Len(ls) /\ ls[j].s_elems < SELEM_MAX
  BY <1>0, HasRoomAt
<1>3. gen_add_ura(ls, a, e) =
          IF HasRoom(ls, a) THEN AddInto(ls, a, e)
          ELSE IF HasRoom(ls, a - 1) THEN AddInto(ls, a - 1, e)
          ELSE IF HasRoom(ls, a + 1) THEN addsn(ls, a, e, q)
          ELSE InsertAt(ls, a, one)
  BY DEF gen_add_ura
<1> HIDE DEF q, one
<1>4. HasRoom(ls, a) => Chain(AddInto(ls, a, e))
  BY AddIntoChain
<1>5. HasRoom(ls, a - 1) => Chain(AddInto(ls, a - 1, e))
  BY <1>2, AddIntoChain
<1>6. ~HasRoom(ls, a) => ls[a].s_elems = SELEM_MAX
  BY <1>0, <1>2
<1>7. ~HasRoom(ls, a) /\ HasRoom(ls, a + 1) => Chain(addsn(ls, a, e, q))
  BY <1>1, <1>2, <1>6, SpillChain
<1>8. ~HasRoom(ls, a) /\ ~HasRoom(ls, a - 1) => Chain(InsertAt(ls, a, one))
  <2>1. one \in Slab /\ one.s_elems > 0
    BY OneElemSlab DEF one
  <2>2. ~HasRoom(ls, a - 1) /\ a > 1 => ls[a - 1].s_elems = SELEM_MAX
    BY <1>0, <1>2
  <2>3. a \in 1 .. Len(ls) + 1
    BY <1>0
  <2> QED
    BY <1>6, <2>1, <2>2, <2>3, NewSlab
<1> QED
  BY <1>3, <1>4, <1>5, <1>7, <1>8

LEMMA gen_add_oraChain ==
    ASSUME NEW ls, Chain(ls), NEW a \in 1 .. Len(ls), NEW e \in Elem
    PROVE  Chain(gen_add_ora(ls, a, e))
<1> DEFINE q == slab_bin_srch(e.key, ls[a])
           one == add_elem(mk_slab, e, 0)
           n == a + 1
<1>0. /\ ls \in Seq(Slab) /\ ls[a] \in Slab /\ ls[a].s_elems \in 0 .. SELEM_MAX
      /\ \A j \in 1 .. Len(ls) : ls[j].s_elems \in 0 .. SELEM_MAX
      /\ SELEM_MAX \in Nat /\ Len(ls) \in Nat
  BY SlabAt DEF Chain
<1>1. q \in 0 .. SELEM_MAX
  BY <1>0, slab_bin_srchRange
<1>2. \A j \in Int : HasRoom(ls, j) <=> j \in 1 .. Len(ls) /\ ls[j].s_elems < SELEM_MAX
  BY <1>0, HasRoomAt
<1>3. gen_add_ora(ls, a, e) =
          IF HasRoom(ls, a) THEN AddInto(ls, a, e)
          ELSE IF HasRoom(ls, n) THEN AddInto(ls, n, e)
          ELSE IF HasRoom(ls, a - 1) THEN addsp(ls, a, e, q)
          ELSE InsertAt(ls, n, one)
  BY DEF gen_add_ora
<1> HIDE DEF q, one
<1>4. HasRoom(ls, a) => Chain(AddInto(ls, a, e))
  BY AddIntoChain
<1>5. HasRoom(ls, n) => Chain(AddInto(ls, n, e))
  BY <1>2, AddIntoChain
<1>6. ~HasRoom(ls, a) => ls[a].s_elems = SELEM_MAX
  BY <1>0, <1>2
<1>7. ~HasRoom(ls, a) /\ HasRoom(ls, a - 1) => Chain(addsp(ls, a, e, q))
  BY <1>1, <1>2, <1>6, SpillChain
<1>8. ~HasRoom(ls, a) /\ ~HasRoom(ls, n) => Chain(InsertAt(ls, n, one))
  <2>1. one \in Slab /\ one.s_elems > 0
    BY OneElemSlab DEF one
  <2>2. ~HasRoom(ls, n) /\ n <= Len(ls) => ls[n].s_elems = SELEM_MAX
    BY <1>0, <1>2
  <2>3. n \in 1 .. Len(ls) + 1 /\ n - 1 = a
    BY <1>0
  <2> HIDE DEF n
  <2> QED
    BY <1>6, <2>1, <2>2, <2>3, NewSlab
<1> QED
  BY <1>3, <1>4, <1>5, <1>7, <1>8

LEMMA slab_gen_addChain ==
    ASSUME NEW ls, Chain(ls), Len(ls) > 0, NEW e \in Elem, NEW rep
    PROVE  Chain(slab_gen_add(ls, e, rep))
<1> DEFINE a == find_linear_scan(ls, e.key)
<1>1. a \in 1 .. Len(ls)
  BY find_linear_scanRange DEF Chain
<1>2. sl_bnd_elem(e.key, ls[a]) \in {"IN", "UNDER", "OVER"}
  BY DEF sl_bnd_elem
<1>3. slab_gen_add(ls, e, rep) \in {gen_add_ira(ls, a, e, rep),
                                    gen_add_ura(ls, a, e), gen_add_ora(ls, a, e)}
  BY <1>2 DEF slab_gen_add
<1> QED
  BY <1>1, <1>3, gen_add_iraChain, gen_add_uraChain, gen_add_oraChain

-----------------------------------------------------------------------------
(* Removals *)

\* What is left is a chain when a superfluous slab is unlinked.
LEMMA UnlinkedChain ==
    ASSUME NEW z \in Seq(Slab), NEW p \in 1 .. Len(z),
           \A j \in 1 .. Len(z) : j # p => z[j].s_elems > 0,
           \A j \in 1 .. Len(z) - 1 :
               j # p /\ j + 1 # p => z[j].s_elems + z[j + 1].s_elems > SELEM_MAX,
           p > 1 /\ p < Len(z) => z[p - 1].s_elems + z[p + 1].s_elems > SELEM_MAX
    PROVE  Chain(RemoveAt(z, p)) /\ Len(RemoveAt(z, p)) = Len(z) - 1
<1> DEFINE r == RemoveAt(z, p)
<1>0. Len(z) \in Nat
  BY SlabAt
<1>1. /\ r \in Seq(Slab) /\ Len(r) = Len(z) - 1
      /\ \A j \in 1 .. Len(z) - 1 : r[j] = IF j < p THEN z[j] ELSE z[j + 1]
  BY RemoveAtProperties
<1> HIDE DEF r
<1>2. \A j \in 1 .. Len(r) : r[j].s_elems > 0
  BY <1>0, <1>1
<1>3. Packed(r)
  <2> SUFFICES ASSUME NEW a \in 1 .. Len(r) - 1
               PROVE  r[a].s_elems + r[a + 1].s_elems > SELEM_MAX
    BY DEF Packed
  <2>1. /\ r[a] = IF a < p THEN z[a] ELSE z[a + 1]
        /\ r[a + 1] = IF a + 1 < p THEN z[a + 1] ELSE z[a + 2]
    <3>1. a \in 1 .. Len(z) - 1 /\ a + 1 \in 1 .. Len(z) - 1 /\ (a + 1) + 1 = a + 2
      BY <1>0, <1>1
    <3> QED
      BY <1>1, <3>1
  <2>2. CASE a + 1 < p
    <3>1. a \in 1 .. Len(z) - 1 /\ a # p /\ a + 1 # p /\ a < p
      BY <1>0, <1>1, <2>2
    <3> QED
      BY <2>1, <2>2, <3>1
  <2>3. CASE a + 1 = p
    <3>1. p > 1 /\ p < Len(z) /\ a = p - 1 /\ a + 2 = p + 1 /\ a < p
      BY <1>0, <1>1, <2>3
    <3> QED
      BY <2>1, <2>3, <3>1
  <2>4. CASE a + 1 > p
    <3>1. /\ a + 1 \in 1 .. Len(z) - 1 /\ a + 1 # p /\ (a + 1) + 1 # p
          /\ ~(a < p) /\ ~(a + 1 < p) /\ (a + 1) + 1 = a + 2
      BY <1>0, <1>1, <2>4
    <3>2. z[a + 1].s_elems + z[(a + 1) + 1].s_elems > SELEM_MAX
      BY <3>1
    <3> QED
      BY <2>1, <3>1, <3>2
  <2> QED
    BY <2>2, <2>3, <2>4
<1>4. Chain(r)
  BY <1>1, <1>2, <1>3 DEF Chain
<1> QED
  BY <1>1, <1>4 DEF r

\* Moving between neighbours only shifts their counts.
LEMMA ToNextSlabs ==
    ASSUME NEW ls \in Seq(Slab), NEW a \in 1 .. Len(ls), a + 1 \in 1 .. Len(ls)
    PROVE  /\ ToNext(ls, a) \in Seq(Slab) /\ Len(ToNext(ls, a)) = Len(ls)
           /\ \A j \in 1 .. Len(ls) : ToNext(ls, a)[j].s_elems =
                  IF j = a THEN ls[a].s_elems - CopyCount(ls[a], ls[a + 1])
                  ELSE IF j = a + 1
                  THEN ls[a + 1].s_elems + CopyCount(ls[a], ls[a + 1])
                  ELSE ls[j].s_elems
<1> DEFINE b  == a + 1
           mv == move_to_next(ls[a], ls[b])
           x  == mv[1]
           y  == mv[2]
<1>1. b \in 1 .. Len(ls) /\ a # b
  OBVIOUS
<1>2. ToNext(ls, a) = Put2(ls, a, x, b, y)
  BY DEF ToNext, Put2
<1> HIDE DEF b
<1>3. ls[a] \in Slab /\ ls[b] \in Slab
  BY <1>1, SlabAt
<1>4. /\ x \in Slab /\ y \in Slab
      /\ x.s_elems = ls[a].s_elems - CopyCount(ls[a], ls[b])
      /\ y.s_elems = ls[b].s_elems + CopyCount(ls[a], ls[b])
  BY <1>3, move_to_nextIsSlab
<1> HIDE DEF x, y
<1>5. /\ ToNext(ls, a) \in Seq(Slab) /\ Len(ToNext(ls, a)) = Len(ls)
      /\ \A j \in 1 .. Len(ls) : ToNext(ls, a)[j] =
             IF j = a THEN x ELSE IF j = b THEN y ELSE ls[j]
  <2>1. x \in Slab /\ y \in Slab
    BY <1>4
  <2>2. /\ Put2(ls, a, x, b, y) \in Seq(Slab)
        /\ Len(Put2(ls, a, x, b, y)) = Len(ls)
        /\ \A j \in 1 .. Len(ls) : Put2(ls, a, x, b, y)[j] =
               IF j = a THEN x ELSE IF j = b THEN y ELSE ls[j]
    BY <1>1, <2>1, Put2Properties
  <2> QED
    BY <1>2, <2>2
<1>6. \A j \in 1 .. Len(ls) : ToNext(ls, a)[j].s_elems =
          IF j = a THEN ls[a].s_elems - CopyCount(ls[a], ls[b])
          ELSE IF j = b THEN ls[b].s_elems + CopyCount(ls[a], ls[b])
          ELSE ls[j].s_elems
  BY <1>1, <1>4, <1>5
<1> QED
  BY <1>5, <1>6 DEF b

LEMMA ToPrevSlabs ==
    ASSUME NEW ls \in Seq(Slab), NEW a \in 1 .. Len(ls), a - 1 \in 1 .. Len(ls)
    PROVE  /\ ToPrev(ls, a) \in Seq(Slab) /\ Len(ToPrev(ls, a)) = Len(ls)
           /\ \A j \in 1 .. Len(ls) : ToPrev(ls, a)[j].s_elems =
                  IF j = a THEN ls[a].s_elems - CopyCount(ls[a], ls[a - 1])
                  ELSE IF j = a - 1
                  THEN ls[a - 1].s_elems + CopyCount(ls[a], ls[a - 1])
                  ELSE ls[j].s_elems
<1> DEFINE b  == a - 1
           mv == move_to_prev(ls[a], ls[b])
           x  == mv[1]
           y  == mv[2]
<1>1. b \in 1 .. Len(ls) /\ a # b
  OBVIOUS
<1>2. ToPrev(ls, a) = Put2(ls, a, x, b, y)
  BY DEF ToPrev, Put2
<1> HIDE DEF b
<1>3. ls[a] \in Slab /\ ls[b] \in Slab
  BY <1>1, SlabAt
<1>4. /\ x \in Slab /\ y \in Slab
      /\ x.s_elems = ls[a].s_elems - CopyCount(ls[a], ls[b])
      /\ y.s_elems = ls[b].s_elems + CopyCount(ls[a], ls[b])
  BY <1>3, move_to_prevIsSlab
<1> HIDE DEF x, y
<1>5. /\ ToPrev(ls, a) \in Seq(Slab) /\ Len(ToPrev(ls, a)) = Len(ls)
      /\ \A j \in 1 .. Len(ls) : ToPrev(ls, a)[j] =
             IF j = a THEN x ELSE IF j = b THEN y ELSE ls[j]
  <2>1. x \in Slab /\ y \in Slab
    BY <1>4
  <2>2. /\ Put2(ls, a, x, b, y) \in Seq(Slab)
        /\ Len(Put2(ls, a, x, b, y)) = Len(ls)
        /\ \A j \in 1 .. Len(ls) : Put2(ls, a, x, b, y)[j] =
               IF j = a THEN x ELSE IF j = b THEN y ELSE ls[j]
    BY <1>1, <2>1, Put2Properties
  <2> QED
    BY <1>2, <2>2
<1>6. \A j \in 1 .. Len(ls) : ToPrev(ls, a)[j].s_elems =
          IF j = a THEN ls[a].s_elems - CopyCount(ls[a], ls[b])
          ELSE IF j = b THEN ls[b].s_elems + CopyCount(ls[a], ls[b])
          ELSE ls[j].s_elems
  BY <1>1, <1>4, <1>5
<1> QED
  BY <1>5, <1>6 DEF b

\* How much moves: all of it, or what fills the neighbour.
LEMMA CopyCountCases ==
    ASSUME NEW s \in Slab, NEW d \in Slab
    PROVE  CopyCount(s, d) = IF s.s_elems <= SELEM_MAX - d.s_elems
                             THEN s.s_elems ELSE SELEM_MAX - d.s_elems
BY SlabParts, SlabSizeAssumption DEF CopyCount, SLAB_FREE_SPACE

\* A chain one element of which was just removed from slab `m'.
Dented(ls, m) ==
    /\ ls \in Seq(Slab) /\ m \in 1 .. Len(ls)
    /\ \A j \in 1 .. Len(ls) : j # m => ls[j].s_elems > 0
    /\ \A j \in 1 .. Len(ls) - 1 :
          ls[j].s_elems + ls[j + 1].s_elems >=
              IF j = m \/ j + 1 = m THEN SELEM_MAX ELSE SELEM_MAX + 1

LEMMA DentedFacts ==
    ASSUME NEW ls, NEW m, Dented(ls, m)
    PROVE  /\ ls \in Seq(Slab) /\ m \in 1 .. Len(ls) /\ Len(ls) \in Nat
           /\ SELEM_MAX \in Nat /\ SELEM_MAX >= 2
           /\ \A j \in 1 .. Len(ls) : ls[j] \in Slab /\ ls[j].s_elems \in 0 .. SELEM_MAX
           /\ \A j \in 1 .. Len(ls) : j # m => ls[j].s_elems > 0
           /\ \A j \in 1 .. Len(ls) - 1 : j # m /\ j + 1 # m =>
                  ls[j].s_elems + ls[j + 1].s_elems > SELEM_MAX
           /\ m < Len(ls) => ls[m].s_elems + ls[m + 1].s_elems >= SELEM_MAX
           /\ m > 1 => ls[m - 1].s_elems + ls[m].s_elems >= SELEM_MAX
<1>1. /\ ls \in Seq(Slab) /\ m \in 1 .. Len(ls)
      /\ \A j \in 1 .. Len(ls) : j # m => ls[j].s_elems > 0
  BY DEF Dented
<1>2. /\ Len(ls) \in Nat /\ SELEM_MAX \in Nat /\ SELEM_MAX >= 2
      /\ \A j \in 1 .. Len(ls) : ls[j] \in Slab /\ ls[j].s_elems \in 0 .. SELEM_MAX
  BY <1>1, SlabAt
<1>3. \A j \in 1 .. Len(ls) - 1 :
          ls[j].s_elems + ls[j + 1].s_elems >=
              IF j = m \/ j + 1 = m THEN SELEM_MAX ELSE SELEM_MAX + 1
  BY DEF Dented
<1>4. \A j \in 1 .. Len(ls) - 1 : j # m /\ j + 1 # m =>
          ls[j].s_elems + ls[j + 1].s_elems > SELEM_MAX
  <2> SUFFICES ASSUME NEW j \in 1 .. Len(ls) - 1, j # m, j + 1 # m
               PROVE  ls[j].s_elems + ls[j + 1].s_elems > SELEM_MAX
    OBVIOUS
  <2>1. j \in 1 .. Len(ls) /\ j + 1 \in 1 .. Len(ls)
    BY <1>2
  <2>2. ls[j].s_elems + ls[j + 1].s_elems >= SELEM_MAX + 1
    BY <1>3
  <2> QED
    BY <1>2, <2>1, <2>2
<1>5. m < Len(ls) => ls[m].s_elems + ls[m + 1].s_elems >= SELEM_MAX
  BY <1>1, <1>2, <1>3
<1>6. m > 1 => ls[m - 1].s_elems + ls[m].s_elems >= SELEM_MAX
  <2> SUFFICES ASSUME m > 1 PROVE ls[m - 1].s_elems + ls[m].s_elems >= SELEM_MAX
    OBVIOUS
  <2>1. m - 1 \in 1 .. Len(ls) - 1 /\ (m - 1) + 1 = m
    BY <1>1, <1>2
  <2> QED
    BY <1>3, <2>1
<1> QED
  BY <1>1, <1>2, <1>4, <1>5, <1>6

LEMMA DentedChain ==
    ASSUME NEW ls, Chain(ls), NEW m \in 1 .. Len(ls), NEW x \in Slab,
           x.s_elems = ls[m].s_elems - 1
    PROVE  Dented(Put(ls, m, x), m) /\ Len(Put(ls, m, x)) = Len(ls)
<1> DEFINE d == Put(ls, m, x)
<1>0. /\ ls \in Seq(Slab) /\ Len(ls) \in Nat /\ SELEM_MAX \in Nat
      /\ \A j \in 1 .. Len(ls) : ls[j].s_elems \in 0 .. SELEM_MAX
      /\ \A j \in 1 .. Len(ls) : ls[j].s_elems > 0
  BY SlabAt DEF Chain
<1>1. /\ d \in Seq(Slab) /\ Len(d) = Len(ls)
      /\ \A j \in 1 .. Len(ls) : d[j] = IF j = m THEN x ELSE ls[j]
  <2>1. ls \in Seq(Slab)
    BY <1>0
  <2> QED
    BY <2>1, PutProperties
<1> HIDE DEF d
<1>2. \A j \in 1 .. Len(d) : j # m => d[j].s_elems > 0
  BY <1>0, <1>1
<1>3. ASSUME NEW j \in 1 .. Len(d) - 1
      PROVE  d[j].s_elems + d[j + 1].s_elems >=
                 IF j = m \/ j + 1 = m THEN SELEM_MAX ELSE SELEM_MAX + 1
  <2>1. j \in 1 .. Len(ls) /\ j + 1 \in 1 .. Len(ls) /\ j \in 1 .. Len(ls) - 1
    BY <1>0, <1>1
  <2>2. ls[j].s_elems + ls[j + 1].s_elems > SELEM_MAX
    BY <2>1 DEF Chain, Packed
  <2>3. /\ d[j].s_elems = IF j = m THEN ls[j].s_elems - 1 ELSE ls[j].s_elems
        /\ d[j + 1].s_elems = IF j + 1 = m THEN ls[j + 1].s_elems - 1
                              ELSE ls[j + 1].s_elems
    BY <1>1, <2>1
  <2> QED
    BY SMTT(60), <1>0, <2>1, <2>2, <2>3
<1>4. Dented(d, m)
  BY <1>1, <1>2, <1>3 DEF Dented
<1> QED
  BY <1>1, <1>4 DEF d

\* Unlinking slab `m' once the other slabs have taken its elements.
LEMMA MergedChain ==
    ASSUME NEW ls, NEW m, Dented(ls, m),
           NEW z \in Seq(Slab), Len(z) = Len(ls),
           \A j \in 1 .. Len(ls) : j # m => z[j].s_elems >= ls[j].s_elems,
           m > 1 /\ m < Len(ls) => z[m - 1].s_elems + z[m + 1].s_elems > SELEM_MAX
    PROVE  Chain(RemoveAt(z, m))
<1>0. /\ m \in 1 .. Len(ls) /\ Len(ls) \in Nat /\ SELEM_MAX \in Nat
      /\ \A j \in 1 .. Len(ls) : ls[j].s_elems \in 0 .. SELEM_MAX
      /\ \A j \in 1 .. Len(ls) : j # m => ls[j].s_elems > 0
      /\ \A j \in 1 .. Len(ls) - 1 : j # m /\ j + 1 # m =>
             ls[j].s_elems + ls[j + 1].s_elems > SELEM_MAX
  <2>1. m \in 1 .. Len(ls) /\ Len(ls) \in Nat /\ SELEM_MAX \in Nat
    BY DentedFacts
  <2>2. \A j \in 1 .. Len(ls) : ls[j].s_elems \in 0 .. SELEM_MAX
    BY DentedFacts
  <2>3. \A j \in 1 .. Len(ls) : j # m => ls[j].s_elems > 0
    BY DentedFacts
  <2>4. \A j \in 1 .. Len(ls) - 1 : j # m /\ j + 1 # m =>
            ls[j].s_elems + ls[j + 1].s_elems > SELEM_MAX
    BY DentedFacts
  <2> QED
    BY <2>1, <2>2, <2>3, <2>4
<1>1. \A j \in 1 .. Len(ls) : z[j].s_elems \in 0 .. SELEM_MAX
  BY SlabAt
<1>2. \A j \in 1 .. Len(z) : j # m => z[j].s_elems > 0
  BY <1>0, <1>1
<1>3. ASSUME NEW j \in 1 .. Len(z) - 1, j # m, j + 1 # m
      PROVE  z[j].s_elems + z[j + 1].s_elems > SELEM_MAX
  <2>1. j \in 1 .. Len(ls) /\ j + 1 \in 1 .. Len(ls)
    BY <1>0
  <2>2. ls[j].s_elems + ls[j + 1].s_elems > SELEM_MAX
    BY <1>0, <1>3
  <2>3. z[j].s_elems >= ls[j].s_elems /\ z[j + 1].s_elems >= ls[j + 1].s_elems
    BY <1>3, <2>1
  <2> QED
    BY <1>0, <1>1, <2>1, <2>2, <2>3
<1> QED
  BY <1>0, <1>2, <1>3, UnlinkedChain

LEMMA MergeNextChain ==
    ASSUME NEW ls, NEW m, Dented(ls, m), m < Len(ls),
           ls[m].s_elems <= SELEM_MAX - ls[m + 1].s_elems
    PROVE  Chain(RemoveAt(ToNext(ls, m), m))
<1> DEFINE n  == m + 1
           z  == ToNext(ls, m)
           em == ls[m].s_elems
           en == ls[n].s_elems
<1>0. /\ ls \in Seq(Slab) /\ m \in 1 .. Len(ls) /\ n \in 1 .. Len(ls) /\ n # m
      /\ ls[m] \in Slab /\ ls[n] \in Slab /\ SELEM_MAX \in Nat
      /\ em \in 0 .. SELEM_MAX /\ en \in 1 .. SELEM_MAX
      /\ \A j \in 1 .. Len(ls) : ls[j].s_elems \in 0 .. SELEM_MAX
  BY SMTT(60), DentedFacts
<1>1. CopyCount(ls[m], ls[n]) = em
  BY <1>0, CopyCountCases
<1>2. /\ z \in Seq(Slab) /\ Len(z) = Len(ls)
      /\ \A j \in 1 .. Len(ls) : z[j].s_elems =
             IF j = m THEN em - em ELSE IF j = n THEN en + em ELSE ls[j].s_elems
  BY <1>0, <1>1, ToNextSlabs
<1> HIDE DEF z
<1>3. \A j \in 1 .. Len(ls) : j # m => z[j].s_elems >= ls[j].s_elems
  <2> HIDE DEF n
  <2> QED
    BY <1>0, <1>2, SMTT(30)
<1>4. m > 1 /\ m < Len(ls) => z[m - 1].s_elems + z[m + 1].s_elems > SELEM_MAX
  <2> SUFFICES ASSUME m > 1 PROVE z[m - 1].s_elems + z[n].s_elems > SELEM_MAX
    OBVIOUS
  <2> DEFINE p == m - 1
             ep == ls[p].s_elems
  <2>1. p \in 1 .. Len(ls) /\ p # m /\ p # n
    BY <1>0
  <2>2. ep + em >= SELEM_MAX /\ ep \in 0 .. SELEM_MAX
    BY <2>1, DentedFacts
  <2>3. z[p].s_elems = ep /\ z[n].s_elems = en + em
    <3> HIDE DEF n, p
    <3> QED
      BY <1>0, <1>2, <2>1
  <2> HIDE DEF ep, em, en
  <2> QED
    BY <1>0, <2>2, <2>3
<1>5. Chain(RemoveAt(z, m))
  BY <1>2, <1>3, <1>4, MergedChain
<1> QED
  BY <1>5 DEF z

LEMMA MergePrevChain ==
    ASSUME NEW ls, NEW m, Dented(ls, m), m > 1,
           ls[m].s_elems <= SELEM_MAX - ls[m - 1].s_elems
    PROVE  Chain(RemoveAt(ToPrev(ls, m), m))
<1> DEFINE p  == m - 1
           z  == ToPrev(ls, m)
           em == ls[m].s_elems
           ep == ls[p].s_elems
<1>0. /\ ls \in Seq(Slab) /\ m \in 1 .. Len(ls) /\ p \in 1 .. Len(ls) /\ p # m
      /\ ls[m] \in Slab /\ ls[p] \in Slab /\ SELEM_MAX \in Nat
      /\ em \in 0 .. SELEM_MAX /\ ep \in 1 .. SELEM_MAX
      /\ \A j \in 1 .. Len(ls) : ls[j].s_elems \in 0 .. SELEM_MAX
  BY SMTT(60), DentedFacts
<1>1. CopyCount(ls[m], ls[p]) = em
  BY <1>0, CopyCountCases
<1>2. /\ z \in Seq(Slab) /\ Len(z) = Len(ls)
      /\ \A j \in 1 .. Len(ls) : z[j].s_elems =
             IF j = m THEN em - em ELSE IF j = p THEN ep + em ELSE ls[j].s_elems
  <2>1. z \in Seq(Slab)
    BY <1>0, ToPrevSlabs
  <2>2. Len(z) = Len(ls)
    BY <1>0, ToPrevSlabs
  <2>3. \A j \in 1 .. Len(ls) : z[j].s_elems =
            IF j = m THEN em - em ELSE IF j = p THEN ep + em ELSE ls[j].s_elems
    BY <1>0, <1>1, ToPrevSlabs
  <2> QED
    BY <2>1, <2>2, <2>3
<1> HIDE DEF z
<1>3. \A j \in 1 .. Len(ls) : j # m => z[j].s_elems >= ls[j].s_elems
  <2> HIDE DEF p
  <2> QED
    BY <1>0, <1>2, SMTT(30)
<1>4. m > 1 /\ m < Len(ls) => z[m - 1].s_elems + z[m + 1].s_elems > SELEM_MAX
  <2> SUFFICES ASSUME m < Len(ls) PROVE z[p].s_elems + z[m + 1].s_elems > SELEM_MAX
    OBVIOUS
  <2> DEFINE n == m + 1
             en == ls[n].s_elems
  <2>1. n \in 1 .. Len(ls) /\ n # m /\ p # n
    BY <1>0
  <2>2. em + en >= SELEM_MAX /\ en \in 0 .. SELEM_MAX
    BY <2>1, DentedFacts
  <2>3. z[n].s_elems = en /\ z[p].s_elems = ep + em
    <3> HIDE DEF n, p
    <3> QED
      BY <1>0, <1>2, <2>1
  <2> HIDE DEF ep, em, en
  <2> QED
    BY <1>0, <2>2, <2>3
<1>5. Chain(RemoveAt(z, m))
  BY <1>2, <1>3, <1>4, MergedChain
<1> QED
  BY <1>5 DEF z

LEMMA MergeBothChain ==
    ASSUME NEW ls, NEW m, Dented(ls, m), m > 1, m < Len(ls),
           ls[m].s_elems > SELEM_MAX - ls[m + 1].s_elems,
           ls[m].s_elems <= (SELEM_MAX - ls[m - 1].s_elems) + (SELEM_MAX - ls[m + 1].s_elems)
    PROVE  Chain(RemoveAt(ToPrev(ToNext(ls, m), m), m))
<1> DEFINE n  == m + 1
           p  == m - 1
           y  == ToNext(ls, m)
           z  == ToPrev(y, m)
           em == ls[m].s_elems
           en == ls[n].s_elems
           ep == ls[p].s_elems
           c  == SELEM_MAX - en
           r  == em - c
<1>0. /\ ls \in Seq(Slab) /\ m \in 1 .. Len(ls) /\ SELEM_MAX \in Nat
      /\ n \in 1 .. Len(ls) /\ n # m /\ p \in 1 .. Len(ls) /\ p # m /\ p # n
      /\ ls[m] \in Slab /\ ls[n] \in Slab
      /\ em \in 0 .. SELEM_MAX /\ en \in 1 .. SELEM_MAX /\ ep \in 1 .. SELEM_MAX
      /\ \A j \in 1 .. Len(ls) : ls[j].s_elems \in 0 .. SELEM_MAX
  <2>1. /\ ls \in Seq(Slab) /\ m \in 1 .. Len(ls) /\ SELEM_MAX \in Nat
        /\ \A j \in 1 .. Len(ls) : ls[j] \in Slab /\ ls[j].s_elems \in 0 .. SELEM_MAX
    BY DentedFacts
  <2>2. \A j \in 1 .. Len(ls) : j # m => ls[j].s_elems > 0
    BY DentedFacts
  <2>3. n \in 1 .. Len(ls) /\ n # m /\ p \in 1 .. Len(ls) /\ p # m /\ p # n
    BY <2>1
  <2>4. ls[m] \in Slab /\ ls[n] \in Slab
    BY <2>1, <2>3
  <2> HIDE DEF n, p
  <2>5. em \in 0 .. SELEM_MAX
    BY <2>1
  <2>6. en \in 1 .. SELEM_MAX
    BY <2>1, <2>2, <2>3
  <2>7. ep \in 1 .. SELEM_MAX
    BY <2>1, <2>2, <2>3
  <2> QED
    BY <2>1, <2>3, <2>4, <2>5, <2>6, <2>7
<1>1. CopyCount(ls[m], ls[n]) = c
  <2> HIDE DEF n
  <2>1. CopyCount(ls[m], ls[n]) = IF em <= c THEN em ELSE c
    BY <1>0, CopyCountCases
  <2>2. ~(em <= c)
    <3>1. em > c
      BY DEF n
    <3> HIDE DEF em, c
    <3>2. em \in Nat /\ c \in Int
      BY <1>0 DEF em, c
    <3> QED
      BY <3>1, <3>2
  <2> QED
    BY <2>1, <2>2
<1>2. /\ y \in Seq(Slab) /\ Len(y) = Len(ls)
      /\ \A j \in 1 .. Len(ls) : y[j].s_elems =
             IF j = m THEN em - c ELSE IF j = n THEN en + c ELSE ls[j].s_elems
  <2> HIDE DEF c
  <2> QED
    BY SMTT(60), <1>0, <1>1, ToNextSlabs
<1>3. r \in Nat /\ r <= SELEM_MAX - ep /\ en + c = SELEM_MAX /\ c >= 0
  <2> HIDE DEF em, en, ep
  <2>1. em > SELEM_MAX - en /\ em <= (SELEM_MAX - ep) + (SELEM_MAX - en)
    BY DEF em, en, ep
  <2> QED
    BY <1>0, <2>1, SMTT(30)
<1> HIDE DEF y, n, p
<1>4. y[m].s_elems = r /\ y[p].s_elems = ep /\ y[m] \in Slab /\ y[p] \in Slab
  <2>1. y[m] \in Slab /\ y[p] \in Slab
    BY <1>0, <1>2, SlabAt
  <2> HIDE DEF c, em, en
  <2> QED
    BY <1>0, <1>2, <2>1
<1> HIDE DEF em, en, ep, c, r
<1>5. CopyCount(y[m], y[p]) = r
  BY <1>3, <1>4, CopyCountCases
<1>6. /\ z \in Seq(Slab) /\ Len(z) = Len(ls)
      /\ \A j \in 1 .. Len(ls) : z[j].s_elems =
             IF j = m THEN r - r ELSE IF j = p THEN ep + r ELSE y[j].s_elems
  <2>1. m \in 1 .. Len(y) /\ m - 1 \in 1 .. Len(y) /\ p = m - 1
    BY <1>0, <1>2 DEF p
  <2> QED
    BY <1>2, <1>4, <1>5, <2>1, ToPrevSlabs
<1> HIDE DEF z
<1>7. \A j \in 1 .. Len(ls) : j # m => z[j].s_elems >= ls[j].s_elems
  <2> SUFFICES ASSUME NEW j \in 1 .. Len(ls), j # m
               PROVE  z[j].s_elems >= ls[j].s_elems
    OBVIOUS
  <2>1. CASE j = p
    BY <1>0, <1>3, <1>6, <2>1 DEF ep
  <2>2. CASE j = n
    <3>1. z[n].s_elems = y[n].s_elems /\ y[n].s_elems = en + c
      BY <1>0, <1>2, <1>6
    <3>2. z[n].s_elems >= en
      BY <1>0, <1>3, <3>1
    <3> QED
      BY <2>2, <3>2 DEF en
  <2>3. CASE j # p /\ j # n
    BY <1>0, <1>2, <1>6, <2>3
  <2> QED
    BY <2>1, <2>2, <2>3
<1>8. m > 1 /\ m < Len(ls) => z[m - 1].s_elems + z[m + 1].s_elems > SELEM_MAX
  <2>1. z[p].s_elems = ep + r /\ z[n].s_elems = SELEM_MAX
    BY <1>0, <1>2, <1>3, <1>6
  <2>2. p = m - 1 /\ n = m + 1
    BY DEF p, n
  <2>3. ep + r > 0
    BY <1>0, <1>3
  <2> QED
    BY <1>0, <1>3, <2>1, <2>2, <2>3
<1>9. Chain(RemoveAt(z, m))
  BY <1>6, <1>7, <1>8, MergedChain
<1> QED
  BY <1>9 DEF z, y

\* Every merge of slab_generic_rem that can happen leaves a chain.
LEMMA slab_generic_remChain ==
    ASSUME NEW ls, NEW m, Dented(ls, m)
    PROVE  Chain(slab_generic_rem(ls, m))
<1> DEFINE n == m + 1
           p == m - 1
           hasN == n \in DOMAIN ls
           hasP == p \in DOMAIN ls
           em == ls[m].s_elems
           en == ls[n].s_elems
           ep == ls[p].s_elems
<1>0. /\ ls \in Seq(Slab) /\ m \in 1 .. Len(ls) /\ Len(ls) \in Nat /\ SELEM_MAX \in Nat
      /\ \A j \in 1 .. Len(ls) : ls[j].s_elems \in 0 .. SELEM_MAX
      /\ \A j \in 1 .. Len(ls) : j # m => ls[j].s_elems > 0
      /\ \A j \in 1 .. Len(ls) - 1 : j # m /\ j + 1 # m =>
             ls[j].s_elems + ls[j + 1].s_elems > SELEM_MAX
      /\ m < Len(ls) => em + en >= SELEM_MAX
      /\ m > 1 => ep + em >= SELEM_MAX
  <2>1. /\ ls \in Seq(Slab) /\ m \in 1 .. Len(ls) /\ Len(ls) \in Nat
        /\ SELEM_MAX \in Nat
    BY DentedFacts
  <2>2. \A j \in 1 .. Len(ls) : ls[j].s_elems \in 0 .. SELEM_MAX
    BY DentedFacts
  <2>3. \A j \in 1 .. Len(ls) : j # m => ls[j].s_elems > 0
    BY DentedFacts
  <2>4. \A j \in 1 .. Len(ls) - 1 : j # m /\ j + 1 # m =>
            ls[j].s_elems + ls[j + 1].s_elems > SELEM_MAX
    BY DentedFacts
  <2>5. m < Len(ls) => em + en >= SELEM_MAX
    BY DentedFacts
  <2>6. m > 1 => ep + em >= SELEM_MAX
    BY DentedFacts
  <2> QED
    BY <2>1, <2>2, <2>3, <2>4, <2>5, <2>6
<1>1. /\ hasN <=> m < Len(ls)
      /\ hasP <=> m > 1
      /\ em \in 0 .. SELEM_MAX
      /\ hasN => en \in 1 .. SELEM_MAX
      /\ hasP => ep \in 1 .. SELEM_MAX
  <2>1. DOMAIN ls = 1 .. Len(ls)
    BY <1>0, SlabAt
  <2> QED
    BY <1>0, <2>1
<1> DEFINE fitsN == hasN /\ em <= SELEM_MAX - en
           fitsP == hasP /\ em <= SELEM_MAX - ep
           fitsB == hasP /\ hasN /\ em <= (SELEM_MAX - ep) + (SELEM_MAX - en)
           deadN == hasP /\ hasN /\ en <= (SELEM_MAX - em) + (SELEM_MAX - ep)
           deadP == hasP /\ hasN /\ ep <= (SELEM_MAX - em) + (SELEM_MAX - en)
<1>2. slab_generic_rem(ls, m) =
          IF em = 0 THEN RemoveAt(ls, m)
          ELSE IF fitsN THEN RemoveAt(ToNext(ls, m), m)
          ELSE IF fitsP THEN RemoveAt(ToPrev(ls, m), m)
          ELSE IF fitsB THEN RemoveAt(ToPrev(ToNext(ls, m), m), m)
          ELSE IF deadN THEN RemoveAt(ToPrev(ToPrev(ls, m), n), n)
          ELSE IF deadP THEN RemoveAt(ToNext(ToNext(ls, m), p), p)
          ELSE ls
  BY DEF slab_generic_rem, SLAB_FREE_SPACE
<1>3. em = 0 => Chain(RemoveAt(ls, m))
  <2> SUFFICES ASSUME em = 0 PROVE Chain(RemoveAt(ls, m))
    OBVIOUS
  <2>1. m > 1 /\ m < Len(ls) => ls[m - 1].s_elems + ls[m + 1].s_elems > SELEM_MAX
    <3> HIDE DEF ep, en, em
    <3>1. m > 1 /\ m < Len(ls) => ep + en > SELEM_MAX
      BY <1>0, <1>1
    <3> QED
      BY <3>1 DEF ep, en
  <2>2. \A j \in 1 .. Len(ls) : j # m => ls[j].s_elems >= ls[j].s_elems
    BY <1>0
  <2> QED
    BY <1>0, <2>1, <2>2, MergedChain
<1>4. fitsN => Chain(RemoveAt(ToNext(ls, m), m))
  BY <1>1, MergeNextChain
<1>5. fitsP => Chain(RemoveAt(ToPrev(ls, m), m))
  BY <1>1, MergePrevChain
<1>6. fitsB /\ ~fitsN => Chain(RemoveAt(ToPrev(ToNext(ls, m), m), m))
  <2>1. fitsB /\ ~fitsN => em > SELEM_MAX - en
    <3> HIDE DEF em, en, ep, hasN, hasP
    <3> QED
      BY <1>0, <1>1
  <2> QED
    BY <1>1, <2>1, MergeBothChain
<1>7. ~fitsB => ~deadN /\ ~deadP
  <2> HIDE DEF em, en, ep, hasN, hasP
  <2> QED
    BY <1>0, <1>1
<1>8. em # 0 /\ ~fitsN /\ ~fitsP => Chain(ls)
  <2> SUFFICES ASSUME em # 0, ~fitsN, ~fitsP PROVE Chain(ls)
    OBVIOUS
  <2>1. \A j \in 1 .. Len(ls) : ls[j].s_elems > 0
    BY <1>0, <1>1
  <2>2. /\ hasN => em + en > SELEM_MAX
        /\ hasP => ep + em > SELEM_MAX
    <3> HIDE DEF em, en, ep, hasN, hasP
    <3> QED
      BY <1>0, <1>1
  <2>3. ASSUME NEW j \in 1 .. Len(ls) - 1
        PROVE  ls[j].s_elems + ls[j + 1].s_elems > SELEM_MAX
    <3>1. CASE j = m
      <4>1. hasN
        BY <1>0, <1>1, <3>1
      <4> QED
        BY <2>2, <3>1, <4>1
    <3>2. CASE j + 1 = m
      <4>1. hasP /\ j = p
        BY <1>0, <1>1, <3>2
      <4> QED
        BY <2>2, <3>2, <4>1
    <3> QED
      BY <1>0, <3>1, <3>2
  <2> QED
    BY <1>0, <2>1, <2>3 DEF Chain, Packed
<1> HIDE DEF fitsN, fitsP, fitsB, deadN, deadP, em
<1> QED
  BY <1>2, <1>3, <1>4, <1>5, <1>6, <1>7, <1>8

-----------------------------------------------------------------------------
(* Reaping *)

\* The chain while slablist_reap has slab `i' behind it: of all neighbours,
\* only the two slabs after `i' may fit into one.
Reaped(ls, i) ==
    /\ ls \in Seq(Slab) /\ Len(ls) > 0
    /\ \A j \in 1 .. Len(ls) : ls[j].s_elems > 0
    /\ \A j \in 1 .. Len(ls) - 1 :
          j # i + 1 => ls[j].s_elems + ls[j + 1].s_elems > SELEM_MAX

LEMMA ReapStepReaped ==
    ASSUME NEW ls, NEW i \in Nat, Reaped(ls, i)
    PROVE  Reaped(ReapStep(ls, i + 1), i + 1) /\ Len(ReapStep(ls, i + 1)) <= Len(ls)
<1> DEFINE a == i + 1
           b == a + 1
           E(j) == ls[j].s_elems
           z == ToPrev(ls, b)
           c == CopyCount(ls[b], ls[a])
<1>0. /\ ls \in Seq(Slab) /\ Len(ls) \in Nat /\ Len(ls) > 0 /\ SELEM_MAX \in Nat
      /\ \A j \in 1 .. Len(ls) : ls[j] \in Slab /\ E(j) \in 1 .. SELEM_MAX
  <2>1. /\ ls \in Seq(Slab) /\ Len(ls) > 0
        /\ \A j \in 1 .. Len(ls) : ls[j].s_elems > 0
    BY DEF Reaped
  <2> QED
    BY <2>1, SlabAt
<1>1. \A j \in 1 .. Len(ls) - 1 : j # a => E(j) + E(j + 1) > SELEM_MAX
  BY DEF Reaped
<1>2. CASE a >= Len(ls) \/ E(a) = SELEM_MAX
  <2>1. ReapStep(ls, a) = ls
    BY <1>2 DEF ReapStep
  <2>2. ASSUME NEW j \in 1 .. Len(ls) - 1
        PROVE  E(j) + E(j + 1) > SELEM_MAX
    <3>1. j \in 1 .. Len(ls) /\ j + 1 \in 1 .. Len(ls)
      BY <1>0
    <3>2. CASE j = a
      <4>1. E(j) = SELEM_MAX
        BY <1>0, <1>2, <3>2
      <4> QED
        BY <1>0, <3>1, <4>1
    <3> QED
      BY <1>1, <3>2
  <2>3. Reaped(ls, a)
    BY <1>0, <2>2 DEF Reaped
  <2> QED
    BY <1>0, <2>1, <2>3
<1>3. CASE ~(a >= Len(ls) \/ E(a) = SELEM_MAX)
  <2>1. ReapStep(ls, a) = IF z[b].s_elems = 0 THEN RemoveAt(z, b) ELSE z
    BY <1>3 DEF ReapStep
  <2>2. a \in 1 .. Len(ls) /\ b \in 1 .. Len(ls) /\ b - 1 = a /\ a # b
    BY <1>0, <1>3
  <2>3. /\ ls[a] \in Slab /\ ls[b] \in Slab
        /\ E(a) \in 1 .. SELEM_MAX - 1 /\ E(b) \in 1 .. SELEM_MAX
    BY <1>0, <1>3, <2>2
  <2>4. /\ c \in Nat /\ c > 0 /\ E(b) - c \in 0 .. SELEM_MAX
        /\ E(b) - c # 0 => E(a) + c = SELEM_MAX
        /\ E(b) - c = 0 => c = E(b)
    <3>1. c = IF E(b) <= SELEM_MAX - E(a) THEN E(b) ELSE SELEM_MAX - E(a)
      BY <2>3, CopyCountCases
    <3> DEFINE ea == E(a)
               eb == E(b)
    <3> HIDE DEF c, ea, eb
    <3>2. /\ ea \in 1 .. SELEM_MAX - 1 /\ eb \in 1 .. SELEM_MAX
          /\ c = IF eb <= SELEM_MAX - ea THEN eb ELSE SELEM_MAX - ea
      BY <2>3, <3>1 DEF ea, eb
    <3>3. /\ c \in Nat /\ c > 0 /\ eb - c \in 0 .. SELEM_MAX
          /\ eb - c # 0 => ea + c = SELEM_MAX
          /\ eb - c = 0 => c = eb
      BY <1>0, <3>2
    <3> QED
      BY <3>3 DEF ea, eb
  <2> HIDE DEF c
  <2>5. /\ z \in Seq(Slab) /\ Len(z) = Len(ls)
        /\ \A j \in 1 .. Len(ls) : z[j].s_elems =
               IF j = b THEN E(b) - c ELSE IF j = a THEN E(a) + c ELSE E(j)
    <3> HIDE DEF a
    <3>1. b - 1 \in 1 .. Len(ls) /\ b \in 1 .. Len(ls)
      BY <2>2
    <3>2. /\ z \in Seq(Slab) /\ Len(z) = Len(ls)
          /\ \A j \in 1 .. Len(ls) : z[j].s_elems =
                 IF j = b THEN ls[b].s_elems - CopyCount(ls[b], ls[b - 1])
                 ELSE IF j = b - 1
                 THEN ls[b - 1].s_elems + CopyCount(ls[b], ls[b - 1])
                 ELSE ls[j].s_elems
      <4> HIDE DEF b
      <4> QED
        BY <1>0, <3>1, ToPrevSlabs
    <3> QED
      BY <2>2, <3>2 DEF c
  <2> HIDE DEF z, b
  <2>6. \A j \in 1 .. Len(ls) : j # b => z[j].s_elems >= E(j) /\ z[j].s_elems \in Int
    <3> SUFFICES ASSUME NEW j \in 1 .. Len(ls), j # b
                 PROVE  z[j].s_elems >= E(j) /\ z[j].s_elems \in Int
      OBVIOUS
    <3>1. E(j) \in Int /\ E(a) \in Int
      BY <1>0, <2>3
    <3>2. z[j].s_elems = IF j = a THEN E(a) + c ELSE E(j)
      BY <2>5
    <3> QED
      BY <2>4, <3>1, <3>2
  <2>7. ASSUME NEW j \in 1 .. Len(ls) - 1, j # b, j + 1 # b
        PROVE  z[j].s_elems + z[j + 1].s_elems > SELEM_MAX
    <3>1. j \in 1 .. Len(ls) /\ j + 1 \in 1 .. Len(ls) /\ j # a
      BY <1>0, <2>7 DEF b
    <3>2. E(j) + E(j + 1) > SELEM_MAX
      BY <1>1, <3>1
    <3>3. E(j) \in Int /\ E(j + 1) \in Int
      BY <1>0, <3>1
    <3>4. /\ z[j].s_elems >= E(j) /\ z[j].s_elems \in Int
          /\ z[j + 1].s_elems >= E(j + 1) /\ z[j + 1].s_elems \in Int
      BY <2>6, <2>7, <3>1
    <3> QED
      BY <1>0, <3>2, <3>3, <3>4
  <2>8. CASE z[b].s_elems = 0
    <3>1. ReapStep(ls, a) = RemoveAt(z, b)
      BY <2>1, <2>8
    <3>2. c = E(b) /\ z[a].s_elems = E(a) + E(b)
      BY <2>2, <2>4, <2>5, <2>8
    <3>3. \A j \in 1 .. Len(z) : j # b => z[j].s_elems > 0
      <4> SUFFICES ASSUME NEW j \in 1 .. Len(ls), j # b PROVE z[j].s_elems > 0
        BY <2>5
      <4>1. z[j].s_elems >= E(j) /\ z[j].s_elems \in Int /\ E(j) \in 1 .. SELEM_MAX
        BY <1>0, <2>6
      <4> QED
        BY <1>0, <4>1
    <3>4. b > 1 /\ b < Len(z) => z[b - 1].s_elems + z[b + 1].s_elems > SELEM_MAX
      <4> SUFFICES ASSUME b < Len(ls)
                   PROVE  z[a].s_elems + z[b + 1].s_elems > SELEM_MAX
        BY <2>2, <2>5
      <4> DEFINE d == b + 1
      <4>1. d \in 1 .. Len(ls) /\ d # a /\ d # b /\ b \in 1 .. Len(ls) - 1
        BY <1>0, <2>2 DEF b
      <4>2. E(b) + E(d) > SELEM_MAX
        BY <1>1, <2>2, <4>1
      <4>3. z[d].s_elems = E(d)
        <5> HIDE DEF d
        <5> QED
          BY <2>5, <4>1
      <4>4. E(d) \in Int
        BY <1>0, <4>1
      <4> QED
        BY <1>0, <2>3, <3>2, <4>2, <4>3, <4>4, SMTT(30)
    <3>5. \A j \in 1 .. Len(z) - 1 : j # b /\ j + 1 # b =>
              z[j].s_elems + z[j + 1].s_elems > SELEM_MAX
      BY <2>5, <2>7
    <3>6. Chain(RemoveAt(z, b)) /\ Len(RemoveAt(z, b)) = Len(z) - 1
      BY <2>2, <2>5, <3>3, <3>4, <3>5, UnlinkedChain
    <3>7. Len(RemoveAt(z, b)) > 0
      BY <1>0, <1>3, <2>5, <3>6
    <3>8. Reaped(RemoveAt(z, b), a)
      BY <3>6, <3>7 DEF Reaped, Chain, Packed
    <3> QED
      BY <1>0, <2>5, <3>1, <3>6, <3>8
  <2>9. CASE z[b].s_elems # 0
    <3>1. ReapStep(ls, a) = z
      BY <2>1, <2>9
    <3>2. z[b].s_elems \in 1 .. SELEM_MAX /\ z[a].s_elems = SELEM_MAX
      BY SMTT(60), <1>0, <2>2, <2>4, <2>5, <2>9
    <3>3. \A j \in 1 .. Len(z) : z[j].s_elems > 0
      <4> SUFFICES ASSUME NEW j \in 1 .. Len(ls), j # b PROVE z[j].s_elems > 0
        BY <1>0, <2>5, <3>2
      <4>1. z[j].s_elems >= E(j) /\ z[j].s_elems \in Int /\ E(j) \in 1 .. SELEM_MAX
        BY <1>0, <2>6
      <4> QED
        BY <1>0, <4>1
    <3>4. ASSUME NEW j \in 1 .. Len(z) - 1, j # a + 1
          PROVE  z[j].s_elems + z[j + 1].s_elems > SELEM_MAX
      <4>1. CASE j + 1 = b
        <5>1. j = a
          BY <2>2, <4>1 DEF b
        <5> QED
          BY <1>0, <3>2, <4>1, <5>1
      <4>2. CASE j + 1 # b
        <5>1. j # b
          BY <3>4 DEF b
        <5> QED
          BY <2>5, <2>7, <4>2, <5>1
      <4> QED
        BY <4>1, <4>2
    <3>5. Reaped(z, a)
      BY <1>0, <2>5, <3>3, <3>4 DEF Reaped
    <3> QED
      BY <1>0, <2>5, <3>1, <3>5
  <2> QED
    BY <2>8, <2>9
<1> QED
  BY <1>2, <1>3

\* The states of the reaping loop after each iteration.
IsReaping(f, ls, n) ==
    f = [i \in 0 .. n |-> IF i = 0 THEN ls ELSE ReapStep(f[i - 1], i)]

LEMMA ReapingExists ==
    ASSUME NEW ls, NEW N \in Nat
    PROVE  \E f : IsReaping(f, ls, N)
<1> DEFINE S == {n \in Nat : \E f : IsReaping(f, ls, n)}
<1>1. 0 \in S
  <2> DEFINE f == [i \in 0 .. 0 |-> ls]
  <2>1. f = [i \in 0 .. 0 |-> IF i = 0 THEN ls ELSE ReapStep(f[i - 1], i)]
    OBVIOUS
  <2>2. IsReaping(f, ls, 0)
    BY <2>1 DEF IsReaping
  <2> QED
    BY <2>2
<1>2. ASSUME NEW n \in Nat, n \in S
      PROVE  n + 1 \in S
  <2>1. PICK f : IsReaping(f, ls, n)
    BY <1>2
  <2> DEFINE g == [i \in 0 .. n + 1 |-> IF i = n + 1 THEN ReapStep(f[n], n + 1) ELSE f[i]]
             h == [i \in 0 .. n + 1 |-> IF i = 0 THEN ls ELSE ReapStep(g[i - 1], i)]
  <2>2. \A i \in 0 .. n : f[i] = IF i = 0 THEN ls ELSE ReapStep(f[i - 1], i)
    BY <2>1 DEF IsReaping
  <2>3. \A i \in 0 .. n + 1 : g[i] = h[i]
    <3> SUFFICES ASSUME NEW i \in 0 .. n + 1 PROVE g[i] = h[i]
      OBVIOUS
    <3>1. CASE i = 0
      BY <2>2, <3>1
    <3>2. CASE i = n + 1
      <4>1. g[i] = ReapStep(f[n], n + 1) /\ i - 1 = n /\ i # 0
        BY <3>2
      <4>2. g[n] = f[n]
        OBVIOUS
      <4>3. h[i] = ReapStep(g[i - 1], i)
        BY <4>1
      <4> QED
        BY <3>2, <4>1, <4>2, <4>3
    <3>3. CASE i # 0 /\ i # n + 1
      <4>1. g[i] = f[i] /\ i \in 0 .. n /\ i - 1 \in 0 .. n
        BY <3>3
      <4>2. g[i - 1] = f[i - 1]
        BY <4>1
      <4>3. h[i] = ReapStep(g[i - 1], i)
        BY <3>3
      <4> QED
        BY <2>2, <3>3, <4>1, <4>2, <4>3
    <3> QED
      BY <3>1, <3>2, <3>3
  <2>4. g = h
    BY <2>3
  <2> HIDE DEF g
  <2>5. IsReaping(g, ls, n + 1)
    BY <2>4 DEF IsReaping
  <2> QED
    BY <2>5
<1> HIDE DEF S
<1>3. Nat \subseteq S
  BY <1>1, <1>2, SetInduction
<1> QED
  BY <1>3 DEF S

\* A reap leaves a chain.
LEMMA slablist_reapChain ==
    ASSUME NEW ls, Chain(ls), Len(ls) > 0
    PROVE  Chain(slablist_reap(ls)) /\ Len(slablist_reap(ls)) > 0
<1> DEFINE N == Len(ls)
           f == CHOOSE g : IsReaping(g, ls, N)
<1>0. N \in Nat
  BY SlabAt DEF Chain
<1>1. slablist_reap(ls) = f[N]
  BY DEF slablist_reap, IsReaping
<1>2. IsReaping(f, ls, N)
  BY <1>0, ReapingExists
<1> HIDE DEF f, N
<1>3. \A i \in 0 .. N : f[i] = IF i = 0 THEN ls ELSE ReapStep(f[i - 1], i)
  BY <1>2 DEF IsReaping
<1> DEFINE S == {n \in Nat : n <= N => Reaped(f[n], n) /\ Len(f[n]) <= N}
<1>4. 0 \in S
  <2>1. f[0] = ls
    BY <1>0, <1>3
  <2>2. Reaped(ls, 0) /\ Len(ls) <= N
    BY <1>0 DEF Chain, Packed, Reaped, N
  <2> QED
    BY <2>1, <2>2
<1>5. ASSUME NEW n \in Nat, n \in S
      PROVE  n + 1 \in S
  <2> SUFFICES ASSUME n + 1 <= N
               PROVE  Reaped(f[n + 1], n + 1) /\ Len(f[n + 1]) <= N
    OBVIOUS
  <2>1. n <= N
    BY <1>0
  <2>2. Reaped(f[n], n) /\ Len(f[n]) <= N
    BY <1>5, <2>1
  <2>3. f[n + 1] = ReapStep(f[n], n + 1)
    <3>1. n + 1 \in 0 .. N /\ n + 1 # 0 /\ (n + 1) - 1 = n
      BY <1>0
    <3> QED
      BY <1>3, <3>1
  <2>4. Reaped(f[n + 1], n + 1) /\ Len(f[n + 1]) <= Len(f[n])
    BY <2>2, <2>3, ReapStepReaped
  <2>5. f[n] \in Seq(Slab) /\ f[n + 1] \in Seq(Slab)
    BY <2>2, <2>4 DEF Reaped
  <2>6. Len(f[n]) \in Nat /\ Len(f[n + 1]) \in Nat
    BY <2>5, SlabAt
  <2> QED
    BY <1>0, <2>2, <2>4, <2>6
<1> HIDE DEF S
<1>6. Nat \subseteq S
  BY <1>4, <1>5, SetInduction
<1>7. Reaped(f[N], N) /\ Len(f[N]) <= N
  BY <1>0, <1>6 DEF S
<1>8. f[N] \in Seq(Slab) /\ Len(f[N]) \in Nat
  <2>1. f[N] \in Seq(Slab)
    BY <1>7 DEF Reaped
  <2> QED
    BY <2>1, SlabAt
<1>9. Packed(f[N])
  <2> SUFFICES ASSUME NEW j \in 1 .. Len(f[N]) - 1
               PROVE  f[N][j].s_elems + f[N][j + 1].s_elems > SELEM_MAX
    BY DEF Packed
  <2>1. j # N + 1
    BY <1>0, <1>7, <1>8
  <2> QED
    BY <1>7, <2>1 DEF Reaped
<1>10. Chain(f[N]) /\ Len(f[N]) > 0
  BY <1>7, <1>8, <1>9 DEF Chain, Reaped
<1> QED
  BY <1>1, <1>10

LEMMA try_reapChain ==
    ASSUME NEW ls, Chain(ls), NEW elems, NEW mslabs, NEW mpslabs
    PROVE  Chain(try_reap(ls, elems, mslabs, mpslabs))
<1>1. \/ try_reap(ls, elems, mslabs, mpslabs) = ls
      \/ /\ ls # <<>>
         /\ try_reap(ls, elems, mslabs, mpslabs) = slablist_reap(ls)
  BY DEF try_reap
<1>2. ls # <<>> => Len(ls) > 0
  <2>1. ls \in Seq(Slab)
    BY DEF Chain
  <2> QED
    BY <2>1, EmptySeq, LenProperties
<1> QED
  BY <1>1, <1>2, slablist_reapChain

-----------------------------------------------------------------------------
(* What any merge or reap keeps *)

\* A set of chains that no move of elements between two neighbours leaves, and
\* no unlinking of an empty slab.
MoveClosed(P) ==
    /\ P \subseteq Seq(Slab)
    /\ \A ls \in P : \A a \in 1 .. Len(ls) :
           a + 1 \in 1 .. Len(ls) /\ ls[a + 1].s_elems > 0 => ToNext(ls, a) \in P
    /\ \A ls \in P : \A a \in 1 .. Len(ls) :
           a - 1 \in 1 .. Len(ls) => ToPrev(ls, a) \in P
    /\ \A ls \in P : \A p \in 1 .. Len(ls) :
           ls[p].s_elems = 0 => RemoveAt(ls, p) \in P

LEMMA ReapStepClosed ==
    ASSUME NEW P, MoveClosed(P), NEW ls \in P, NEW a \in Nat, a > 0
    PROVE  ReapStep(ls, a) \in P
<1> DEFINE b == a + 1
           z == ToPrev(ls, b)
<1>0. ls \in Seq(Slab) /\ Len(ls) \in Nat
  BY SlabAt DEF MoveClosed
<1>1. CASE a >= Len(ls) \/ ls[a].s_elems = SELEM_MAX
  BY <1>1 DEF ReapStep
<1>2. CASE ~(a >= Len(ls) \/ ls[a].s_elems = SELEM_MAX)
  <2>1. ReapStep(ls, a) = IF z[b].s_elems = 0 THEN RemoveAt(z, b) ELSE z
    BY <1>2 DEF ReapStep
  <2>2. b \in 1 .. Len(ls) /\ b - 1 \in 1 .. Len(ls)
    BY <1>0, <1>2
  <2> HIDE DEF b
  <2>3. z \in P /\ Len(z) = Len(ls)
    BY <1>0, <2>2, ToPrevSlabs DEF MoveClosed
  <2> HIDE DEF z
  <2> QED
    BY <2>1, <2>2, <2>3 DEF MoveClosed
<1> QED
  BY <1>1, <1>2

\* Such a set is left by no reap.
LEMMA slablist_reapClosed ==
    ASSUME NEW P, MoveClosed(P), NEW ls \in P
    PROVE  slablist_reap(ls) \in P
<1> DEFINE N == Len(ls)
           f == CHOOSE g : IsReaping(g, ls, N)
<1>0. N \in Nat
  BY SlabAt DEF MoveClosed
<1>1. slablist_reap(ls) = f[N]
  BY DEF slablist_reap, IsReaping
<1>2. IsReaping(f, ls, N)
  BY <1>0, ReapingExists
<1> HIDE DEF f, N
<1>3. \A i \in 0 .. N : f[i] = IF i = 0 THEN ls ELSE ReapStep(f[i - 1], i)
  BY <1>2 DEF IsReaping
<1> DEFINE S == {n \in Nat : n <= N => f[n] \in P}
<1>4. 0 \in S
  <2>1. f[0] = ls
    BY <1>0, <1>3
  <2> QED
    BY <2>1
<1>5. ASSUME NEW n \in Nat, n \in S
      PROVE  n + 1 \in S
  <2> SUFFICES ASSUME n + 1 <= N PROVE f[n + 1] \in P
    OBVIOUS
  <2>1. n <= N
    BY <1>0
  <2>2. f[n] \in P
    BY <1>5, <2>1
  <2>3. f[n + 1] = ReapStep(f[n], n + 1)
    <3>1. n + 1 \in 0 .. N /\ n + 1 # 0 /\ (n + 1) - 1 = n
      BY <1>0
    <3> QED
      BY <1>3, <3>1
  <2>4. n + 1 \in Nat /\ n + 1 > 0
    OBVIOUS
  <2>5. ReapStep(f[n], n + 1) \in P
    BY <2>2, <2>4, ReapStepClosed
  <2> QED
    BY <2>3, <2>5
<1> HIDE DEF S
<1>6. Nat \subseteq S
  BY <1>4, <1>5, SetInduction
<1>7. f[N] \in P
  BY <1>0, <1>6 DEF S
<1> QED
  BY <1>1, <1>7

\* Unlinking slab `m' once a neighbour, or both, have taken its elements.
LEMMA EmptiedNext ==
    ASSUME NEW P, MoveClosed(P), NEW ls \in P, NEW m \in 1 .. Len(ls), m + 1 \in 1 .. Len(ls),
           ls[m + 1].s_elems > 0, ls[m].s_elems <= SELEM_MAX - ls[m + 1].s_elems
    PROVE  RemoveAt(ToNext(ls, m), m) \in P
<1> DEFINE z == ToNext(ls, m)
<1>0. ls \in Seq(Slab) /\ ls[m] \in Slab /\ ls[m + 1] \in Slab
  BY SlabAt DEF MoveClosed
<1>1. z \in P
  BY DEF MoveClosed
<1>2. CopyCount(ls[m], ls[m + 1]) = ls[m].s_elems
  BY <1>0, CopyCountCases
<1>3. Len(z) = Len(ls) /\ z[m].s_elems = ls[m].s_elems - ls[m].s_elems
  BY <1>0, <1>2, ToNextSlabs
<1> HIDE DEF z
<1>4. z[m].s_elems = 0
  BY <1>0, <1>3, SlabAt, SlabParts
<1> QED
  BY <1>1, <1>3, <1>4 DEF MoveClosed, z

LEMMA EmptiedPrev ==
    ASSUME NEW P, MoveClosed(P), NEW ls \in P, NEW m \in 1 .. Len(ls), m - 1 \in 1 .. Len(ls),
           ls[m].s_elems <= SELEM_MAX - ls[m - 1].s_elems
    PROVE  RemoveAt(ToPrev(ls, m), m) \in P
<1> DEFINE z == ToPrev(ls, m)
<1>0. ls \in Seq(Slab) /\ ls[m] \in Slab /\ ls[m - 1] \in Slab
  BY SlabAt DEF MoveClosed
<1>1. z \in P
  BY DEF MoveClosed
<1>2. CopyCount(ls[m], ls[m - 1]) = ls[m].s_elems
  BY <1>0, CopyCountCases
<1>3. Len(z) = Len(ls) /\ z[m].s_elems = ls[m].s_elems - ls[m].s_elems
  BY <1>0, <1>2, ToPrevSlabs
<1> HIDE DEF z
<1>4. z[m].s_elems = 0
  BY <1>0, <1>3, SlabAt, SlabParts
<1> QED
  BY <1>1, <1>3, <1>4 DEF MoveClosed, z

LEMMA EmptiedBoth ==
    ASSUME NEW P, MoveClosed(P), NEW ls \in P, NEW m \in 1 .. Len(ls),
           m + 1 \in 1 .. Len(ls), m - 1 \in 1 .. Len(ls), ls[m + 1].s_elems > 0,
           ls[m].s_elems > SELEM_MAX - ls[m + 1].s_elems,
           ls[m].s_elems <= (SELEM_MAX - ls[m - 1].s_elems) + (SELEM_MAX - ls[m + 1].s_elems)
    PROVE  RemoveAt(ToPrev(ToNext(ls, m), m), m) \in P
<1> DEFINE n == m + 1
           p == m - 1
           y == ToNext(ls, m)
           em == ls[m].s_elems
           en == ls[n].s_elems
           ep == ls[p].s_elems
<1>0. /\ ls \in Seq(Slab) /\ ls[m] \in Slab /\ ls[n] \in Slab /\ SELEM_MAX \in Nat
      /\ em \in Nat /\ en \in Nat /\ ep \in Nat /\ p # m /\ p # n /\ p \in 1 .. Len(ls)
      /\ em > SELEM_MAX - en /\ em <= (SELEM_MAX - ep) + (SELEM_MAX - en)
  BY SMTT(60), SlabAt DEF MoveClosed
<1>1. y \in P
  BY DEF MoveClosed
<1>2. CopyCount(ls[m], ls[n]) = SELEM_MAX - en
  <2>1. CopyCount(ls[m], ls[n]) = IF em <= SELEM_MAX - en THEN em ELSE SELEM_MAX - en
    BY <1>0, CopyCountCases
  <2> HIDE DEF em, en, ep
  <2> QED
    BY <1>0, <2>1
<1>3. Len(y) = Len(ls) /\ y[m].s_elems = em - (SELEM_MAX - en) /\ y[p].s_elems = ep
  <2>1. /\ Len(y) = Len(ls)
        /\ \A j \in 1 .. Len(ls) : y[j].s_elems =
               IF j = m THEN em - CopyCount(ls[m], ls[n])
               ELSE IF j = n THEN en + CopyCount(ls[m], ls[n])
               ELSE ls[j].s_elems
    BY <1>0, ToNextSlabs
  <2> HIDE DEF y, n, p
  <2> QED
    BY <1>0, <1>2, <2>1
<1> HIDE DEF y
<1>4. y[m].s_elems <= SELEM_MAX - y[p].s_elems
  <2> HIDE DEF em, en, ep, p
  <2> QED
    BY SMTT(60), <1>0, <1>3
<1>5. y \in P /\ m \in 1 .. Len(y) /\ m - 1 \in 1 .. Len(y)
  BY <1>1, <1>3
<1>6. RemoveAt(ToPrev(y, m), m) \in P
  BY <1>4, <1>5, EmptiedPrev
<1> QED
  BY <1>6 DEF y

\* Such a set is left by no merge after a removal.
LEMMA slab_generic_remClosed ==
    ASSUME NEW P, MoveClosed(P), NEW ls \in P, NEW m, Dented(ls, m)
    PROVE  slab_generic_rem(ls, m) \in P
<1> DEFINE n == m + 1
           p == m - 1
           hasN == n \in DOMAIN ls
           hasP == p \in DOMAIN ls
           em == ls[m].s_elems
           en == ls[n].s_elems
           ep == ls[p].s_elems
           fitsN == hasN /\ em <= SELEM_MAX - en
           fitsP == hasP /\ em <= SELEM_MAX - ep
           fitsB == hasP /\ hasN /\ em <= (SELEM_MAX - ep) + (SELEM_MAX - en)
           deadN == hasP /\ hasN /\ en <= (SELEM_MAX - em) + (SELEM_MAX - ep)
           deadP == hasP /\ hasN /\ ep <= (SELEM_MAX - em) + (SELEM_MAX - en)
<1>0. /\ ls \in Seq(Slab) /\ m \in 1 .. Len(ls) /\ Len(ls) \in Nat /\ SELEM_MAX \in Nat
      /\ DOMAIN ls = 1 .. Len(ls)
  BY DentedFacts, SlabAt
<1>1. /\ em \in 0 .. SELEM_MAX
      /\ hasN => en \in 1 .. SELEM_MAX
      /\ hasP => ep \in 1 .. SELEM_MAX
  <2>1. \A j \in 1 .. Len(ls) : ls[j].s_elems \in 0 .. SELEM_MAX
    BY DentedFacts
  <2>2. \A j \in 1 .. Len(ls) : j # m => ls[j].s_elems > 0
    BY DentedFacts
  <2>3. n # m /\ p # m
    BY <1>0
  <2> HIDE DEF n, p
  <2> QED
    BY <1>0, <2>1, <2>2, <2>3
<1>2. slab_generic_rem(ls, m) =
          IF em = 0 THEN RemoveAt(ls, m)
          ELSE IF fitsN THEN RemoveAt(ToNext(ls, m), m)
          ELSE IF fitsP THEN RemoveAt(ToPrev(ls, m), m)
          ELSE IF fitsB THEN RemoveAt(ToPrev(ToNext(ls, m), m), m)
          ELSE IF deadN THEN RemoveAt(ToPrev(ToPrev(ls, m), n), n)
          ELSE IF deadP THEN RemoveAt(ToNext(ToNext(ls, m), p), p)
          ELSE ls
  BY DEF slab_generic_rem, SLAB_FREE_SPACE
<1>3. ls \in P
  OBVIOUS
<1>4. em = 0 => RemoveAt(ls, m) \in P
  BY <1>0, <1>3 DEF MoveClosed
<1>5. fitsN => RemoveAt(ToNext(ls, m), m) \in P
  <2> SUFFICES ASSUME fitsN PROVE RemoveAt(ToNext(ls, m), m) \in P
    OBVIOUS
  <2>1. m + 1 \in 1 .. Len(ls) /\ ls[m + 1].s_elems > 0
    BY <1>0, <1>1
  <2> QED
    BY <1>0, <2>1, EmptiedNext
<1>6. fitsP => RemoveAt(ToPrev(ls, m), m) \in P
  BY <1>0, EmptiedPrev
<1>7. fitsB /\ ~fitsN => RemoveAt(ToPrev(ToNext(ls, m), m), m) \in P
  <2> SUFFICES ASSUME fitsB, ~fitsN
               PROVE  RemoveAt(ToPrev(ToNext(ls, m), m), m) \in P
    OBVIOUS
  <2>1. em > SELEM_MAX - en
    <3> HIDE DEF em, en, ep, hasN, hasP
    <3> QED
      BY <1>0, <1>1
  <2>2. /\ m + 1 \in 1 .. Len(ls) /\ m - 1 \in 1 .. Len(ls)
        /\ ls[m + 1].s_elems > 0
    BY <1>0, <1>1
  <2> QED
    BY <1>0, <2>1, <2>2, EmptiedBoth
<1>8. ~fitsB => ~deadN /\ ~deadP
  <2> HIDE DEF em, en, ep, hasN, hasP
  <2> QED
    BY <1>0, <1>1
<1> HIDE DEF fitsN, fitsP, fitsB, deadN, deadP, em
<1> QED
  BY <1>2, <1>3, <1>4, <1>5, <1>6, <1>7, <1>8

-----------------------------------------------------------------------------
(* Chains of no and of one slab, and the conversions between the two forms *)

LEMMA NoSlabsChain == Chain(<<>>)
BY EmptySeq DEF Chain, Packed

LEMMA OneSlabChain ==
    ASSUME NEW x \in Slab, x.s_elems > 0
    PROVE  Chain(<<x>>) /\ Len(<<x>>) > 0
<1>1. /\ <<x>> \in Seq(Slab) /\ Len(<<x>>) = 1 /\ <<x>>[1] = x
  OBVIOUS
<1> QED
  BY <1>1 DEF Chain, Packed

LEMMA small_list_to_slabIsSlab ==
    ASSUME NEW l \in Seq(Elem), Len(l) > 0, Len(l) <= SELEM_MAX
    PROVE  small_list_to_slab(l) \in Slab /\ small_list_to_slab(l).s_elems = Len(l)
<1> DEFINE arr == [j \in Index |-> IF j < Len(l) THEN l[j + 1] ELSE NoElem]
<1>0. Len(l) \in Nat /\ \A p \in 1 .. Len(l) : l[p] \in Elem
  BY LenProperties, ElementOfSeq
<1>1. \A j \in Index : arr[j] \in Slot
  <2> SUFFICES ASSUME NEW j \in Index PROVE arr[j] \in Slot
    OBVIOUS
  <2>1. j < Len(l) => j + 1 \in 1 .. Len(l)
    BY <1>0, SlabSizeAssumption DEF Index
  <2> QED
    BY <1>0, <2>1, ElemIsSlot
<1>2. arr \in [Index -> Slot]
  BY <1>1
<1>3. \A j \in 0 .. Len(l) - 1 : arr[j] \in Elem
  <2> SUFFICES ASSUME NEW j \in 0 .. Len(l) - 1 PROVE arr[j] \in Elem
    OBVIOUS
  <2>1. j \in Index /\ j < Len(l) /\ j + 1 \in 1 .. Len(l)
    BY <1>0, SlabSizeAssumption DEF Index
  <2> QED
    BY <1>0, <2>1
<1> HIDE DEF arr
<1>4. l[1] \in Slot /\ l[Len(l)] \in Slot /\ Len(l) \in 0 .. SELEM_MAX
  BY <1>0, SlabSizeAssumption, ElemIsSlot
<1>5. [s_min |-> l[1], s_max |-> l[Len(l)], s_elems |-> Len(l), s_arr |-> arr] \in Slab
  BY <1>2, <1>3, <1>4, MakeSlab
<1>6. small_list_to_slab(l) =
          [s_min |-> l[1], s_max |-> l[Len(l)], s_elems |-> Len(l), s_arr |-> arr]
  BY DEF small_list_to_slab, arr
<1> QED
  BY <1>5, <1>6

LEMMA slab_to_small_listIsSeq ==
    ASSUME NEW h \in Slab
    PROVE  /\ slab_to_small_list(h) \in Seq(Elem)
           /\ Len(slab_to_small_list(h)) = h.s_elems
<1>1. h.s_elems \in Nat /\ \A j \in 0 .. h.s_elems - 1 : h.s_arr[j] \in Elem
  BY SlabParts, SlabSizeAssumption
<1>2. \A p \in 1 .. h.s_elems : h.s_arr[p - 1] \in Elem
  BY <1>1
<1>3. slab_to_small_list(h) \in [1 .. h.s_elems -> Elem]
  BY <1>2 DEF slab_to_small_list
<1> QED
  BY <1>1, <1>3, SeqDef, LenProperties

=============================================================================
