------------------------------ MODULE SkipList ------------------------------
(***************************************************************************)
(* The skip list of the driver (skiplist.c): creation, insertion, search   *)
(* and the one fold it has.  Nodes are numbered as they are allocated; the *)
(* head is node 0.  The driver never deletes from it.                      *)
(***************************************************************************)
EXTENDS Integers, Sequences, FiniteSets, TLC

CONSTANTS MaxLvl,     \* 16 in the driver
          MaxKey      \* the key of the end node: UINT64_MAX in the driver

ASSUME LevelsExist == MaxLvl \in Nat \ {0} /\ MaxKey \in Nat

HeadNode == 0
EndNode == -1
Null == -2

Levels == 0 .. MaxLvl - 1

createskiplist ==
  [cur |-> -1,
   key |-> (HeadNode :> 0) @@ (EndNode :> MaxKey),
   list |-> (HeadNode :> [i \in Levels |-> EndNode])
              @@ (EndNode :> [i \in Levels |-> Null])]

(* Coin tosses raise the level from 0; the last level is reached by one    *)
(* toss more than there are levels as well.                                *)
genlvl == {IF tosses = MaxLvl THEN tosses - 1 ELSE tosses :
             tosses \in 0 .. MaxLvl}

RECURSIVE Along(_, _, _, _)
Along(sl, k, i, p) ==
  IF k > sl.key[sl.list[p][i]] THEN Along(sl, k, i, sl.list[p][i]) ELSE p

(* For each level the last node below k; the head above the current level. *)
RECURSIVE Track(_, _, _, _)
Track(sl, k, i, p) ==
  IF i < 0 THEN << >>
  ELSE LET q == Along(sl, k, i, p) IN (i :> q) @@ Track(sl, k, i - 1, q)

findplace(sl, k) ==
  Track(sl, k, sl.cur, HeadNode)
    @@ [i \in sl.cur + 1 .. MaxLvl - 1 |-> HeadNode]

insertkey(sl, k, lvl) ==
  LET btrack == findplace(sl, k)
      n == Cardinality(DOMAIN sl.key) - 1
  IN  [cur |-> IF sl.cur < lvl THEN lvl ELSE sl.cur,
       key |-> sl.key @@ (n :> k),
       list |-> [m \in DOMAIN sl.list |->
                   [i \in DOMAIN sl.list[m] |->
                      IF i <= lvl /\ btrack[i] = m THEN n ELSE sl.list[m][i]]]
                @@ (n :> [i \in 0 .. lvl |-> sl.list[btrack[i]][i]])]

(* The comparison left over from level 0 says whether the key was met; the *)
(* code leaves it 0 in a list nothing was ever inserted in.                *)
searchkey(sl, k) ==
  LET next == sl.list[findplace(sl, k)[0]][0]
  IN  (sl.cur >= 0 /\ sl.key[next] = k) \/ sl.cur < 0

RECURSIVE LevelFrom(_, _, _)
LevelFrom(sl, n, i) ==
  IF n = Null THEN << >> ELSE <<n>> \o LevelFrom(sl, sl.list[n][i], i)

(* Starts after the head and stops at the null link of the end node, whose *)
(* key it has handed to the callback by then.                              *)
skl_foldr(sl) ==
  LET met == LevelFrom(sl, sl.list[HeadNode][0], 0)
  IN  [i \in DOMAIN met |-> sl.key[met[i]]]

=============================================================================
