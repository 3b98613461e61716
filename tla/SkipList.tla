------------------------------ MODULE SkipList ------------------------------
(***************************************************************************)
(* One memtable: class SkipList.  Every level is a vector of nodes that    *)
(* holds two chains linked by next: the records, from the next of node 0,  *)
(* and the free nodes, from the bottom of node 0.  The bottom of any other *)
(* node is its key's node one level below; 0 ends a chain.                 *)
(*                                                                         *)
(* A list is a record of its levels and of the number of free nodes of     *)
(* each; an operator is the call of one method, with data_mutex held.      *)
(***************************************************************************)
EXTENDS Index

CONSTANTS
  SKIP_LIST_MAX_HEIGHT,
  SKIP_LIST_INIT_CAPACITY,
  ListId                    \* id, the same for all lists

ASSUME SkipListAssumption ==
  /\ SKIP_LIST_MAX_HEIGHT \in Nat \ {0}
  /\ SKIP_LIST_INIT_CAPACITY \in Nat \ {0, 1}

Levels  == 0 .. SKIP_LIST_MAX_HEIGHT - 1

NewNode == [key |-> 0, idx |-> NewIndex, next |-> 0, bottom |-> 0]

\* level with new nodes from first to last, each put before the free nodes.
Extended(level, first, last) ==
  [n \in 0 .. last |->
     CASE n = 0 -> [level[0] EXCEPT !.bottom = last]
       [] n >= first -> [NewNode EXCEPT !.next = IF n = first THEN level[0].bottom ELSE n - 1]
       [] OTHER -> level[n]]

NewLevel == Extended([n \in {0} |-> NewNode], 1, SKIP_LIST_INIT_CAPACITY - 1)

NewList == [sk_data |-> [i \in Levels |-> NewLevel],
            sk_capacity |-> [i \in Levels |-> SKIP_LIST_INIT_CAPACITY - 1]]

\* get_heighest_level
HighestLevel(l) == Max({0} \cup {i \in Levels : l.sk_data[i][0].next # 0})

\* The last node from n on whose key is not beyond key.
WalkTo(level, n, key) ==
  LET last[m \in DOMAIN level] ==
        LET next == level[m].next
        IN  IF next # 0 /\ level[next].key <= key THEN last[next] ELSE m
  IN  last[n]

\* The node where the search goes on one level below node n of level i.  From
\* node 0 it goes on at node 0, whose bottom is not a node below.
Below(l, i, n) == IF n = 0 THEN 0 ELSE l.sk_data[i][n].bottom

\* Where the search for key ends on each level, from the highest down.
Trace(l, key) ==
  LET h == HighestLevel(l)
      trace[i \in 0 .. h] ==
        WalkTo(l.sk_data[i], IF i = h THEN 0 ELSE Below(l, i + 1, trace[i + 1]), key)
  IN  trace

\* The node of level 0 below node n of level i.
Ground(l, i, n) ==
  LET node[j \in 0 .. i] == IF j = i THEN n ELSE l.sk_data[j + 1][node[j + 1]].bottom
  IN  node[0]

\* get: the node of level 0 with the key, or -1.  The search ends on the first
\* level where it comes to the key.
Find(l, key) ==
  LET trace == Trace(l, key)
      found == {i \in DOMAIN trace :
                  (trace[i] # 0 \/ key # 0) /\ l.sk_data[i][trace[i]].key = key}
  IN  IF found = {} THEN -1 ELSE Ground(l, Max(found), trace[Max(found)])

Word(l, n) == l.sk_data[0][n].idx

\* insert_after: the first free node gets the record and comes after node n.
Inserted(level, n, key, w, below) ==
  LET free  == level[0].bottom
      moved == [level EXCEPT ![0].bottom = level[free].next]
  IN  [moved EXCEPT ![n].next = free,
                    ![free] = [key |-> key, idx |-> w, next |-> moved[n].next,
                               bottom |-> below]]

\* Mutant: a level keeps its size.
ResizedNever(level, capacity) == [nodes |-> level, capacity |-> capacity]

\* check_and_resize doubles a level that has no free node left.
Resized(level, capacity) ==
  LET size == Cardinality(DOMAIN level)
  IN  IF capacity > 0 THEN [nodes |-> level, capacity |-> capacity]
      ELSE [nodes |-> Extended(level, size, 2 * size - 1), capacity |-> size]

\* Mutant: the bottom of a node is its first free neighbour.
NodeBelowSameLevel(l, i) == l.sk_data[i][0].bottom

\* The bottom of a new node of level i: the node its key is about to get one
\* level below.  On level 0 what the free node had is left.
NodeBelow(l, i) ==
  IF i = 0 THEN l.sk_data[0][l.sk_data[0][0].bottom].bottom ELSE l.sk_data[i - 1][0].bottom

\* A key that is not in the list gets a node on each level below height.  On
\* levels above the highest the trace has no node, and node 0 is taken.
Insert(l, key, w, height) ==
  LET trace == Trace(l, key)
      after(i) == IF i \in DOMAIN trace THEN trace[i] ELSE 0
      level(i) ==
        IF i >= height THEN [nodes |-> l.sk_data[i], capacity |-> l.sk_capacity[i]]
        ELSE Resized(Inserted(l.sk_data[i], after(i), key, w, NodeBelow(l, i)),
                     l.sk_capacity[i] - 1)
  IN  [sk_data |-> [i \in Levels |-> level(i).nodes],
       sk_capacity |-> [i \in Levels |-> level(i).capacity]]

\* update.  A key that is there keeps its nodes; the index on level 0 changes.
UpdateList(l, key, w, height) ==
  LET n == Find(l, key)
  IN  IF n > 0
      THEN [l EXCEPT !.sk_data[0][n].idx = SetFid(SetIdx(@, GetIdx(w)), ListId)]
      ELSE Insert(l, key, w, height)

\* cnt_ns
CntNs(l) == Cardinality(DOMAIN l.sk_data[0]) - l.sk_capacity[0] - 1

\* front_lvl_0: the first node, 0 when there is none.
FrontLvl0(l) == l.sk_data[0][0].next

\* Mutant: the free nodes are cut off.
PopLvl0LosesFree(l) ==
  LET n == FrontLvl0(l)
  IN  [l EXCEPT !.sk_data[0][0] = [@ EXCEPT !.next = l.sk_data[0][n].next, !.bottom = n],
                !.sk_data[0][n].next = 0]

\* pop_lvl_0.  The node joins the free ones and keeps its record; the levels
\* above are left as they are.
PopLvl0(l) ==
  LET n == FrontLvl0(l)
  IN  [l EXCEPT !.sk_data[0][0] = [@ EXCEPT !.next = l.sk_data[0][n].next, !.bottom = n],
                !.sk_data[0][n].next = l.sk_data[0][0].bottom]

-----------------------------------------------------------------------------
(* What the methods rely on *)

\* The nodes of the chain that starts at node n.
Chain(level, n) ==
  LET from[m \in DOMAIN level] == IF m = 0 THEN {} ELSE {m} \cup from[level[m].next]
  IN  from[n]

Records(level) == Chain(level, level[0].next)
Free(level)    == Chain(level, level[0].bottom)
=============================================================================
